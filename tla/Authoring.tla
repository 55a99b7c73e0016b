------------------------------ MODULE Authoring ------------------------------
(***************************************************************************)
(* Zome function calls and what they author. A caller's future puts a call *)
(* in the pool of the nucleus, which runs a bounded number at a time; the  *)
(* future starts a thread for its call once it sees it running. A zome     *)
(* function that commits an entry goes through author_entry: build the     *)
(* validation package, validate, commit to the source chain, publish the   *)
(* entry, publish its header. Every step that changes state is an action   *)
(* sent through the channel to the one action loop; its response is left   *)
(* in the state for the future that waits for it, which then asks for the  *)
(* response to be cleared. The loop saves the state after every action.    *)
(* A zome function may call another one of the same instance: its thread   *)
(* then waits for the inner call, which needs a place of its own in the    *)
(* pool, and keeps its own. The network may fetch an entry it knows of.    *)
(* A crash loses everything but the saved chain and what was sent to the   *)
(* network.                                                                *)
(***************************************************************************)
EXTENDS Naturals, Sequences, FiniteSets, SequencesExt

CONSTANTS
  Calls,          \* the zome function calls, each made at most once
  Authors,        \* those whose function commits an entry
  Inner,          \* call -> the calls of its instance that its function may make
  Entries,
  EntryOf,        \* author -> the entry it commits
  Private,        \* entries whose type cannot be published
  HasMeta,        \* updates, deletions and links: a second aspect is published
  BaseOf,         \* such an entry -> the entry the second aspect is about
  MaxZomeCalls,   \* MAX_ZOME_CALLS
  MaxCrashes      \* bound: crashes and restarts

ASSUME CallsAssumption ==
  /\ Authors \subseteq Calls
  /\ Inner \in [Calls -> SUBSET Calls]
  /\ EntryOf \in [Authors -> Entries]
  /\ HasMeta \subseteq Entries
  /\ BaseOf \in [HasMeta -> Entries]

ASSUME PoolAssumption == MaxZomeCalls \in Nat \ {0} /\ MaxCrashes \in Nat

VARIABLES
  caller,      \* CallResultFuture of each call
  thread,      \* how far the thread of a call is in author_entry
  awaits,      \* the inner call that a thread waits for, or none
  channel,     \* the action channel
  running,     \* NucleusState::running_zome_calls
  queued,      \* NucleusState::queued_zome_calls
  results,     \* NucleusState::zome_call_results: calls and how they ended
  commits,     \* AgentState::actions: ids of actions and their responses
  publishes,   \* NetworkState::actions: likewise
  chain,       \* the source chain, from the first header to the top header
  saved,       \* the chain up to the top header in the saved snapshot
  published,   \* the aspects sent to the network, with the header sent along
  saveFailed,  \* history: whether a save has failed
  crashes      \* counter for the bound

threads == <<thread, awaits>>
nucleus == <<running, queued, results>>
responses == <<commits, publishes>>
disk == <<saved, saveFailed>>
vars == <<caller, thread, awaits, channel, running, queued, results, commits,
          publishes, chain, saved, published, saveFailed, crashes>>

Outcome == {"ok", "error"}
Caller == {"idle", "waiting", "spawned", "lost"} \cup Outcome
Thread == {"none", "start", "package", "commit", "publish", "header"}
Kind == {"queue", "return", "clearCall", "commit", "publish", "header", "clear"}

Header == [entry : Entries, call : Authors]

Send(a) == channel' = Append(channel, a)

\* An action about a call; of is the action whose response a clear is about, or
\* how a call that returns has ended.
Action(k, c) == [kind |-> k, call |-> c, of |-> ""]
Clear(k, c) == [kind |-> "clear", call |-> c, of |-> k]
Return(c, how) == [kind |-> "return", call |-> c, of |-> how]

-----------------------------------------------------------------------------
(* Callers.                                                                *)

\* call_zome_function, up to its future.
Request(c) ==
  /\ caller[c] = "idle"
  /\ caller' = [caller EXCEPT ![c] = "waiting"]
  /\ Send(Action("queue", c))

\* An unknown function or a failed capability check is an error at once.
Refuse(c) ==
  /\ caller[c] = "idle"
  /\ caller' = [caller EXCEPT ![c] = "error"]
  /\ UNCHANGED channel

\* A call from an interface, a bridge or another agent.
CallZomeFunction(c) ==
  /\ Request(c) \/ Refuse(c)
  /\ UNCHANGED <<threads, nucleus, responses, chain, disk, published, crashes>>

\* local_call: the function of c calls another one of its instance and blocks.
\* It may do so before it commits.
CallInner(c, d) ==
  /\ thread[c] = "start" /\ awaits[c] = {} /\ d \in Inner[c]
  /\ \/ Request(d) /\ awaits' = [awaits EXCEPT ![c] = {d}]
     \/ Refuse(d) /\ UNCHANGED awaits
  /\ UNCHANGED <<thread, nucleus, responses, chain, disk, published, crashes>>

\* Mutant of SpawnZomeFunction: the future forgets that it started the thread.
SpawnAgain(c) ==
  /\ caller[c] \in {"waiting", "spawned"}
  /\ c \in running
  /\ thread[c] = "none"
  /\ caller' = [caller EXCEPT ![c] = "spawned"]
  /\ thread' = [thread EXCEPT ![c] = "start"]
  /\ UNCHANGED <<awaits, channel, nucleus, responses, chain, disk, published, crashes>>

\* CallResultFuture::poll before the thread is started.
SpawnZomeFunction(c) ==
  /\ caller[c] = "waiting"
  /\ c \in running
  /\ caller' = [caller EXCEPT ![c] = "spawned"]
  /\ thread' = [thread EXCEPT ![c] = "start"]
  /\ UNCHANGED <<awaits, channel, nucleus, responses, chain, disk, published, crashes>>

\* CallResultFuture::poll once the result is there. A thread that was blocked on
\* the call goes on.
TakeCallResult(c) ==
  /\ caller[c] = "spawned"
  /\ \E r \in results :
       r.call = c /\ caller' = [caller EXCEPT ![c] = r.of]
  /\ awaits' = [d \in Calls |-> awaits[d] \ {c}]
  /\ Send(Action("clearCall", c))
  /\ UNCHANGED <<thread, nucleus, responses, chain, disk, published, crashes>>

-----------------------------------------------------------------------------
(* Threads of zome functions.                                              *)

\* The function ends and its thread sends the result.
Finish(c, how) ==
  /\ thread' = [thread EXCEPT ![c] = "none"]
  /\ Send(Return(c, how))

Keep ==
  UNCHANGED <<caller, awaits, nucleus, responses, chain, disk, published, crashes>>

\* Mutant of RunZomeFunction: a function that fails sends no result.
RunZomeFunctionSilent(c) ==
  /\ thread[c] = "start" /\ awaits[c] = {}
  /\ c \notin Authors
  /\ \/ Finish(c, "ok")
     \/ thread' = [thread EXCEPT ![c] = "none"] /\ UNCHANGED channel
  /\ Keep

\* A function that commits nothing.
RunZomeFunction(c) ==
  /\ thread[c] = "start" /\ awaits[c] = {}
  /\ c \notin Authors
  /\ \E how \in Outcome : Finish(c, how)
  /\ Keep

\* author_entry up to the validation: entries of a link that are missing, an
\* unknown type or a failing callback end it.
BuildValidationPackage(c) ==
  /\ thread[c] = "start" /\ awaits[c] = {}
  /\ c \in Authors
  /\ \/ /\ thread' = [thread EXCEPT ![c] = "package"]
        /\ UNCHANGED channel
     \/ Finish(c, "error")
  /\ Keep

\* validate_entry, and the dispatch of commit_entry for a valid entry.
ValidateEntry(c) ==
  /\ thread[c] = "package"
  /\ \/ /\ thread' = [thread EXCEPT ![c] = "commit"]
        /\ Send(Action("commit", c))
     \/ Finish(c, "error")
  /\ Keep

\* Mutant of NextStep: an entry is published whatever its type.
NextStepPublic(c, k) ==
  CASE k = "commit" -> "publish"
    [] k = "publish" -> "header"
    [] k = "header" -> "end"

\* Mutant of NextStep: the header is not published.
NextStepNoHeader(c, k) ==
  IF k = "commit" /\ EntryOf[c] \notin Private THEN "publish" ELSE "end"

\* What author_entry does after the wait for step k has ended well: the next
\* step, or the end. A private entry is not published, its header is.
NextStep(c, k) ==
  CASE k = "commit" /\ EntryOf[c] \notin Private -> "publish"
    [] k = "commit" /\ EntryOf[c] \in Private -> "header"
    [] k = "publish" -> "header"
    [] k = "header" -> "end"

\* poll of CommitFuture, PublishFuture and PublishHeaderEntryFuture: the response
\* is taken, its clearing asked for, and author_entry goes on.
TakeResponse(c, k) ==
  /\ thread[c] = k
  /\ \E r \in commits \cup publishes :
       /\ r.kind = k /\ r.call = c
       /\ LET next == NextStep(c, k)
          IN  IF r.of = "ok" /\ next # "end"
              THEN /\ thread' = [thread EXCEPT ![c] = next]
                   /\ channel' = channel \o <<Clear(k, c), Action(next, c)>>
              ELSE /\ thread' = [thread EXCEPT ![c] = "none"]
                   /\ channel' = channel \o <<Clear(k, c), Return(c, r.of)>>
  /\ Keep

-----------------------------------------------------------------------------
(* The action loop.                                                        *)

\* Mutant of Persist: the state is not saved.
PersistNot == UNCHANGED disk

\* process_action saves the state that the reducers leave; that the save fails
\* is only logged.
Persist ==
  \/ /\ saved' = chain'
     /\ UNCHANGED saveFailed
  \/ /\ saved # chain'
     /\ saveFailed' = TRUE
     /\ UNCHANGED saved

Receive(k) ==
  /\ channel # << >>
  /\ Head(channel).kind = k
  /\ channel' = Tail(channel)
  /\ UNCHANGED <<caller, threads, crashes>>

ReduceQueueZomeFunctionCall ==
  /\ Receive("queue")
  /\ LET c == Head(channel).call
     IN  IF Cardinality(running) < MaxZomeCalls
         THEN running' = running \cup {c} /\ UNCHANGED queued
         ELSE queued' = Append(queued, c) /\ UNCHANGED running
  /\ UNCHANGED <<results, responses, chain, published>>
  /\ Persist

\* Mutant of ReduceReturn: no queued call takes the place.
ReduceReturnOnly ==
  /\ Receive("return")
  /\ LET a == Head(channel)
     IN  /\ results' = results \cup {a}
         /\ running' = running \ {a.call}
         /\ UNCHANGED queued
  /\ UNCHANGED <<responses, chain, published>>
  /\ Persist

\* Mutant of ReduceReturn: the next call is not taken from the queue.
ReduceReturnPeek ==
  /\ Receive("return")
  /\ LET a == Head(channel)
     IN  /\ results' = results \cup {a}
         /\ running' = (running \ {a.call}) \cup
                         (IF queued = << >> THEN {} ELSE {Head(queued)})
         /\ UNCHANGED queued
  /\ UNCHANGED <<responses, chain, published>>
  /\ Persist

\* reduce_return_zome_function_result
ReduceReturn ==
  /\ Receive("return")
  /\ LET a == Head(channel)
     IN  /\ results' = results \cup {a}
         /\ IF queued = << >>
            THEN running' = running \ {a.call} /\ UNCHANGED queued
            ELSE /\ running' = (running \ {a.call}) \cup {Head(queued)}
                 /\ queued' = Tail(queued)
  /\ UNCHANGED <<responses, chain, published>>
  /\ Persist

ReduceClearZomeFunctionCall ==
  /\ Receive("clearCall")
  /\ LET c == Head(channel).call
     IN  /\ queued' = RemoveFirst(queued, c)  \* a call is queued once
         /\ running' = running \ {c}
         /\ results' = {r \in results : r.call # c}
  /\ UNCHANGED <<responses, chain, published>>
  /\ Persist

Respond(c, k, how) == {[kind |-> k, call |-> c, of |-> how]}

\* reduce_commit_entry: the new header links to the top header at this moment,
\* whatever it was when the entry was validated. Without a signature there is
\* no header.
ReduceCommit ==
  /\ Receive("commit")
  /\ LET c == Head(channel).call
     IN  \/ /\ chain' = Append(chain, [entry |-> EntryOf[c], call |-> c])
            /\ commits' = commits \cup Respond(c, "commit", "ok")
         \/ /\ commits' = commits \cup Respond(c, "commit", "error")
            /\ UNCHANGED chain
  /\ UNCHANGED <<nucleus, publishes, published>>
  /\ Persist

\* find_chain_header: the place of the most recent header of the entry.
Latest(e) == CHOOSE n \in DOMAIN chain :
               /\ chain[n].entry = e
               /\ \A m \in DOMAIN chain : chain[m].entry = e => m =< n

OnChain(e) == \E n \in DOMAIN chain : chain[n].entry = e

\* Something sent to the network: which aspect, and the header it carries.
Aspect(what, e) == [what |-> what, at |-> Latest(e), header |-> chain[Latest(e)]]

\* reduce_publish_inner: the content, then for some types a second aspect. An
\* error of the first send keeps the second from being tried.
ReducePublish ==
  /\ Receive("publish")
  /\ LET c == Head(channel).call
         e == EntryOf[c]
         all == {Aspect("content", e)} \cup
                  (IF e \in HasMeta THEN {Aspect("meta", e)} ELSE {})
     IN  \/ /\ OnChain(e)
            /\ published' = published \cup all
            /\ publishes' = publishes \cup Respond(c, "publish", "ok")
         \/ /\ OnChain(e) /\ e \in HasMeta
            /\ published' = published \cup {Aspect("content", e)}
            /\ publishes' = publishes \cup Respond(c, "publish", "error")
         \/ /\ publishes' = publishes \cup Respond(c, "publish", "error")
            /\ UNCHANGED published
  /\ UNCHANGED <<nucleus, commits, chain>>
  /\ Persist

ReducePublishHeaderEntry ==
  /\ Receive("header")
  /\ LET c == Head(channel).call
     IN  \/ /\ OnChain(EntryOf[c])
            /\ published' = published \cup {Aspect("header", EntryOf[c])}
            /\ publishes' = publishes \cup Respond(c, "header", "ok")
         \/ /\ publishes' = publishes \cup Respond(c, "header", "error")
            /\ UNCHANGED published
  /\ UNCHANGED <<nucleus, commits, chain>>
  /\ Persist

About(a) == {r \in commits \cup publishes : r.kind = a.of /\ r.call = a.call}

\* reduce_clear_action_response of the agent state and of the network state. The
\* first keeps only the response it is asked to clear; the second drops it.
ReduceClearActionResponse ==
  /\ Receive("clear")
  /\ commits' = commits \cap About(Head(channel))
  /\ publishes' = publishes \ About(Head(channel))
  /\ UNCHANGED <<nucleus, chain, published>>
  /\ Persist

\* reduce_prune of both: responses more than a minute old go. That a future is
\* not polled for a minute is left out, so only those already taken are.
ReducePrune ==
  /\ commits' = {r \in commits : thread[r.call] = "commit"}
  /\ publishes' = {r \in publishes : thread[r.call] = r.kind}
  /\ responses' # responses
  /\ UNCHANGED <<caller, threads, channel, nucleus, chain, published, crashes>>
  /\ Persist

\* create_authoring_map: the entries under whose addresses the chain has public
\* content, or public metadata about them.
Public(n) == chain[n].entry \notin Private
HasMetaAbout(n, e) ==
  Public(n) /\ chain[n].entry \in HasMeta /\ BaseOf[chain[n].entry] = e
Listed(e) ==
  \E n \in DOMAIN chain :
    (Public(n) /\ chain[n].entry = e) \/ HasMetaAbout(n, e)

\* handle_fetch_entry and the reducer that sends its answer. The network asks for
\* addresses this node has sent or listed: they are those listed now, save those
\* a crash after a failed save has taken back. The content is served without a
\* look at the type of the entry, the metadata only from public entries.
FetchEntry(e) ==
  /\ saveFailed \/ Listed(e)
  /\ published' = published
       \cup {[what |-> "content", at |-> n, header |-> chain[n]] :
               n \in {m \in DOMAIN chain : chain[m].entry = e}}
       \cup {[what |-> "meta", at |-> n, header |-> chain[n]] :
               n \in {m \in DOMAIN chain : HasMetaAbout(m, e)}}
  /\ UNCHANGED <<caller, threads, channel, nucleus, responses, chain, crashes>>
  /\ Persist

-----------------------------------------------------------------------------
(* A crash, and the start of a new process from the saved state.           *)

CrashAndRestart ==
  /\ crashes < MaxCrashes
  /\ crashes' = crashes + 1
  /\ caller' = [c \in Calls |->
                  IF caller[c] \in {"waiting", "spawned"} THEN "lost" ELSE caller[c]]
  /\ thread' = [c \in Calls |-> "none"]
  /\ awaits' = [c \in Calls |-> {}]
  /\ channel' = << >>
  /\ running' = {}
  /\ queued' = << >>
  /\ results' = {}
  /\ commits' = {}
  /\ publishes' = {}
  /\ chain' = saved
  /\ UNCHANGED <<disk, published>>

-----------------------------------------------------------------------------

Init ==
  /\ caller = [c \in Calls |-> "idle"]
  /\ thread = [c \in Calls |-> "none"]
  /\ awaits = [c \in Calls |-> {}]
  /\ channel = << >>
  /\ running = {}
  /\ queued = << >>
  /\ results = {}
  /\ commits = {}
  /\ publishes = {}
  /\ chain = << >>
  /\ saved = << >>
  /\ published = {}
  /\ saveFailed = FALSE
  /\ crashes = 0

Loop ==
  \/ ReduceQueueZomeFunctionCall
  \/ ReduceReturn
  \/ ReduceClearZomeFunctionCall
  \/ ReduceCommit
  \/ ReducePublish
  \/ ReducePublishHeaderEntry
  \/ ReduceClearActionResponse

Poll(c) == SpawnZomeFunction(c) \/ TakeCallResult(c)

Step(c) ==
  \/ RunZomeFunction(c)
  \/ BuildValidationPackage(c)
  \/ ValidateEntry(c)
  \/ \E k \in {"commit", "publish", "header"} : TakeResponse(c, k)

Next ==
  \/ \E c \in Calls : CallZomeFunction(c) \/ Poll(c) \/ Step(c)
  \/ \E c, d \in Calls : CallInner(c, d)
  \/ Loop
  \/ ReducePrune
  \/ \E e \in Entries : FetchEntry(e)
  \/ CrashAndRestart

\* The loop takes the next action while there is one, block_on polls a future
\* again and again, and the threads of zome functions are scheduled. A call's
\* future has nothing to do while its thread has.
Fairness ==
  /\ WF_vars(Loop)
  /\ \A c \in Calls : WF_vars(Poll(c) \/ Step(c))

Spec == Init /\ [][Next]_vars
FairSpec == Spec /\ Fairness

-----------------------------------------------------------------------------
(* Properties.                                                             *)

ActionRecord == [kind : Kind, call : Calls, of : {""} \cup Kind \cup Outcome]

\* The variables have the types of the code's fields, and a call is either
\* running or queued and neither of them twice.
TypeOK ==
  /\ caller \in [Calls -> Caller]
  /\ thread \in [Calls -> Thread]
  /\ awaits \in [Calls -> SUBSET Calls]
  /\ channel \in Seq(ActionRecord)
  /\ running \subseteq Calls
  /\ queued \in Seq(Calls)
  /\ IsInjective(queued)
  /\ ToSet(queued) \cap running = {}
  /\ results \cup commits \cup publishes \subseteq ActionRecord
  /\ {chain, saved} \subseteq Seq(Header)
  /\ published \subseteq [what : {"content", "meta", "header"}, at : Nat, header : Header]
  /\ saveFailed \in BOOLEAN
  /\ crashes \in 0..MaxCrashes

\* The pool is never larger than MAX_ZOME_CALLS, and no call is queued while it
\* is smaller: a place that is freed is given to the first call in the queue.
PoolIsUsed ==
  /\ Cardinality(running) =< MaxZomeCalls
  /\ queued # << >> => Cardinality(running) = MaxZomeCalls

\* A call is executed once: the chain has at most one header of it, also when
\* its future is polled again and again and the process restarts.
CommitsOnce ==
  \A n, m \in DOMAIN chain : chain[n].call = chain[m].call => n = m

\* What other nodes have been sent survives a crash: as long as no save has
\* failed, a published aspect carries a header that is in the saved chain at its
\* place, so that a restarted node does not fork its chain.
PublishedIsSaved ==
  ~saveFailed =>
    \A p \in published : p.at \in DOMAIN saved /\ saved[p.at] = p.header

\* An author whose caller was told of success has its entry in the chain, as long
\* as no save has failed, its header published, and all its aspects unless the
\* entry is private.
SuccessIsPublished ==
  \A c \in Authors : caller[c] = "ok" =>
    LET sent == {p.what : p \in {q \in published : q.header.entry = EntryOf[c]}}
    IN  /\ saveFailed \/ OnChain(EntryOf[c])
        /\ "header" \in sent
        /\ EntryOf[c] \notin Private => "content" \in sent
        /\ EntryOf[c] \in HasMeta \ Private => "meta" \in sent

\* The content of a private entry is not published, and no metadata that a private
\* entry carries is ever sent. The content still leaves the node when the network
\* fetches its address, and it learns that address only from a public entry about
\* it, a removal or a link: as long as no save has failed, content of a private
\* entry is sent only while the chain has such an entry.
PrivateStaysHome ==
  \A p \in published : p.header.entry \in Private =>
    /\ p.what # "meta"
    /\ p.what = "content" =>
         saveFailed \/ \E n \in DOMAIN chain : HasMetaAbout(n, p.header.entry)

\* The author waits for the response to a commit that is neither there nor to
\* come.
Stranded(c) ==
  /\ thread[c] = "commit"
  /\ Action("commit", c) \notin ToSet(channel)
  /\ \A r \in commits : r.call # c

\* All places of the pool are taken by functions that wait for an inner call, each
\* of which waits in turn or is still queued: none of them ever gets a place.
PoolLocked ==
  /\ Cardinality(running) = MaxZomeCalls
  /\ \A c \in running :
       awaits[c] # {} /\ awaits[c] \subseteq running \cup ToSet(queued)

\* Every call ends, by its result or with the process. Two things alone can hold
\* up the pool: the response of a commit that has been cleared away under its
\* author, and functions that hold every place and wait for inner calls. A call
\* is made once, so that all have ended again and again only if each one ends.
CallsEnd ==
  []<>(\/ \A c \in Calls : caller[c] \notin {"waiting", "spawned"}
       \/ \E d \in Authors : Stranded(d)
       \/ PoolLocked)

\* A commit's response stays until its author has taken it: it is kept "to
\* provide a state history that observers poll and retrieve" (agent/state.rs).
ResponsesAreKept == \A c \in Authors : ~Stranded(c)
==============================================================================
