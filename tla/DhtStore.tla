------------------------------- MODULE DhtStore -------------------------------
(***************************************************************************)
(* What the nodes of a DHT know about entries, and how it spreads. A node  *)
(* commits entries to its chain; entry aspects (content, link, removal of  *)
(* links, update, deletion) are held by the nodes whose arc they are in;   *)
(* a node that is asked for an entry puts its aspects together again from  *)
(* what it has: its own chain, the content store (CAS) and the             *)
(* entity-attribute-value store (EAV). CAS and EAV are written in place    *)
(* and on disk, one write at a time; the holding map, which says what is   *)
(* held, is part of the state and is saved after the reducer is done.      *)
(*                                                                         *)
(* Both stores only grow. A query of the EAV with LatestByAttribute gives  *)
(* the latest row of every value, so a set of rows is all there is to it.  *)
(* That an aspect is sent again as long as it is missing is the promise of *)
(* the network's gossip and an assumption here. The entries are those that *)
(* applications commit; the entries that stand for chain headers are part  *)
(* of Sim2hGossip. Links are of types that the DNA declares for the types  *)
(* of their base and target (validate_link_entry refuses others at their   *)
(* author already), and an update keeps the type of its entry.             *)
(***************************************************************************)
EXTENDS Naturals, FiniteSets

CONSTANTS
  Nodes,
  Entries,      \* addresses of entries
  Headers,      \* addresses of chain headers
  KindOf,       \* entry -> app, linkAdd, linkRemove or deletion
  BaseOf,       \* entry -> the base of a link or of its removal
  TargetOf,     \* entry -> the target of a link or of its removal
  RemovedBy,    \* entry -> the links that a linkRemove removes
  EntryOf,      \* header -> its entry
  AuthorOf,     \* header -> its author
  Replaced,     \* header -> link_update_delete: no entry or one
  InArc,        \* <<node, entry>>: the node is to hold the entry's aspects
  MayCrash,     \* bound: the nodes that may crash, once each
  MayLeave      \* bound: the nodes that may go off-line, for good

Kinds == {"app", "linkAdd", "linkRemove", "deletion"}

ASSUME EntryAssumption ==
  /\ KindOf \in [Entries -> Kinds]
  /\ BaseOf \in [Entries -> Entries]
  /\ TargetOf \in [Entries -> Entries]
  /\ RemovedBy \in [Entries -> SUBSET Entries]
  /\ \A e \in Entries : RemovedBy[e] # {} => KindOf[e] = "linkRemove"

ASSUME HeaderAssumption ==
  /\ EntryOf \in [Headers -> Entries]
  /\ AuthorOf \in [Headers -> Nodes]
  /\ Replaced \in [Headers -> SUBSET Entries]
  /\ \A h \in Headers : KindOf[EntryOf[h]] = "deletion" => Replaced[h] # {}

ASSUME BoundAssumption ==
  /\ InArc \subseteq Nodes \X Entries
  /\ MayCrash \cup MayLeave \subseteq Nodes

VARIABLES
  online,   \* the nodes on the network
  chain,    \* of each node: the headers of its source chain
  store,    \* of each node: what its CAS and EAV hold
  held,     \* of each node: DhtStore::holding_map
  owed,     \* of each node: content that a link workflow has still to hold
  torn,     \* history: aspects a node had written of when it crashed
  crashed   \* the nodes that have crashed

vars == <<online, chain, store, held, owed, torn, crashed>>

-----------------------------------------------------------------------------
(* Aspects, and what holding one writes.                                   *)

Make(k, h, ls) == [kind |-> k, header |-> h, removes |-> ls]

Content(h) == Make("content", h, {})

\* entry_to_meta_aspect
Meta(h) ==
  LET e == EntryOf[h]
  IN  CASE KindOf[e] = "app" -> IF Replaced[h] = {} THEN {} ELSE {Make("update", h, {})}
        [] KindOf[e] = "linkRemove" -> {Make("linkRemove", h, RemovedBy[e])}
        [] OTHER -> {Make(KindOf[e], h, {})}

\* What create_authoring_map lists for a header of a public entry.
Authored(h) == {Content(h)} \cup Meta(h)

\* The aspects there can be: those of the headers, and removals of one link.
Aspects ==
  (UNION {Authored(h) : h \in Headers})
  \cup (UNION {{Make("linkRemove", h, {l}) : l \in RemovedBy[EntryOf[h]]} : h \in Headers})

\* EntryAspect::entry_address, the entry whose holders hold the aspect. An update
\* made up with the header of something else has none.
EntryAddress(a) ==
  CASE a.kind = "content" -> {EntryOf[a.header]}
    [] a.kind \in {"linkAdd", "linkRemove"} -> {BaseOf[EntryOf[a.header]]}
    [] OTHER -> Replaced[a.header]

\* Rows of the two stores: the table, the entity and the value.
Fact ==
  {"content", "status", "header", "link", "removed", "crud"}
    \X (Entries \cup Headers) \X (Entries \cup Headers \cup {"", "live", "modified", "deleted"})

HasContent(e) == <<"content", e, "">>

StoreEntry(e) == {HasContent(e), <<"status", e, "live">>}

UpdateEntry(o, e) == {<<"status", o, "modified">>, <<"crud", o, e>>}

RemoveEntry(o) == {<<"status", o, "deleted">>}

\* reduce_add_remove_link_inner: the rows of a link, or those that remove links.
AddRemoveLink(a) ==
  LET e == EntryOf[a.header]
  IN  IF a.kind = "linkAdd" THEN {<<"link", BaseOf[e], e>>}
      ELSE {<<"removed", e, l>> : l \in a.removes}

\* What reduce_hold_aspect writes.
Writes(a) ==
  LET e == EntryOf[a.header]
  IN  CASE a.kind = "content" -> StoreEntry(e) \cup {<<"header", e, a.header>>}
        [] a.kind \in {"linkAdd", "linkRemove"} -> AddRemoveLink(a)
        [] a.kind = "update" -> UNION {UpdateEntry(o, e) : o \in Replaced[a.header]}
        [] a.kind = "deletion" -> UNION {RemoveEntry(o) : o \in Replaced[a.header]}

\* The sets of rows that a crash may leave of it: the rows of an entry and of an
\* update are written in a fixed order.
PartWrites(a) ==
  LET e == EntryOf[a.header]
  IN  {W \in SUBSET Writes(a) :
         /\ <<"status", e, "live">> \in W => HasContent(e) \in W
         /\ <<"header", e, a.header>> \in W => <<"status", e, "live">> \in W
         /\ \A o \in Replaced[a.header] :
              <<"crud", o, e>> \in W => <<"status", o, "modified">> \in W}

-----------------------------------------------------------------------------
(* Reading.                                                                *)

StatusRows(s, e) == {v \in {"live", "modified", "deleted"} : <<"status", e, v>> \in s}

\* Mutant of Status: the row that was written last would win; for an entry that
\* is held again with another header that is live.
StatusLive(s, e) ==
  IF "live" \in StatusRows(s, e) THEN "live"
  ELSE IF "deleted" \in StatusRows(s, e) THEN "deleted" ELSE "modified"

\* get_entry_crud_meta_from_dht: "by life-cycle order: Deleted, Modified, Live"
Status(s, e) ==
  IF "deleted" \in StatusRows(s, e) THEN "deleted"
  ELSE IF "modified" \in StatusRows(s, e) THEN "modified" ELSE "live"

\* get_entry_with_meta finds the entry: it has content and a status.
Readable(n, e) == HasContent(e) \in store[n] /\ StatusRows(store[n], e) # {}

\* get_entry_with_meta_workflow: the local entry, or else another node's.
View(n, e) ==
  IF Readable(n, e) THEN {Status(store[n], e)}
  ELSE {Status(store[m], e) : m \in {o \in online : Readable(o, e)}}

\* get_entry_result_workflow with the default options finds an entry unless it,
\* or the entry it was updated to, was deleted. Histories of one update.
Found(n, e) ==
  /\ \E v \in View(n, e) : v # "deleted"
  /\ \A f \in Entries : <<"crud", e, f>> \in store[n] => "deleted" \notin View(n, f)

\* get_links with the default crud filter: the links on b without a tombstone.
LiveLinks(s, b) ==
  {l \in Entries : <<"link", b, l>> \in s /\ ~ \E r \in Entries : <<"removed", r, l>> \in s}

\* get_headers of the state: those of the chain and those of the DHT.
HeadersOf(n, e) ==
  {h \in Headers : EntryOf[h] = e /\ (h \in chain[n] \/ <<"header", e, h>> \in store[n])}

\* What headers[0] may be: the first is one of the chain if there is one there. The
\* order among those of the chain, and among the rows of the DHT, is that of their
\* time and is left open; with one header per entry there is no choice.
FirstHeaders(n, e) ==
  LET own == HeadersOf(n, e) \cap chain[n]
  IN  IF own = {} THEN HeadersOf(n, e) ELSE own

-----------------------------------------------------------------------------
(* Serving: fetch_aspects_for_entry.                                       *)

\* get_content_aspects
ContentAspects(n, e) ==
  IF HasContent(e) \in store[n] THEN {Content(h) : h \in HeadersOf(n, e)} ELSE {}

\* get_meta_aspects_from_chain
ChainAspects(n, e) ==
  UNION {{a \in Meta(h) : e \in EntryAddress(a)} : h \in chain[n]}

\* The rows of e whose value get_meta_aspects_from_dht_eav looks up: links,
\* removed links and the entries e was updated to.
LinkRows(n, e) == {l \in Entries : <<"link", e, l>> \in store[n]}
RemovalRows(n, e) ==
  UNION {{r} \X {l \in RemovedBy[r] : <<"removed", r, l>> \in store[n]} :
           r \in {r \in Entries : BaseOf[r] = e}}
CrudRows(n, e) == {f \in Entries : <<"crud", e, f>> \in store[n]}

RowValues(n, e) ==
  LinkRows(n, e) \cup CrudRows(n, e) \cup {p[2] : p \in RemovalRows(n, e)}

\* The lookup of a value ends at headers[0] of an empty list: a panic.
Headless(n, e) == \E f \in RowValues(n, e) : Readable(n, f) /\ HeadersOf(n, f) = {}

\* One value that cannot be looked up makes it an error for all rows.
Resolves(n, e) ==
  /\ \A f \in RowValues(n, e) : Readable(n, f)
  /\ \A p \in RemovalRows(n, e) : Cardinality(ContentAspects(n, p[1])) = 1

\* Mutant of EavAspects: an update is put together with the header of the entry
\* that was updated.
EavAspectsOld(n, e) ==
  IF ~Resolves(n, e) THEN {}
  ELSE UNION {{Make("update", h, {}) : h \in FirstHeaders(n, e)} : f \in CrudRows(n, e)}

\* Mutant of EavAspects: a holder serves content only.
EavAspectsNone(n, e) == {}

\* A removal is put together for one link at a time.
EavAspects(n, e) ==
  IF ~Resolves(n, e) THEN {}
  ELSE (UNION {{Make("linkAdd", h, {}) : h \in FirstHeaders(n, l)} : l \in LinkRows(n, e)})
       \cup (UNION {{Make("linkRemove", h, {p[2]}) : h \in HeadersOf(n, p[1])} :
                     p \in RemovalRows(n, e)})
       \cup (UNION {{Make("update", h, {}) : h \in FirstHeaders(n, f)} : f \in CrudRows(n, e)})

Served(n, e) ==
  IF Headless(n, e) THEN {}
  ELSE ContentAspects(n, e) \cup ChainAspects(n, e) \cup EavAspects(n, e)

\* a \in Served(n, e), without the parts of it that a is not of.
Serves(n, a, e) ==
  /\ IF a.kind = "content" THEN a \in ContentAspects(n, e)
     ELSE a \in ChainAspects(n, e) \/ a \in EavAspects(n, e)
  /\ ~Headless(n, e)

-----------------------------------------------------------------------------
(* Committing and holding.                                                 *)

\* get_link_entries: both ends of the link are found, here or at another node.
EndsFound(n, e) == Found(n, BaseOf[e]) /\ Found(n, TargetOf[e])

\* validate_link_entry: both ends are found, and all links of a removal are there.
ValidLink(n, a) ==
  LET e == EntryOf[a.header]
  IN  /\ a.kind = "linkRemove" => a.removes = RemovedBy[e]
      /\ \A l \in RemovedBy[e] : Readable(n, l)
      /\ EndsFound(n, e)

\* validate_remove_entry: what is deleted is in the own store.
ValidDeletion(n, a) == \A o \in Replaced[a.header] : HasContent(o) \in store[n]

\* An update needs the entry that it replaces, here or at another node.
ValidUpdate(n, a) == \E o \in Replaced[a.header] : View(n, o) # {}

\* validate_entry for an entry that is held: what the type of its entry needs. The
\* verdict of the application's own callback is taken to be yes.
Valid(n, a) ==
  CASE KindOf[EntryOf[a.header]] = "app" -> a.kind = "update" => ValidUpdate(n, a)
    [] KindOf[EntryOf[a.header]] = "deletion" -> ValidDeletion(n, a)
    [] OTHER -> ValidLink(n, a)

\* reduce_hold_aspect does not end in an error: the base of a link is there, and
\* what is deleted is there and has no status but live.
Reducible(n, a) ==
  /\ a.kind \in {"linkAdd", "linkRemove"} => HasContent(BaseOf[EntryOf[a.header]]) \in store[n]
  /\ a.kind = "deletion" =>
       \A o \in Replaced[a.header] :
         HasContent(o) \in store[n] /\ StatusRows(store[n], o) \subseteq {"live"}

\* Mutant of Commit: what the entry says of others is reduced at its author at once.
CommitReduces(n, h) ==
  LET e == EntryOf[h]
  IN  /\ n \in online
      /\ AuthorOf[h] = n
      /\ h \notin chain[n]
      /\ KindOf[e] \in {"linkAdd", "linkRemove"} => EndsFound(n, e)
      /\ \A l \in RemovedBy[e] : View(n, l) # {}
      /\ \A o \in Replaced[h] : Found(n, o)
      /\ KindOf[e] = "deletion" => \A o \in Replaced[h] : HasContent(o) \in store[n]
      /\ chain' = [chain EXCEPT ![n] = @ \cup {h}]
      /\ store' = [store EXCEPT ![n] = @ \cup StoreEntry(e) \cup UNION {Writes(a) : a \in Meta(h)}]
      /\ UNCHANGED <<online, held, owed, torn, crashed>>

\* author_entry and reduce_commit_entry: the entry is put in the author's own DHT
\* store as live, and is not marked as held. Links and updates are made of
\* entries that can be found.
Commit(n, h) ==
  LET e == EntryOf[h]
  IN  /\ n \in online
      /\ AuthorOf[h] = n
      /\ h \notin chain[n]
      /\ KindOf[e] \in {"linkAdd", "linkRemove"} => EndsFound(n, e)
      /\ \A l \in RemovedBy[e] : View(n, l) # {}
      /\ \A o \in Replaced[h] : Found(n, o)
      /\ KindOf[e] = "deletion" => \A o \in Replaced[h] : HasContent(o) \in store[n]
      /\ chain' = [chain EXCEPT ![n] = @ \cup {h}]
      /\ store' = [store EXCEPT ![n] = @ \cup StoreEntry(e)]
      /\ UNCHANGED <<online, held, owed, torn, crashed>>

\* The nodes of S serve the aspect, and it is for n to hold.
Offered(n, a, S) ==
  \E e \in EntryAddress(a) : <<n, e>> \in InArc /\ \E m \in S : Serves(m, a, e)

\* Mutant of Owes: the content is made with the address of the entry.
OwesByEntry(a) ==
  IF a.kind \in {"linkAdd", "linkRemove"} THEN {Make("content", EntryOf[a.header], {})} ELSE {}

\* Mutant of Owes: the workflow leaves the content to the holders of the link entry.
OwesNothing(a) == {}

\* hold_link_workflow and remove_link_workflow hold the content as well, after the
\* aspect.
Owes(a) == IF a.kind \in {"linkAdd", "linkRemove"} THEN {Content(a.header)} ELSE {}

\* Mutant of Mark: a failed reduction is marked as held, too.
MarkAlways(n, a) ==
  /\ store' = [store EXCEPT ![n] = IF Reducible(n, a) THEN @ \cup Writes(a) ELSE @]
  /\ held' = [held EXCEPT ![n] = @ \cup {a}]

\* reduce_hold_aspect
Mark(n, a) ==
  /\ Reducible(n, a)
  /\ store' = [store EXCEPT ![n] = @ \cup Writes(a)]
  /\ held' = [held EXCEPT ![n] = @ \cup {a}]

HoldAspect(n, a) ==
  /\ Mark(n, a)
  /\ Valid(n, a)
  /\ owed' = [owed EXCEPT ![n] = @ \cup Owes(a)]
  /\ UNCHANGED <<online, chain, torn, crashed>>

\* An aspect that a node on the network serves, or that is still in the queue of
\* pending validations after a crash.
Hold(n, a) ==
  /\ n \in online
  /\ a \notin held[n]
  /\ HoldAspect(n, a)
  /\ a \in torn[n] \/ Offered(n, a, online)

\* One that was received before its source went off-line.
HoldQueued(n, a) ==
  /\ n \in online
  /\ a \notin held[n]
  /\ Offered(n, a, Nodes \ online)
  /\ HoldAspect(n, a)

HoldOwed(n) ==
  /\ n \in online
  /\ \E a \in owed[n] :
       /\ Mark(n, a)
       /\ owed' = [owed EXCEPT ![n] = @ \ {a}]
  /\ UNCHANGED <<online, chain, torn, crashed>>

\* After a crash the workflow of a link runs again from its start.
Resume(n, a) ==
  /\ n \in online
  /\ a \in held[n]
  /\ ~ (Owes(a) \subseteq held[n] \cup owed[n])
  /\ Valid(n, a)
  /\ owed' = [owed EXCEPT ![n] = @ \cup Owes(a)]
  /\ UNCHANGED <<online, chain, store, held, torn, crashed>>

\* A crash of a node, which restarts at once: between two actions, or when part
\* of what an aspect writes has been written and the state is not saved. One that
\* loses nothing and leaves nothing half done is left out.
Crash(n) ==
  /\ n \in online \cap (MayCrash \ crashed)
  /\ crashed' = crashed \cup {n}
  /\ owed' = [owed EXCEPT ![n] = {}]
  /\ \/ owed[n] # {} /\ UNCHANGED <<store, torn>>
     \/ \E a \in Aspects :
          /\ a \in owed[n] \/ (a \notin held[n] /\ Offered(n, a, online) /\ Valid(n, a))
          /\ Reducible(n, a)
          /\ \E W \in PartWrites(a) :
               ~(W \subseteq store[n]) /\ store' = [store EXCEPT ![n] = @ \cup W]
          /\ torn' = [torn EXCEPT ![n] = @ \cup {a}]
  /\ UNCHANGED <<online, chain, held>>

\* handle_fetch_entry panics in the thread of the network connection, which ends:
\* the node is not heard of again before it is restarted.
FetchPanics(n) ==
  /\ n \in online
  /\ \E e \in Entries : Headless(n, e)
  /\ online' = online \ {n}
  /\ UNCHANGED <<chain, store, held, owed, torn, crashed>>

Leave(n) ==
  /\ n \in online \cap MayLeave
  /\ online' = online \ {n}
  /\ UNCHANGED <<chain, store, held, owed, torn, crashed>>

Init ==
  /\ online = Nodes
  /\ chain = [n \in Nodes |-> {}]
  /\ store = [n \in Nodes |-> {}]
  /\ held = [n \in Nodes |-> {}]
  /\ owed = [n \in Nodes |-> {}]
  /\ torn = [n \in Nodes |-> {}]
  /\ crashed = {}

Work(n) == HoldOwed(n) \/ \E a \in Aspects : Hold(n, a) \/ Resume(n, a)

Next ==
  \E n \in Nodes :
    \/ \E h \in Headers : Commit(n, h)
    \/ Work(n)
    \/ \E a \in Aspects : HoldQueued(n, a)
    \/ Crash(n)
    \/ FetchPanics(n)
    \/ Leave(n)

Spec == Init /\ [][Next]_vars

\* Gossip brings what is served, and the holding loop runs. Aspects are finitely
\* many and none is held twice, so it is enough that some node goes on working.
Fairness == WF_vars(\E n \in Nodes : Work(n))

FairSpec == Spec /\ Fairness

-----------------------------------------------------------------------------
(* Properties.                                                             *)

\* Chains, stores and the notes of what is held, owed or half written have their
\* types.
TypeOK ==
  /\ online \subseteq Nodes
  /\ chain \in [Nodes -> SUBSET Headers]
  /\ store \in [Nodes -> SUBSET Fact]
  /\ {held, owed, torn} \subseteq [Nodes -> SUBSET Aspects]
  /\ crashed \subseteq MayCrash

\* A node tells the network only of aspects whose every row it has stored, across
\* errors of the reducer and crashes in the middle of it.
HeldIsStored == \A n \in Nodes : \A a \in held[n] : Writes(a) \subseteq store[n]

HoldsContent(n, e) == \E h \in Headers : EntryOf[h] = e /\ Content(h) \in held[n]

\* Nodes that hold the same aspects give the same answers, in whatever order these
\* came: the same status for every entry they hold and the same links on it. A
\* node that has crashed in the middle of an aspect is excepted.
SameHoldingsSameAnswers ==
  \A n, m \in Nodes :
    held[n] = held[m] /\ torn[n] = {} /\ torn[m] = {} =>
      \A e \in Entries : HoldsContent(n, e) =>
        /\ Status(store[n], e) = Status(store[m], e)
        /\ LiveLinks(store[n], e) = LiveLinks(store[m], e)

\* What is deleted stays deleted and a link that is removed stays removed at a
\* node, although content and links go on being held again with other headers.
RemovalIsFinal ==
  [][\A n \in Nodes : \A a \in held[n] :
       /\ a.kind = "deletion" => \A o \in Replaced[a.header] : Status(store'[n], o) = "deleted"
       /\ a.kind = "linkRemove" =>
            \A l \in a.removes : \A b \in Entries : l \notin LiveLinks(store'[n], b)]_vars

\* get_links of a node does not fail over a link whose entry it does not have:
\* the entry is there or the workflow that brought the link will hold it. A node
\* that has crashed in between is excepted: it holds the entry only if the link is
\* still valid when the workflow runs again.
LinksResolve ==
  \A n \in Nodes, b \in Entries : \A l \in LiveLinks(store[n], b) :
    \/ Readable(n, l)
    \/ \E h \in Headers : EntryOf[h] = l /\ Content(h) \in owed[n]
    \/ n \in crashed

\* What a holder serves is what some author has published. Two cases are excepted:
\* the removal of several links is put together again one by one, and an update
\* is put together with the first header of an entry that may have several.
ServedIsAuthored ==
  \A n \in Nodes, e \in Entries : \A a \in Served(n, e) :
    \/ a \in Authored(a.header)
    \/ a.kind = "linkRemove" /\ \E l, k \in RemovedBy[EntryOf[a.header]] : l # k
    \/ a.kind = "update" /\ \E h \in Headers : h # a.header /\ EntryOf[h] = EntryOf[a.header]

\* Nothing on the network can bring the entry to the node.
Lost(n, f) ==
  /\ ~(Readable(n, f) /\ HeadersOf(n, f) # {})
  /\ <<n, f>> \notin InArc \/ \A m \in online : ContentAspects(m, f) = {}

\* The base of an aspect, or what it was updated to, has been deleted somewhere.
Deleted(e) ==
  \E n \in Nodes, f \in Entries :
    /\ f = e \/ \E m \in Nodes : <<"crud", e, f>> \in store[m]
    /\ "deleted" \in StatusRows(store[n], f)

IsLink(e) == KindOf[e] \in {"linkAdd", "linkRemove"}

\* What the node must have itself to hold an aspect with the header, besides e.
NeedsOf(h) ==
  CASE IsLink(EntryOf[h]) -> {BaseOf[EntryOf[h]]}
    [] KindOf[EntryOf[h]] = "deletion" -> Replaced[h]
    [] OTHER -> {}

\* What keeps an aspect of e from getting from n to m: one of them has left, the
\* entry or the base of the link is deleted or lost to m, the target of the link is
\* deleted or no node that m can ask has it, or n lacks one of the entries that the
\* rows of e point to, which keeps n from serving any of them.
Hindered(n, m, a, e) ==
  \/ ~({n, m} \subseteq online)
  \/ \E f \in {e} \cup NeedsOf(a.header) : Deleted(f) \/ Lost(m, f)
  \/ LET t == TargetOf[EntryOf[a.header]]
     IN  IsLink(EntryOf[a.header]) /\ (Deleted(t) \/ View(m, t) = {})
  \/ \E f \in RowValues(n, e) : Lost(n, f)

\* Only the author serves a deletion, the removal of several links, and what is
\* said with another than the first header of an entry that has several.
ServedByHolders(a) ==
  /\ a.kind # "deletion"
  /\ Cardinality(a.removes) =< 1
  /\ a.kind # "content" =>
       \A h \in Headers : EntryOf[h] = EntryOf[a.header] => h = a.header

\* What a node holds of an entry reaches, in the end, every other node that is to
\* hold it, also when its author has left, but for what ServedByHolders and Hindered
\* name. A link that a node has taken in spreads only as long as its target can be
\* found by the others.
Spreads ==
  <>[](\A n, m \in Nodes : \A a \in held[n] :
         ServedByHolders(a) =>
           \A e \in EntryAddress(a) :
             <<m, e>> \in InArc => a \in held[m] \/ Hindered(n, m, a, e))
==============================================================================
