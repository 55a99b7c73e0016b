--------------------------- MODULE DhtStore_proofs ---------------------------
(***************************************************************************)
(* Theorems about DhtStore, for any nodes, entries, headers and arcs. They *)
(* rest on two facts. The stores only grow: what an aspect writes when it  *)
(* is held is there for good, and what is answered from it is final. And   *)
(* every row has an origin: what is answered or served is due to an aspect *)
(* that is held, or to the node's own commit.                              *)
(***************************************************************************)
EXTENDS DhtStore, TLAPS

\* Every row in a store was written by an aspect that is held, by one that a crash
\* interrupted, or by the node's own commit.
RowsHaveOrigin ==
  \A n \in Nodes : \A r \in store[n] :
    \/ \E a \in held[n] \cup torn[n] : r \in Writes(a)
    \/ \E h \in chain[n] : r \in StoreEntry(EntryOf[h])

\* Aspects are left half written by crashes only.
TornByCrash == \A n \in Nodes : torn[n] # {} => n \in crashed

\* The entry of a link that is held is there, or is owed by the workflow.
LinkEntryFollows ==
  \A n \in Nodes \ crashed : \A a \in held[n] :
    a.kind = "linkAdd" => Content(a.header) \in owed[n] \/ Readable(n, EntryOf[a.header])

\* Content is all that a workflow owes.
OwedIsContent == \A n \in Nodes : \A a \in owed[n] : a.kind = "content"

IInv ==
  /\ TypeOK
  /\ HeldIsStored
  /\ RowsHaveOrigin
  /\ TornByCrash
  /\ OwedIsContent
  /\ LinkEntryFollows

\* What is in a store stays there.
Grown == \A n \in Nodes : store[n] \subseteq store'[n]

-----------------------------------------------------------------------------
(* Aspects.                                                                *)

\* What an entry's header says of other entries.
LEMMA MetaCases ==
  ASSUME NEW h \in Headers
  PROVE  /\ KindOf[EntryOf[h]] = "app" =>
              Meta(h) = IF Replaced[h] = {} THEN {} ELSE {Make("update", h, {})}
         /\ KindOf[EntryOf[h]] = "linkAdd" => Meta(h) = {Make("linkAdd", h, {})}
         /\ KindOf[EntryOf[h]] = "linkRemove" =>
              Meta(h) = {Make("linkRemove", h, RemovedBy[EntryOf[h]])}
         /\ KindOf[EntryOf[h]] = "deletion" => Meta(h) = {Make("deletion", h, {})}
<1>1. CASE KindOf[EntryOf[h]] = "app"
  <2>1. Meta(h) = IF Replaced[h] = {} THEN {} ELSE {Make("update", h, {})}
    BY <1>1, Zenon DEF Meta
  <2> QED
    BY <1>1, <2>1
<1>2. CASE KindOf[EntryOf[h]] = "linkRemove"
  <2>1. Meta(h) = {Make("linkRemove", h, RemovedBy[EntryOf[h]])}
    BY <1>2, Zenon DEF Meta
  <2> QED
    BY <1>2, <2>1
<1>3. CASE KindOf[EntryOf[h]] \notin {"app", "linkRemove"}
  <2>1. Meta(h) = {Make(KindOf[EntryOf[h]], h, {})}
    BY <1>3, Zenon DEF Meta
  <2> QED
    BY <1>3, <2>1
<1> QED
  BY <1>1, <1>2, <1>3

\* An aspect carries a header there is, and is of a kind that fits its entry.
LEMMA AspectFacts ==
  ASSUME NEW a \in Aspects
  PROVE  /\ a.header \in Headers
         /\ EntryOf[a.header] \in Entries
         /\ a.kind \in {"content", "linkAdd", "linkRemove", "update", "deletion"}
         /\ a.kind = "linkAdd" => KindOf[EntryOf[a.header]] = "linkAdd"
         /\ a.kind = "linkRemove" => /\ KindOf[EntryOf[a.header]] = "linkRemove"
                                     /\ a.removes \subseteq RemovedBy[EntryOf[a.header]]
         /\ a.kind = "update" => /\ KindOf[EntryOf[a.header]] = "app"
                                 /\ Replaced[a.header] # {}
<1>1. CASE \E h \in Headers : a \in Authored(h)
  <2>1. PICK h \in Headers : a \in Authored(h)
    BY <1>1
  <2>2. CASE a = Content(h)
    BY <2>2, HeaderAssumption DEF Content, Make
  <2>3. CASE a \in Meta(h)
    <3>1. KindOf[EntryOf[h]] \in Kinds /\ EntryOf[h] \in Entries
      BY HeaderAssumption, EntryAssumption
    <3> QED
      BY <2>3, <3>1, MetaCases DEF Make, Kinds
  <2> QED
    BY <2>1, <2>2, <2>3 DEF Authored
<1>2. CASE \E h \in Headers : \E l \in RemovedBy[EntryOf[h]] : a = Make("linkRemove", h, {l})
  BY <1>2, HeaderAssumption, EntryAssumption DEF Make
<1> QED
  BY <1>1, <1>2 DEF Aspects

\* The content that a link's workflow holds after the link is an aspect.
LEMMA OwesAspects ==
  ASSUME NEW a \in Aspects
  PROVE  Owes(a) \subseteq Aspects
<1>1. a.header \in Headers
  BY AspectFacts
<1>2. Content(a.header) \in Authored(a.header)
  BY DEF Authored
<1>3. Content(a.header) \in Aspects
  BY <1>1, <1>2 DEF Aspects
<1> QED
  BY <1>3 DEF Owes

\* The rows that an aspect writes, by its kind.
LEMMA WritesCases ==
  ASSUME NEW a \in Aspects
  PROVE  /\ a.kind = "content" =>
              Writes(a) = StoreEntry(EntryOf[a.header]) \cup {<<"header", EntryOf[a.header], a.header>>}
         /\ a.kind = "linkAdd" =>
              Writes(a) = {<<"link", BaseOf[EntryOf[a.header]], EntryOf[a.header]>>}
         /\ a.kind = "linkRemove" => Writes(a) = {<<"removed", EntryOf[a.header], l>> : l \in a.removes}
         /\ a.kind = "update" =>
              Writes(a) = UNION {UpdateEntry(o, EntryOf[a.header]) : o \in Replaced[a.header]}
         /\ a.kind = "deletion" => Writes(a) = UNION {RemoveEntry(o) : o \in Replaced[a.header]}
<1>1. CASE a.kind = "content"
  <2>1. Writes(a) = StoreEntry(EntryOf[a.header]) \cup {<<"header", EntryOf[a.header], a.header>>}
    BY <1>1, Zenon DEF Writes
  <2> QED
    BY <1>1, <2>1
<1>2. CASE a.kind \in {"linkAdd", "linkRemove"}
  <2>1. Writes(a) = AddRemoveLink(a)
    BY <1>2, Zenon DEF Writes
  <2> QED
    BY <1>2, <2>1 DEF AddRemoveLink
<1>3. CASE a.kind = "update"
  <2>1. Writes(a) = UNION {UpdateEntry(o, EntryOf[a.header]) : o \in Replaced[a.header]}
    BY <1>3, Zenon DEF Writes
  <2> QED
    BY <1>3, <2>1
<1>4. CASE a.kind = "deletion"
  <2>1. Writes(a) = UNION {RemoveEntry(o) : o \in Replaced[a.header]}
    BY <1>4, Zenon DEF Writes
  <2> QED
    BY <1>4, <2>1
<1> QED
  BY <1>1, <1>2, <1>3, <1>4, AspectFacts

\* The rows of an entry are rows of the two stores.
LEMMA StoreEntryRows ==
  ASSUME NEW e \in Entries
  PROVE  StoreEntry(e) \subseteq Fact
<1>1. <<"content", e, "">> \in Fact
  BY DEF Fact
<1>2. <<"status", e, "live">> \in Fact
  BY DEF Fact
<1> QED
  BY <1>1, <1>2 DEF StoreEntry, HasContent

\* So are those of an aspect.
LEMMA WritesRows ==
  ASSUME NEW a \in Aspects
  PROVE  Writes(a) \subseteq Fact
<1> DEFINE e == EntryOf[a.header]
<1>1. a.header \in Headers /\ e \in Entries /\ BaseOf[e] \in Entries
  BY AspectFacts, EntryAssumption
<1>2. CASE a.kind = "content"
  <2>1. <<"header", e, a.header>> \in Fact
    BY <1>1 DEF Fact
  <2> QED
    BY <1>1, <1>2, <2>1, StoreEntryRows, WritesCases
<1>3. CASE a.kind = "linkAdd"
  <2>1. <<"link", BaseOf[e], e>> \in Fact
    BY <1>1 DEF Fact
  <2> QED
    BY <1>3, <2>1, WritesCases
<1>4. CASE a.kind = "linkRemove"
  <2>1. a.removes \subseteq Entries
    BY <1>1, <1>4, AspectFacts, EntryAssumption
  <2>2. \A l \in a.removes : <<"removed", e, l>> \in Fact
    BY <1>1, <2>1 DEF Fact
  <2> QED
    BY <1>4, <2>2, WritesCases
<1>5. Replaced[a.header] \subseteq Entries
  BY <1>1, HeaderAssumption
<1>6. CASE a.kind = "update"
  <2>1. ASSUME NEW o \in Entries
        PROVE  UpdateEntry(o, e) \subseteq Fact
    <3>1. <<"status", o, "modified">> \in Fact
      BY DEF Fact
    <3>2. <<"crud", o, e>> \in Fact
      BY <1>1 DEF Fact
    <3> QED
      BY <3>1, <3>2 DEF UpdateEntry
  <2> QED
    BY <1>5, <1>6, <2>1, WritesCases
<1>7. CASE a.kind = "deletion"
  <2>1. ASSUME NEW o \in Entries
        PROVE  RemoveEntry(o) \subseteq Fact
    <3>1. <<"status", o, "deleted">> \in Fact
      BY DEF Fact
    <3> QED
      BY <3>1 DEF RemoveEntry
  <2> QED
    BY <1>5, <1>7, <2>1, WritesCases
<1> QED
  BY <1>2, <1>3, <1>4, <1>6, <1>7, AspectFacts

\* Which aspects write a link, a removal and an update.
LEMMA RowWriters ==
  ASSUME NEW a \in Aspects, NEW x, NEW y
  PROVE  /\ <<"link", x, y>> \in Writes(a) =>
              a.kind = "linkAdd" /\ x = BaseOf[EntryOf[a.header]] /\ y = EntryOf[a.header]
         /\ <<"removed", x, y>> \in Writes(a) => a.kind = "linkRemove" /\ x = EntryOf[a.header]
         /\ <<"crud", x, y>> \in Writes(a) => a.kind = "update" /\ y = EntryOf[a.header]
<1>1. CASE a.kind = "content"
  <2>1. \A r \in Writes(a) : \/ r = <<"content", EntryOf[a.header], "">>
                            \/ r = <<"status", EntryOf[a.header], "live">>
                            \/ r = <<"header", EntryOf[a.header], a.header>>
    BY <1>1, WritesCases DEF StoreEntry, HasContent
  <2> QED
    BY <1>1, <2>1
<1>2. CASE a.kind = "linkAdd"
  <2>1. \A r \in Writes(a) : r = <<"link", BaseOf[EntryOf[a.header]], EntryOf[a.header]>>
    BY <1>2, WritesCases
  <2> QED
    BY <1>2, <2>1
<1>3. CASE a.kind = "linkRemove"
  <2>1. \A r \in Writes(a) : \E l \in a.removes : r = <<"removed", EntryOf[a.header], l>>
    BY <1>3, WritesCases
  <2> QED
    BY <1>3, <2>1
<1>4. CASE a.kind = "update"
  <2>1. \A r \in Writes(a) : \E o \in Replaced[a.header] :
          r = <<"status", o, "modified">> \/ r = <<"crud", o, EntryOf[a.header]>>
    BY <1>4, WritesCases DEF UpdateEntry
  <2> QED
    BY <1>4, <2>1
<1>5. CASE a.kind = "deletion"
  <2>1. \A r \in Writes(a) : \E o \in Replaced[a.header] : r = <<"status", o, "deleted">>
    BY <1>5, WritesCases DEF RemoveEntry
  <2> QED
    BY <1>5, <2>1
<1> QED
  BY <1>1, <1>2, <1>3, <1>4, <1>5, AspectFacts

-----------------------------------------------------------------------------
(* The inductive invariant.                                                *)

\* In a store that has grown, what could be read still can.
LEMMA StillReadable ==
  ASSUME Grown, NEW n \in Nodes, NEW e, Readable(n, e)
  PROVE  Readable(n, e)'
BY DEF Grown, Readable, StatusRows

\* A reduction that marks an aspect as held writes all its rows and removes none.
LEMMA MarkKeeps ==
  ASSUME IInv, NEW n \in Nodes, NEW a \in Aspects, Mark(n, a)
  PROVE  /\ store' \in [Nodes -> SUBSET Fact]
         /\ held' \in [Nodes -> SUBSET Aspects]
         /\ HeldIsStored'
         /\ Grown
<1>1. /\ store' = [store EXCEPT ![n] = @ \cup Writes(a)]
      /\ held' = [held EXCEPT ![n] = @ \cup {a}]
  BY DEF Mark
<1>2. store' \in [Nodes -> SUBSET Fact]
  BY <1>1, WritesRows DEF IInv, TypeOK
<1>3. held' \in [Nodes -> SUBSET Aspects]
  BY <1>1 DEF IInv, TypeOK
<1>4. Grown
  BY <1>1 DEF IInv, TypeOK, Grown
<1>5. ASSUME NEW m \in Nodes, NEW b \in held'[m]
      PROVE  Writes(b) \subseteq store'[m]
  <2>1. CASE b \in held[m]
    BY <1>4, <2>1 DEF IInv, HeldIsStored, Grown
  <2>2. CASE m = n /\ b = a
    BY <1>1, <2>2 DEF IInv, TypeOK
  <2> QED
    BY <1>1, <2>1, <2>2 DEF IInv, TypeOK
<1> QED
  BY <1>2, <1>3, <1>4, <1>5 DEF HeldIsStored

\* The rows that it adds are those of the aspect.
LEMMA MarkOrigins ==
  ASSUME IInv, NEW n \in Nodes, NEW a \in Aspects, Mark(n, a), UNCHANGED <<chain, torn>>
  PROVE  RowsHaveOrigin'
<1>1. /\ store' = [store EXCEPT ![n] = @ \cup Writes(a)]
      /\ held' = [held EXCEPT ![n] = @ \cup {a}]
  BY DEF Mark
<1>2. \A m \in Nodes : held[m] \subseteq held'[m]
  BY <1>1 DEF IInv, TypeOK
<1> SUFFICES ASSUME NEW m \in Nodes, NEW r \in store'[m]
             PROVE  \/ \E b \in held'[m] \cup torn'[m] : r \in Writes(b)
                    \/ \E h \in chain'[m] : r \in StoreEntry(EntryOf[h])
  BY DEF RowsHaveOrigin
<1>3. CASE r \in store[m]
  BY <1>2, <1>3 DEF IInv, RowsHaveOrigin
<1>4. CASE m = n /\ r \in Writes(a)
  <2>1. a \in held'[n]
    BY <1>1 DEF IInv, TypeOK
  <2> QED
    BY <1>4, <2>1
<1> QED
  BY <1>1, <1>3, <1>4 DEF IInv, TypeOK

\* If the holding maps stay as they are, growing stores keep what is held.
LEMMA GrowthKeeps ==
  ASSUME IInv, Grown, UNCHANGED held
  PROVE  HeldIsStored'
BY DEF IInv, HeldIsStored, Grown

\* Empty stores: the invariant holds.
LEMMA InitIInv == Init => IInv
BY DEF Init, IInv, TypeOK, HeldIsStored, RowsHaveOrigin, TornByCrash, OwedIsContent,
       LinkEntryFollows

\* A commit keeps the invariant, and no row is lost.
LEMMA CommitIInv ==
  ASSUME IInv, NEW n \in Nodes, NEW h \in Headers, Commit(n, h)
  PROVE  IInv' /\ Grown
<1>1. /\ store' = [store EXCEPT ![n] = @ \cup StoreEntry(EntryOf[h])]
      /\ chain' = [chain EXCEPT ![n] = @ \cup {h}]
      /\ UNCHANGED <<online, held, owed, torn, crashed>>
  BY DEF Commit
<1>2. Grown
  BY <1>1 DEF IInv, TypeOK, Grown
<1>3. TypeOK'
  <2>1. EntryOf[h] \in Entries
    BY HeaderAssumption
  <2> QED
    BY <1>1, <2>1, StoreEntryRows DEF IInv, TypeOK
<1>4. RowsHaveOrigin'
  <2>1. \A m \in Nodes : chain[m] \subseteq chain'[m]
    BY <1>1 DEF IInv, TypeOK
  <2> SUFFICES ASSUME NEW m \in Nodes, NEW r \in store'[m]
               PROVE  \/ \E b \in held'[m] \cup torn'[m] : r \in Writes(b)
                      \/ \E g \in chain'[m] : r \in StoreEntry(EntryOf[g])
    BY DEF RowsHaveOrigin
  <2>2. CASE r \in store[m]
    BY <1>1, <2>1, <2>2 DEF IInv, RowsHaveOrigin
  <2>3. CASE m = n /\ r \in StoreEntry(EntryOf[h])
    <3>1. h \in chain'[n]
      BY <1>1 DEF IInv, TypeOK
    <3> QED
      BY <2>3, <3>1
  <2> QED
    BY <1>1, <2>2, <2>3 DEF IInv, TypeOK
<1>5. TornByCrash'
  BY <1>1 DEF IInv, TornByCrash
<1>6. LinkEntryFollows'
  BY <1>1, <1>2, StillReadable DEF IInv, LinkEntryFollows
<1>7. OwedIsContent'
  BY <1>1 DEF IInv, OwedIsContent
<1> QED
  BY <1>1, <1>2, <1>3, <1>4, <1>5, <1>6, <1>7, GrowthKeeps DEF IInv

\* Holding an aspect keeps the invariant, and no row is lost.
LEMMA HoldIInv ==
  ASSUME IInv, NEW n \in Nodes, NEW a \in Aspects, HoldAspect(n, a)
  PROVE  IInv' /\ Grown
<1>1. /\ Mark(n, a)
      /\ owed' = [owed EXCEPT ![n] = @ \cup Owes(a)]
      /\ UNCHANGED <<online, chain, torn, crashed>>
  BY DEF HoldAspect
<1>2. owed' \in [Nodes -> SUBSET Aspects]
  BY <1>1, OwesAspects DEF IInv, TypeOK
<1>3. Grown /\ HeldIsStored' /\ RowsHaveOrigin'
  BY <1>1, MarkKeeps, MarkOrigins
<1>4. TypeOK'
  BY <1>1, <1>2, MarkKeeps DEF IInv, TypeOK
<1>5. TornByCrash'
  BY <1>1 DEF IInv, TornByCrash
<1>6. ASSUME NEW m \in Nodes \ crashed', NEW b \in held'[m], b.kind = "linkAdd"
      PROVE  Content(b.header) \in owed'[m] \/ Readable(m, EntryOf[b.header])'
  <2>1. CASE b \in held[m]
    <3>1. Content(b.header) \in owed[m] \/ Readable(m, EntryOf[b.header])
      BY <1>1, <1>6, <2>1 DEF IInv, LinkEntryFollows
    <3>2. owed[m] \subseteq owed'[m]
      BY <1>1 DEF IInv, TypeOK
    <3> QED
      BY <1>3, <3>1, <3>2, StillReadable
  <2>2. CASE m = n /\ b = a
    BY <1>1, <1>6, <2>2 DEF IInv, TypeOK, Owes
  <2> QED
    BY <1>1, <2>1, <2>2 DEF IInv, TypeOK, Mark
<1>7. LinkEntryFollows'
  BY <1>6 DEF LinkEntryFollows
<1>8. OwedIsContent'
  BY <1>1 DEF IInv, TypeOK, OwedIsContent, Owes, Content, Make
<1> QED
  BY <1>3, <1>4, <1>5, <1>7, <1>8 DEF IInv

\* Holding the content that a link's workflow owes keeps the invariant.
LEMMA HoldOwedIInv ==
  ASSUME IInv, NEW n \in Nodes, HoldOwed(n)
  PROVE  IInv' /\ Grown
<1>1. PICK a \in owed[n] : Mark(n, a) /\ owed' = [owed EXCEPT ![n] = @ \ {a}]
  BY DEF HoldOwed
<1>2. UNCHANGED <<online, chain, torn, crashed>>
  BY DEF HoldOwed
<1>3. a \in Aspects
  BY DEF IInv, TypeOK
<1>4. Grown /\ HeldIsStored' /\ RowsHaveOrigin'
  BY <1>1, <1>2, <1>3, MarkKeeps, MarkOrigins
<1>5. TypeOK'
  <2>1. owed' \in [Nodes -> SUBSET Aspects]
    BY <1>1 DEF IInv, TypeOK
  <2> QED
    BY <1>1, <1>2, <1>3, <2>1, MarkKeeps DEF IInv, TypeOK
<1>6. TornByCrash'
  BY <1>2 DEF IInv, TornByCrash
<1>7. ASSUME NEW m \in Nodes \ crashed', NEW b \in held'[m], b.kind = "linkAdd"
      PROVE  Content(b.header) \in owed'[m] \/ Readable(m, EntryOf[b.header])'
  <2>1. ASSUME m = n, a.kind = "content"
        PROVE  Readable(n, EntryOf[a.header])'
    <3>1. Writes(a) \subseteq store'[n]
      BY <1>1 DEF Mark, IInv, TypeOK
    <3>2. StoreEntry(EntryOf[a.header]) \subseteq store'[n]
      BY <1>3, <2>1, <3>1, WritesCases
    <3> QED
      BY <3>2 DEF StoreEntry, Readable, StatusRows
  <2>2. CASE b \in held[m]
    <3>1. Content(b.header) \in owed[m] \/ Readable(m, EntryOf[b.header])
      BY <1>2, <1>7, <2>2 DEF IInv, LinkEntryFollows
    <3>2. CASE Readable(m, EntryOf[b.header])
      BY <1>4, <3>2, StillReadable
    <3>3. CASE Content(b.header) \in owed[m] /\ ~(m = n /\ Content(b.header) = a)
      BY <1>1, <3>3 DEF IInv, TypeOK
    <3>4. CASE m = n /\ Content(b.header) = a
      <4>1. a.kind = "content" /\ a.header = b.header
        BY <3>4 DEF Content, Make
      <4> QED
        BY <2>1, <3>4, <4>1
    <3> QED
      BY <3>1, <3>2, <3>3, <3>4
  <2>3. CASE m = n /\ b = a
    BY <1>1, <1>7, <2>3 DEF IInv, OwedIsContent
  <2> QED
    BY <1>1, <2>2, <2>3 DEF IInv, TypeOK, Mark
<1>8. LinkEntryFollows'
  BY <1>7 DEF LinkEntryFollows
<1>9. OwedIsContent'
  BY <1>1 DEF IInv, TypeOK, OwedIsContent
<1> QED
  BY <1>4, <1>5, <1>6, <1>8, <1>9 DEF IInv

\* A workflow that is run again after a crash keeps the invariant.
LEMMA ResumeIInv ==
  ASSUME IInv, NEW n \in Nodes, NEW a \in Aspects, Resume(n, a)
  PROVE  IInv' /\ Grown
<1>1. /\ owed' = [owed EXCEPT ![n] = @ \cup Owes(a)]
      /\ UNCHANGED <<online, chain, store, held, torn, crashed>>
  BY DEF Resume
<1>2. Grown
  BY <1>1 DEF Grown
<1>3. TypeOK'
  BY <1>1, OwesAspects DEF IInv, TypeOK
<1>4. RowsHaveOrigin' /\ TornByCrash'
  BY <1>1 DEF IInv, RowsHaveOrigin, TornByCrash
<1>5. OwedIsContent'
  BY <1>1 DEF IInv, TypeOK, OwedIsContent, Owes, Content, Make
<1>6. LinkEntryFollows'
  <2>1. \A m \in Nodes : owed[m] \subseteq owed'[m]
    BY <1>1 DEF IInv, TypeOK
  <2> QED
    BY <1>1, <1>2, <2>1, StillReadable DEF IInv, LinkEntryFollows
<1> QED
  BY <1>1, <1>2, <1>3, <1>4, <1>5, <1>6, GrowthKeeps DEF IInv

\* A crash between two actions adds nothing; one in the middle of a reduction adds
\* rows of the aspect that is noted as torn.
LEMMA CrashIInv ==
  ASSUME IInv, NEW n \in Nodes, Crash(n)
  PROVE  IInv' /\ Grown
<1>1. /\ n \in MayCrash
      /\ crashed' = crashed \cup {n}
      /\ owed' = [owed EXCEPT ![n] = {}]
      /\ UNCHANGED <<online, chain, held>>
  BY DEF Crash
<1>2. \/ UNCHANGED <<store, torn>>
      \/ \E a \in Aspects : \E W \in SUBSET Writes(a) :
           /\ store' = [store EXCEPT ![n] = @ \cup W]
           /\ torn' = [torn EXCEPT ![n] = @ \cup {a}]
  BY DEF Crash, PartWrites
<1>3. /\ owed' \in [Nodes -> SUBSET Aspects]
      /\ OwedIsContent'
      /\ Grown => LinkEntryFollows'
      /\ crashed' \subseteq MayCrash
  <2>1. owed' \in [Nodes -> SUBSET Aspects]
    BY <1>1 DEF IInv, TypeOK
  <2>2. OwedIsContent'
    BY <1>1 DEF IInv, TypeOK, OwedIsContent
  <2>3. ASSUME Grown
        PROVE  LinkEntryFollows'
    <3>1. \A m \in Nodes \ crashed' : m \in Nodes \ crashed /\ owed'[m] = owed[m]
      BY <1>1 DEF IInv, TypeOK
    <3> QED
      BY <1>1, <2>3, <3>1, StillReadable DEF IInv, LinkEntryFollows
  <2> QED
    BY <1>1, <2>1, <2>2, <2>3 DEF IInv, TypeOK
<1>4. CASE UNCHANGED <<store, torn>>
  <2>1. Grown
    BY <1>4 DEF Grown
  <2>2. TypeOK'
    BY <1>1, <1>3, <1>4 DEF IInv, TypeOK
  <2>3. RowsHaveOrigin' /\ TornByCrash'
    BY <1>1, <1>4 DEF IInv, RowsHaveOrigin, TornByCrash
  <2> QED
    BY <1>1, <1>3, <2>1, <2>2, <2>3, GrowthKeeps DEF IInv
<1>5. CASE \E a \in Aspects : \E W \in SUBSET Writes(a) :
             /\ store' = [store EXCEPT ![n] = @ \cup W]
             /\ torn' = [torn EXCEPT ![n] = @ \cup {a}]
  <2>0. PICK a \in Aspects : \E W \in SUBSET Writes(a) :
          /\ store' = [store EXCEPT ![n] = @ \cup W]
          /\ torn' = [torn EXCEPT ![n] = @ \cup {a}]
    BY <1>5
  <2>1. PICK W \in SUBSET Writes(a) :
          /\ store' = [store EXCEPT ![n] = @ \cup W]
          /\ torn' = [torn EXCEPT ![n] = @ \cup {a}]
    BY <2>0
  <2>2. Grown
    BY <2>1 DEF IInv, TypeOK, Grown
  <2>3. TypeOK'
    <3>1. W \subseteq Fact
      BY <2>1, WritesRows
    <3> QED
      BY <1>1, <1>3, <2>1, <3>1 DEF IInv, TypeOK
  <2>4. TornByCrash'
    BY <1>1, <2>1 DEF IInv, TypeOK, TornByCrash
  <2>5. RowsHaveOrigin'
    <3>1. \A m \in Nodes : torn[m] \subseteq torn'[m]
      BY <2>1 DEF IInv, TypeOK
    <3> SUFFICES ASSUME NEW m \in Nodes, NEW r \in store'[m]
                 PROVE  \/ \E b \in held'[m] \cup torn'[m] : r \in Writes(b)
                        \/ \E g \in chain'[m] : r \in StoreEntry(EntryOf[g])
      BY DEF RowsHaveOrigin
    <3>2. CASE r \in store[m]
      BY <1>1, <3>1, <3>2 DEF IInv, RowsHaveOrigin
    <3>3. CASE m = n /\ r \in W
      <4>1. a \in torn'[n]
        BY <2>1 DEF IInv, TypeOK
      <4> QED
        BY <2>1, <3>3, <4>1
    <3> QED
      BY <2>1, <3>2, <3>3 DEF IInv, TypeOK
  <2> QED
    BY <1>1, <1>3, <2>2, <2>3, <2>4, <2>5, GrowthKeeps DEF IInv
<1> QED
  BY <1>2, <1>4, <1>5

\* Every step keeps the invariant and takes nothing out of a store.
LEMMA NextIInv ==
  ASSUME IInv, [Next]_vars
  PROVE  IInv' /\ Grown
<1>1. ASSUME UNCHANGED <<chain, store, held, owed, torn, crashed>>, online' \subseteq online
      PROVE  IInv' /\ Grown
  <2>1. Grown
    BY <1>1 DEF Grown
  <2>2. TypeOK' /\ HeldIsStored' /\ RowsHaveOrigin' /\ TornByCrash' /\ OwedIsContent'
    BY <1>1 DEF IInv, TypeOK, HeldIsStored, RowsHaveOrigin, TornByCrash, OwedIsContent
  <2>3. LinkEntryFollows'
    BY <1>1, <2>1, StillReadable DEF IInv, LinkEntryFollows
  <2> QED
    BY <2>1, <2>2, <2>3 DEF IInv
<1>2. CASE UNCHANGED vars
  BY <1>1, <1>2 DEF vars
<1>3. CASE Next
  <2>1. PICK n \in Nodes :
          \/ \E h \in Headers : Commit(n, h)
          \/ Work(n)
          \/ \E a \in Aspects : HoldQueued(n, a)
          \/ Crash(n)
          \/ FetchPanics(n) \/ Leave(n)
    BY <1>3 DEF Next
  <2>2. CASE Work(n)
    BY <2>2, HoldIInv, HoldOwedIInv, ResumeIInv DEF Work, Hold
  <2>3. CASE \E a \in Aspects : HoldQueued(n, a)
    BY <2>3, HoldIInv DEF HoldQueued
  <2>4. CASE FetchPanics(n) \/ Leave(n)
    BY <2>4, <1>1 DEF FetchPanics, Leave
  <2> QED
    BY <2>1, <2>2, <2>3, <2>4, CommitIInv, CrashIInv
<1> QED
  BY <1>2, <1>3

-----------------------------------------------------------------------------
(* What follows.                                                           *)

\* The invariant holds in every state that can be reached.
THEOREM StoreInvariance == Spec => []IInv
<1>1. IInv /\ [Next]_vars => IInv'
  BY NextIInv
<1> QED
  BY InitIInv, <1>1, PTL DEF Spec

\* A node reports an aspect as held only when it has written all of it, whatever
\* errors and crashes came between: HeldIsStored.
THEOREM HeldAreStored == Spec => []HeldIsStored
<1>1. IInv => HeldIsStored
  BY DEF IInv
<1> QED
  BY StoreInvariance, <1>1, PTL

\* Chains, stores and notes keep their types: TypeOK.
THEOREM StoreTypeCorrect == Spec => []TypeOK
<1>1. IInv => TypeOK
  BY DEF IInv
<1> QED
  BY StoreInvariance, <1>1, PTL

\* A row that says something of another entry, or of a deletion, was written by an
\* aspect, and the node has all its other rows unless it has crashed.
LEMMA RowsOfAspects ==
  ASSUME IInv, NEW n \in Nodes, NEW r \in store[n],
         \A e \in Entries : r \notin StoreEntry(e)
  PROVE  \E a \in Aspects : r \in Writes(a) /\ (torn[n] = {} => a \in held[n])
<1>1. ASSUME NEW h \in chain[n]
      PROVE  r \notin StoreEntry(EntryOf[h])
  <2>1. EntryOf[h] \in Entries
    BY HeaderAssumption DEF IInv, TypeOK
  <2> QED
    BY <2>1
<1>2. PICK a \in held[n] \cup torn[n] : r \in Writes(a)
  BY <1>1 DEF IInv, RowsHaveOrigin
<1>3. a \in Aspects
  BY DEF IInv, TypeOK
<1> QED
  BY <1>2, <1>3

\* Rows of links, removals and updates, and of statuses other than live, are not
\* those of a commit.
LEMMA NotOfCommits ==
  ASSUME NEW e, NEW x, NEW y
  PROVE  /\ <<"link", x, y>> \notin StoreEntry(e)
         /\ <<"removed", x, y>> \notin StoreEntry(e)
         /\ <<"crud", x, y>> \notin StoreEntry(e)
         /\ <<"status", x, "modified">> \notin StoreEntry(e)
         /\ <<"status", x, "deleted">> \notin StoreEntry(e)
<1>1. \A r \in StoreEntry(e) : r = <<"content", e, "">> \/ r = <<"status", e, "live">>
  BY DEF StoreEntry, HasContent
<1> QED
  BY <1>1

\* Two nodes that hold the same and have not been interrupted have the same such
\* rows.
LEMMA SameRows ==
  ASSUME IInv, NEW n \in Nodes, NEW m \in Nodes, held[n] = held[m], torn[n] = {},
         NEW r \in store[n], \A e \in Entries : r \notin StoreEntry(e)
  PROVE  r \in store[m]
<1>1. PICK a \in Aspects : r \in Writes(a) /\ a \in held[n]
  BY RowsOfAspects
<1> QED
  BY <1>1 DEF IInv, HeldIsStored

\* Two nodes that hold the same aspects give the same answers, in whatever order
\* these came and whatever each has committed itself: SameHoldingsSameAnswers.
THEOREM HoldersAgree == Spec => []SameHoldingsSameAnswers
<1>1. ASSUME IInv
      PROVE  SameHoldingsSameAnswers
  <2> SUFFICES ASSUME NEW n \in Nodes, NEW m \in Nodes,
                      held[n] = held[m], torn[n] = {}, torn[m] = {},
                      NEW e \in Entries
               PROVE  /\ Status(store[n], e) = Status(store[m], e)
                      /\ LiveLinks(store[n], e) = LiveLinks(store[m], e)
    BY DEF SameHoldingsSameAnswers
  <2>1. \A r : (\A f \in Entries : r \notin StoreEntry(f)) => (r \in store[n] <=> r \in store[m])
    BY <1>1, SameRows
  <2>2. \A v \in {"modified", "deleted"} : v \in StatusRows(store[n], e) <=> v \in StatusRows(store[m], e)
    BY <2>1, NotOfCommits DEF StatusRows
  <2>3. \A l \in Entries : <<"link", e, l>> \in store[n] <=> <<"link", e, l>> \in store[m]
    BY <2>1, NotOfCommits
  <2>4. \A q, l \in Entries : <<"removed", q, l>> \in store[n] <=> <<"removed", q, l>> \in store[m]
    BY <2>1, NotOfCommits
  <2> QED
    BY <2>2, <2>3, <2>4 DEF Status, LiveLinks
<1> QED
  BY StoreInvariance, <1>1, PTL

\* A link that get_links would show has its entry, or a workflow is about to hold
\* it, at every node that has not crashed: LinksResolve.
THEOREM LinksAlwaysResolve == Spec => []LinksResolve
<1>1. ASSUME IInv
      PROVE  LinksResolve
  <2> SUFFICES ASSUME NEW n \in Nodes, NEW b \in Entries, NEW l \in LiveLinks(store[n], b),
                      n \notin crashed
               PROVE  Readable(n, l) \/ \E h \in Headers : EntryOf[h] = l /\ Content(h) \in owed[n]
    BY DEF LinksResolve
  <2>1. <<"link", b, l>> \in store[n]
    BY DEF LiveLinks
  <2>2. torn[n] = {}
    BY <1>1 DEF IInv, TornByCrash
  <2>3. PICK a \in Aspects : <<"link", b, l>> \in Writes(a) /\ a \in held[n]
    BY <1>1, <2>1, <2>2, RowsOfAspects, NotOfCommits
  <2>4. a.kind = "linkAdd" /\ l = EntryOf[a.header] /\ a.header \in Headers
    BY <2>3, RowWriters, AspectFacts
  <2>5. Content(a.header) \in owed[n] \/ Readable(n, EntryOf[a.header])
    BY <1>1, <2>3, <2>4 DEF IInv, LinkEntryFollows
  <2> QED
    BY <2>4, <2>5
<1> QED
  BY StoreInvariance, <1>1, PTL

\* What a holder serves, from its chain or put together from rows, is what some
\* author has published, but for the removal of several links and the update by an
\* entry with several headers: ServedIsAuthored.
THEOREM OnlyAuthoredIsServed == Spec => []ServedIsAuthored
<1>1. ASSUME IInv
      PROVE  ServedIsAuthored
  <2> SUFFICES ASSUME NEW n \in Nodes, NEW e \in Entries, NEW a \in Served(n, e)
               PROVE  \/ a \in Authored(a.header)
                      \/ a.kind = "linkRemove" /\ \E l, k \in RemovedBy[EntryOf[a.header]] : l # k
                      \/ /\ a.kind = "update"
                         /\ \E h \in Headers : h # a.header /\ EntryOf[h] = EntryOf[a.header]
    BY DEF ServedIsAuthored
  <2>1. CASE a \in ContentAspects(n, e)
    <3>1. PICK h \in Headers : a = Content(h)
      BY <2>1 DEF ContentAspects, HeadersOf
    <3>2. a.header = h
      BY <3>1 DEF Content, Make
    <3> QED
      BY <3>1, <3>2 DEF Authored
  <2>2. CASE a \in ChainAspects(n, e)
    <3>1. PICK h \in Headers : a \in Meta(h)
      BY <1>1, <2>2 DEF ChainAspects, IInv, TypeOK
    <3>2. EntryOf[h] \in Entries /\ KindOf[EntryOf[h]] \in Kinds
      BY HeaderAssumption, EntryAssumption
    <3>3. a.header = h
      BY <3>1, <3>2, MetaCases DEF Make, Kinds
    <3> QED
      BY <3>1, <3>3 DEF Authored
  <2>3. CASE \E l \in LinkRows(n, e) : \E h \in FirstHeaders(n, l) : a = Make("linkAdd", h, {})
    <3>1. PICK l \in LinkRows(n, e) : \E h \in FirstHeaders(n, l) : a = Make("linkAdd", h, {})
      BY <2>3
    <3>2. PICK h \in Headers : EntryOf[h] = l /\ a = Make("linkAdd", h, {})
      BY <3>1 DEF FirstHeaders, HeadersOf
    <3>3. PICK b \in Aspects : <<"link", e, l>> \in Writes(b)
      BY <1>1, <3>1, RowsOfAspects, NotOfCommits DEF LinkRows
    <3>4. KindOf[EntryOf[h]] = "linkAdd"
      BY <3>2, <3>3, RowWriters, AspectFacts
    <3>5. Meta(h) = {a} /\ a.header = h
      BY <3>2, <3>4, MetaCases DEF Make
    <3> QED
      BY <3>5 DEF Authored
  <2>4. CASE \E p \in RemovalRows(n, e) : \E h \in HeadersOf(n, p[1]) : a = Make("linkRemove", h, {p[2]})
    <3>1. PICK p \in RemovalRows(n, e) : \E h \in HeadersOf(n, p[1]) : a = Make("linkRemove", h, {p[2]})
      BY <2>4
    <3>2. /\ p[1] \in Entries
          /\ p[2] \in RemovedBy[p[1]]
          /\ <<"removed", p[1], p[2]>> \in store[n]
      <4>1. PICK r \in {r \in Entries : BaseOf[r] = e} :
              p \in {r} \X {l \in RemovedBy[r] : <<"removed", r, l>> \in store[n]}
        BY <3>1 DEF RemovalRows
      <4>2. p[1] = r /\ p[2] \in {l \in RemovedBy[r] : <<"removed", r, l>> \in store[n]}
        BY <4>1
      <4> QED
        BY <4>2
    <3>3. PICK h \in Headers : EntryOf[h] = p[1] /\ a = Make("linkRemove", h, {p[2]})
      BY <3>1 DEF HeadersOf
    <3>4. PICK b \in Aspects : <<"removed", p[1], p[2]>> \in Writes(b)
      BY <1>1, <3>2, RowsOfAspects, NotOfCommits
    <3>5. KindOf[EntryOf[h]] = "linkRemove"
      BY <3>3, <3>4, RowWriters, AspectFacts
    <3>6. Meta(h) = {Make("linkRemove", h, RemovedBy[EntryOf[h]])}
      BY <3>5, MetaCases
    <3>7. a.header = h /\ a.kind = "linkRemove"
      BY <3>3 DEF Make
    <3>8. CASE RemovedBy[EntryOf[h]] = {p[2]}
      BY <3>3, <3>6, <3>7, <3>8 DEF Authored
    <3>9. CASE RemovedBy[EntryOf[h]] # {p[2]}
      BY <3>2, <3>3, <3>7, <3>9
    <3> QED
      BY <3>8, <3>9
  <2>5. CASE \E f \in CrudRows(n, e) : \E h \in FirstHeaders(n, f) : a = Make("update", h, {})
    <3>1. PICK f \in CrudRows(n, e) : \E h \in FirstHeaders(n, f) : a = Make("update", h, {})
      BY <2>5
    <3>2. PICK h \in Headers : EntryOf[h] = f /\ a = Make("update", h, {})
      BY <3>1 DEF FirstHeaders, HeadersOf
    <3>3. PICK b \in Aspects : <<"crud", e, f>> \in Writes(b)
      BY <1>1, <3>1, RowsOfAspects, NotOfCommits DEF CrudRows
    <3>4. /\ b.header \in Headers /\ EntryOf[b.header] = f
          /\ KindOf[f] = "app" /\ Replaced[b.header] # {}
      BY <3>3, RowWriters, AspectFacts
    <3>5. a.header = h /\ a.kind = "update"
      BY <3>2 DEF Make
    <3>6. CASE b.header = h
      <4>1. Meta(h) = {Make("update", h, {})}
        BY <3>4, <3>6, MetaCases
      <4> QED
        BY <3>2, <3>5, <4>1 DEF Authored
    <3> QED
      BY <3>2, <3>4, <3>5, <3>6
  <2>6. a \in EavAspects(n, e) =>
          \/ \E l \in LinkRows(n, e) : \E h \in FirstHeaders(n, l) : a = Make("linkAdd", h, {})
          \/ \E p \in RemovalRows(n, e) : \E h \in HeadersOf(n, p[1]) : a = Make("linkRemove", h, {p[2]})
          \/ \E f \in CrudRows(n, e) : \E h \in FirstHeaders(n, f) : a = Make("update", h, {})
    BY DEF EavAspects
  <2> QED
    BY <2>1, <2>2, <2>3, <2>4, <2>5, <2>6 DEF Served
<1> QED
  BY StoreInvariance, <1>1, PTL

\* The rows of a deletion make its entries deleted for all time.
LEMMA DeletedByRows ==
  ASSUME NEW s, NEW a \in Aspects, a.kind = "deletion", Writes(a) \subseteq s,
         NEW o \in Replaced[a.header]
  PROVE  Status(s, o) = "deleted"
<1>1. Writes(a) = UNION {RemoveEntry(p) : p \in Replaced[a.header]}
  BY Zenon DEF Writes
<1>2. RemoveEntry(o) \subseteq s
  BY <1>1
<1>3. <<"status", o, "deleted">> \in s
  BY <1>2 DEF RemoveEntry
<1>4. "deleted" \in StatusRows(s, o)
  BY <1>3 DEF StatusRows
<1> QED
  BY <1>4 DEF Status

\* The rows of a removal hide its links from get_links.
LEMMA RemovedByRows ==
  ASSUME NEW s, NEW a \in Aspects, a.kind = "linkRemove", Writes(a) \subseteq s,
         NEW l \in a.removes, NEW b \in Entries
  PROVE  l \notin LiveLinks(s, b)
<1>1. EntryOf[a.header] \in Entries
  BY AspectFacts, HeaderAssumption
<1>2. <<"removed", EntryOf[a.header], l>> \in s
  <2>1. Writes(a) = AddRemoveLink(a)
    BY Zenon DEF Writes
  <2> QED
    BY <2>1 DEF AddRemoveLink
<1> QED
  BY <1>1, <1>2 DEF LiveLinks

\* Once a node holds the deletion of an entry or the removal of a link, no step
\* brings the entry or the link back, although content and links may be held
\* again with other headers and crashes leave parts of aspects: RemovalIsFinal.
THEOREM RemovalsAreFinal == Spec => RemovalIsFinal
<1>1. ASSUME IInv, [Next]_vars
      PROVE  \A n \in Nodes : \A a \in held[n] :
               /\ a.kind = "deletion" => \A o \in Replaced[a.header] : Status(store'[n], o) = "deleted"
               /\ a.kind = "linkRemove" =>
                    \A l \in a.removes : \A b \in Entries : l \notin LiveLinks(store'[n], b)
  <2> TAKE n \in Nodes
  <2> TAKE a \in held[n]
  <2>1. a \in Aspects
    BY <1>1 DEF IInv, TypeOK
  <2>2. Writes(a) \subseteq store'[n]
    BY <1>1, NextIInv DEF IInv, HeldIsStored, Grown
  <2>3. a.kind = "deletion" => \A o \in Replaced[a.header] : Status(store'[n], o) = "deleted"
    BY <2>1, <2>2, DeletedByRows
  <2>4. a.kind = "linkRemove" =>
          \A l \in a.removes : \A b \in Entries : l \notin LiveLinks(store'[n], b)
    BY <2>1, <2>2, RemovedByRows
  <2> QED
    BY <2>3, <2>4
<1> QED
  BY StoreInvariance, <1>1, PTL DEF Spec, RemovalIsFinal
==============================================================================
