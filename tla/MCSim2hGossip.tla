--------------------------- MODULE MCSim2hGossip ---------------------------
(* Two agents in one space, both of which should hold every entry (full     *)
(* sync). Agent "b" has published an aspect q of an entry e, and had         *)
(* committed a header h that was not published before a restart; agent "a"   *)
(* is about to commit another aspect p of e and has a second socket to come  *)
(* back with.                                                                *)
EXTENDS Sim2hGossip

\* Nodes at even distances on the ring: every location is stored by as many of them
\* as copies are asked for, or by all when there are no more.
ASSUME ShardsCover ==
  \A nodes \in {1, 2, 3, 4}, copies \in 1..3, data \in Location :
    Cardinality({i \in 0..(nodes - 1) :
      NaiveShardingShouldStore(i * (ArcLength \div nodes), data, nodes, copies)}) =
    IF nodes =< copies THEN nodes ELSE copies

MCAgentOf == [u \in Uris |-> IF u = "b1" THEN "b" ELSE "a"]
MCSpaceOf == [u \in Uris |-> "s"]
MCEntryOf == [x \in Aspects |-> IF x = "h" THEN "eh" ELSE "e"]
MCAuthorOf == [x \in Aspects |-> IF x = "p" THEN "a" ELSE "b"]
MCAgentLoc == [a \in Agents |-> 0]
MCEntryLoc == [e \in Entries |-> 0]
=============================================================================
