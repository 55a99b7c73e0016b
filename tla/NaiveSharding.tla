---------------------------- MODULE NaiveSharding ----------------------------
(* The sharding rule of a sim2h server (sim2h/src/naive_sharding.rs): which  *)
(* agents of a space should store an entry, by their distance on a ring.     *)
EXTENDS Integers

CONSTANT ArcLength     \* ARC_LENGTH_MAX, the number of locations on the ring

ASSUME ArcAssumption == ArcLength \in Nat \ {0}

Location == 0..(ArcLength - 1)

\* lib3h's Location::forward_distance_to: from one location up to another,
\* wrapping around.
ForwardDistance(from, to) == (to - from) % ArcLength

\* naive_sharding_should_store: everyone stores everything until there are more
\* nodes than copies asked for; then a node stores what lies in the arc that
\* starts at its own location and is redundant_count / node_count of the ring.
NaiveShardingShouldStore(agentLoc, dataLoc, nodeCount, redundantCount) ==
  \/ nodeCount =< redundantCount
  \/ ForwardDistance(agentLoc, dataLoc)
       < (ArcLength * redundantCount) \div nodeCount
=============================================================================
