CONSTANTS
  Nil = Nil
  Agents = {"a", "b"}
  Uris = {"a1", "a2", "b1"}
  Spaces = {"s"}
  Entries = {"e"}
  Aspects = {"x"}
  EntryOf <- MCEntryOf
  AgentOf <- MCAgentOf
  SpaceOf <- MCSpaceOf
  AgentLoc <- MCAgentLoc
  EntryLoc <- MCEntryLoc
  ArcLength = 1
  Redundancy = 0
  MaxMessages = 3
  MaxResends = 0
  MaxWriters = 2
SPECIFICATION Spec
INVARIANTS
  TypeOK
  RoutingConsistent
  JoinedIsRegistered
