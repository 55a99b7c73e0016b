CONSTANTS
  Nil = Nil
  Agents = {"a"}
  Uris = {"a1", "a2"}
  Spaces = {"s"}
  Entries = {"e"}
  Aspects = {}
  EntryOf <- MCEntryOf
  AgentOf <- MCAgentOf
  SpaceOf <- MCSpaceOf
  AgentLoc <- MCAgentLoc
  EntryLoc <- MCEntryLoc
  ArcLength = 1
  Redundancy = 0
  MaxMessages = 2
  MaxResends = 1
  MaxWriters = 2
SPECIFICATION FairSpec
PROPERTIES
  SnapshotCatchesUp
  Answered
