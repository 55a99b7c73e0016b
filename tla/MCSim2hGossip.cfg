CONSTANTS
  Nil = Nil
  Agents = {"a", "b"}
  Uris = {"a1", "a2", "b1"}
  Spaces = {"s"}
  Entries = {"e", "eh"}
  Aspects = {"p", "q", "h"}
  EntryOf <- MCEntryOf
  AgentOf <- MCAgentOf
  SpaceOf <- MCSpaceOf
  AuthorOf <- MCAuthorOf
  HeaderAspects = {"h"}
  AgentLoc <- MCAgentLoc
  EntryLoc <- MCEntryLoc
  ArcLength = 12
  Redundancy = 0
  Settled = {"a1", "b1"}
  Published = {"q"}
  Unsent = {"h"}
  MayRestart = {"a"}
SPECIFICATION FairSpec
INVARIANT
  HoldingsAgree
PROPERTY
  Resynced
CHECK_DEADLOCK FALSE
