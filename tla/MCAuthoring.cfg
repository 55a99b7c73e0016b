\* Two authors and one other call for a pool of two, one crash.
SPECIFICATION FairSpec
CONSTANTS
  c1 = c1
  c2 = c2
  c3 = c3
  secret = secret
  removal = removal
  Calls = {c1, c2, c3}
  Authors = {c1, c2}
  Inner <- MCInner
  Entries = {secret, removal}
  EntryOf <- MCEntryOf
  Private = {secret}
  HasMeta = {removal}
  BaseOf <- MCBaseOf
  MaxZomeCalls = 2
  MaxCrashes = 1
INVARIANTS
  TypeOK
  PoolIsUsed
  CommitsOnce
  PublishedIsSaved
  SuccessIsPublished
  
PROPERTIES
  CallsEnd
CHECK_DEADLOCK FALSE
