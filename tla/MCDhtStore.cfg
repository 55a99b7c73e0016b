\* The author may leave and one of the holders may crash.
SPECIFICATION FairSpec
CONSTANTS
  Nodes = {"x", "y", "z"}
  Entries = {"b", "b2", "l", "r", "d"}
  Headers = {"hb", "hu", "hl", "hr", "hd"}
  KindOf <- MCKindOf
  BaseOf <- MCBaseOf
  TargetOf <- MCTargetOf
  RemovedBy <- MCRemovedBy
  EntryOf <- MCEntryOf
  AuthorOf <- MCAuthorOf
  Replaced <- MCReplaced
  InArc <- MCInArc
  MayCrash = {"z"}
  MayLeave = {"x"}
INVARIANTS
  TypeOK
  HeldIsStored
  SameHoldingsSameAnswers
  LinksResolve
  ServedIsAuthored
PROPERTIES
  RemovalIsFinal
  Spreads
CHECK_DEADLOCK FALSE
