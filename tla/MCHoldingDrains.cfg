CONSTANTS
  Aspects = {"base", "update", "back", "same"}
  Addresses = {"b", "l", "u"}
  Workflows = {"HoldEntry", "HoldLink", "UpdateEntry"}
  EntryOf <- MCEntryOf
  WorkflowOf <- MCWorkflowOf
  DependenciesOf <- MCDependenciesOf
  HoldsOf <- MCHoldsOf
  RetryMin = 1
  RetryMax = 1
  HeaderFaults = FALSE
  MaxStores = 2
  MaxPrunes = 1
  MaxCrashes = 1
  MaxSaveFailures = 0
SPECIFICATION FairSpec
PROPERTIES
  Drains
CHECK_DEADLOCK FALSE
