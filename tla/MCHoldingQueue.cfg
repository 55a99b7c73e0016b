CONSTANTS
  Aspects = {"base", "base2", "link", "content"}
  Addresses = {"b", "l", "u"}
  Workflows = {"HoldEntry", "HoldLink", "UpdateEntry"}
  EntryOf <- MCEntryOf
  WorkflowOf <- MCWorkflowOf
  DependenciesOf <- MCDependenciesOf
  HoldsOf <- MCHoldsOf
  RetryMin = 1
  RetryMax = 2
  HeaderFaults = TRUE
  MaxStores = 2
  MaxPrunes = 1
  MaxCrashes = 1
  MaxSaveFailures = 1
SPECIFICATION Spec
INVARIANTS
  TypeOK
  OnePendingPerAspect
  OneWorkflowPerAspect
  EndedIsInProcess
  AckedIsHeld
  NothingLost
PROPERTIES
  BackoffGrows
CHECK_DEADLOCK FALSE
