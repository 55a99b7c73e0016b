CONSTANTS
  Aspects = {"base", "base2"}
  Addresses = {"b", "l", "u"}
  Workflows = {"HoldEntry", "HoldLink", "UpdateEntry"}
  EntryOf <- MCEntryOf
  WorkflowOf <- MCWorkflowOf
  DependenciesOf <- MCDependenciesOf
  HoldsOf <- MCHoldsOf
  RetryMin = 1
  RetryMax = 2
  HeaderFaults = FALSE
  MaxStores = 2
  MaxPrunes = 1
  MaxCrashes = 0
  MaxSaveFailures = 0
SPECIFICATION Spec
INVARIANT LoopNotStranded
CHECK_DEADLOCK FALSE
