\* A network the protocol runs on, where a new registry implementation is prepared.
CONSTANTS
  Networks = {"main"}
  Migrated = {"main"}
  Tasks <- ImplementationTasks
  Flags <- AllVerified
  NftContractId <- TwoCollections
  MaxContracts <- MCContracts
  MaxFaults = 0
CHECK_DEADLOCK FALSE
SPECIFICATION Spec
INVARIANTS VerifiesProxy
