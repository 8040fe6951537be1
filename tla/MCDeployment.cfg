\* A migrated live network, one before its migration, and a local one.
CONSTANTS
  Networks = {"main", "sepolia", "localhost"}
  Migrated = {"main"}
  Tasks <- MCTasks
  Flags <- MCFlags
  NftContractId <- TwoCollections
  MaxContracts <- MCContracts
  MaxFaults = 1
\* An operator may have nothing left to run.
CHECK_DEADLOCK FALSE
SPECIFICATION Spec
INVARIANTS TypeOK DoneMeansServed RegistryUsable TokensServed
PROPERTIES UpgradesKeepKind TaskEnds
