\* A local node and the migration README.md gives for it; nobody steps in.
CONSTANTS
  Networks = {"localhost"}
  Migrated = {}
  Tasks <- LocalMigration
  Flags <- MCFlags
  NftContractId <- TwoCollections
  MaxContracts <- RoomForMigration
  MaxFaults = 0
CHECK_DEADLOCK FALSE
SPECIFICATION Spec
INVARIANTS MigrationCompletes
