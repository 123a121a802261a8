CONSTANTS
    Proc = {p, q}
    Migrations <- MCMigrations
    StoreTables <- CoreTables
    RepoTables <- CoreRepoTables
    Born <- MCBorn
    Files <- MCFiles
SPECIFICATION FairSpec
INVARIANTS RecordedIsApplied OpenStoreIsComplete AddedColumnHasOwner SoloStartSucceeds
PROPERTIES MigrationCompletes
CHECK_DEADLOCK FALSE
