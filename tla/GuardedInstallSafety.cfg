CONSTANTS
    Regions = {home, market, other}
    NoRegion = NoRegion
    NoRecord = NoRecord
    MaxOperations = 2
    MaxCrashes = 1
    MaxMoves = 1
    RestoreAttempts = 2
SYMMETRY RegionSymmetry
SPECIFICATION Spec
INVARIANTS
    TypeOK
    TemporaryRegionIsRecorded
    RestoredClaimIsTrue
    NeverRefused
    HistoryTold
    ReturnedRegionStaysPut
    QuestionHasRecord
PROPERTIES
    InstalledHasEvidence
    RecordOutlivesDebt
    InstallHasRecord
    ImplementsPromise
