SPECIFICATION PartsSpec
CONSTANTS
    Prepared = Prepared
    Operations = {o1, o2}
    DurableStates = {Prepared, Switched}
    Missing = Missing
    Unreadable = Unreadable
    Nothing = Nothing
    Partial = Partial
    MaxOrphans = 2
    HistoryEntries = {e1, e2}
    Jobs = {j1, j2}
    HistoryCrashes = 1
    LogWriters = {1, 2}
    LoneWriter = 1
    MaxFile = 1
    KeptRotations = 2
    MaxRecords = 5
    MaxOps = 2
    MaxPolls = 1
    TraceCrashes = 1
    Names = {name}
    Elsewhere = {elsewhere}
    StoreSigned = {stub}
    OtherSigned = {tool}
    Unsigned = {}
    Inspectors = {1}
    MaxWrites = 2
    MaxSelections = 1
    Truncated = Truncated
    NoInstaller = NoInstaller
    NoPath = NoPath
SYMMETRY JobSymmetry
INVARIANTS
    GuardKnowsFile
    DiagnosticsAreTrue
    InstallersAreWhole
PROPERTIES
    ImplementsSlot
    RemovedWasKnown
    HistoryIsKept
