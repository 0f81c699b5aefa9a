SPECIFICATION PartsSpec
CONSTANTS
    Regions = {home, abroad, elsewhere}
    Files = {installer, other}
    Admissible = {installer}
    MaxHandoffs = 2
    SessionRegions = {home, abroad}
    MaxOperations = 2
    MaxPosted = 2
    home = home
    abroad = abroad
    elsewhere = elsewhere
    NoRegion = NoRegion
    Nothing = Nothing
    NoRecord = NoRecord
    NoFile = NoFile
    NoSnapshot = NoSnapshot
    installer = installer
    Ours = {p1}
    Foreign = {f1}
    Legible = TRUE
    Fractions = {425}
    MaxJobs = 2
    MaxElsewhere = 1
    MaxRuns = 2
    KeysOf <- UninstallKeys
    MaxChanges = 2
INVARIANTS
    NobodyElseWorks
    SessionIsCovered
PROPERTIES
    ImplementsPromise
    HandoffIsCovered
    EvidenceIsSound
