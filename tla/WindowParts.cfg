SPECIFICATION PartsSpec
CONSTANTS
    one = one
    two = two
    here = here
    there = there
    picked = picked
    fetched = fetched
    Junk = Junk
    NoProduct = NoProduct
    NoRegion = NoRegion
    NoPath = NoPath
    Products = {one, two}
    Regions = {here, there}
    Markets = {here}
    Paths = {picked, fetched}
    MaxRequests = 2
    MaxChosen = 1
    TableLanguages = {"ru", "en"}
    Found <- ScanLists
    Histories <- KeptHistories
    MaxChanges = 1
    MaxChecks = 1
    MaxRestarts = 1
INVARIANTS
    GateIsSafe
    MilestoneBeforeWrite
    OutcomeIsTrue
    ShownIsTrue
    LayoutHolds
    PrerequisitesAreTrue
PROPERTIES
    DraftIsTrue
