SPECIFICATION PartsSpec
CONSTANTS
    s1 = s1
    s2 = s2
    s3 = s3
    here = here
    p1 = p1
    p2 = p2
    r1 = r1
    r2 = r2
    r3 = r3
    NoProduct = NoProduct
    NoRegion = NoRegion
    NoSurvey = NoSurvey
    Products = {p1, p2}
    Regions = {r1, r2, r3}
    Markets = {r1, r2, r3}
    Curated = {r1, r2}
    MaxPasses = 2
    Searches <- SearchBeginnings
    Screens <- BoxBeginnings
    Languages = {"ru", "en"}
    Blank = Blank
    a1 = a1
    a2 = a2
    m1 = m1
    m2 = m2
    Nothing = Nothing
    Applications = {a1, a2}
    Asked = {m1, m2}
    Reference = {m1, m2}
    MaxScans = 1
    MaxMoves = 1
    Beginnings <- ScanBeginnings
    Concurrency = 2
    Starts = {s1, s2, s3}
    Sessions = {here}
    SessionOf <- StartedIn
INVARIANTS
    OneOwner
    SurveyIsTrue
    ScanIsTrue
    CatalogueIsTrue
