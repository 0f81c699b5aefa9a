SPECIFICATION PartsSpec
CONSTANTS
    s1 = s1
    s2 = s2
    here = here
    p1 = p1
    p2 = p2
    r1 = r1
    r2 = r2
    r3 = r3
    NoProduct = NoProduct
    NoRegion = NoRegion
    NoSurvey = NoSurvey
    a1 = a1
    a2 = a2
    m1 = m1
    m2 = m2
    Nothing = Nothing
    home = home
    abroad = abroad
    installer = installer
    other = other
    Unrecorded = Unrecorded
    name = name
    stub = stub
    Truncated = Truncated
    NoFile = NoFile
    NoPath = NoPath
INVARIANTS
    MilestoneCoversRegion
    EndOwesNothing
    StateHasMilestone
PROPERTIES
    StartsSettle
    UnderWayEnds
    LeftoversGo
