SPECIFICATION MCSpec
CONSTANTS
    d1 = d1
    d2 = d2
    d3 = d3
    Process = {1, 2}
    Request <- MCRequest
    ProcOf <- MCProcOf
    Field = {"mode", "note"}
    Value = {"x"}
    Junk = Junk
    Omitted = Omitted
    Update <- MCUpdate
    ToClear = ToClear
    ToRead = ToRead
    MaxCrashes = 1
    None = None
    Torn = Torn
    Metro = {"m", "n"}
    Theme = {"places", "transportation"}
    MaxRelease = 2
    MaxFaults = 1
    Caller = {"a", "b", "c"}
    Isolated = {"a", "b"}
    Startup = "s"
    Cap = 3
    Unset = Unset
    Releases = {"r1", "r2"}
    Query = {"near", "at"}
    Center = {"c", "d"}
    PinOf <- MCPinOf
    RowCount <- MCRowCount
    SpareCount <- MCSpareCount
    Limit = {0, 1, 2, 5}
    MaxRows = 3
    Compacting = {"near"}
    MaxRollovers = 2
    Node = {"s", "a", "b", "t"}
    Source = "s"
    Graph <- Towns
    Length <- MCLength
    Height <- MCHeight
    Penalty = 3
    Bound = {3, 4}
    Target <- MCTarget
    Infinity = 1000
    StopCount = 4
    Matrix <- MCMatrix
    Estimate <- MCEstimate
    Gaps <- MCGaps
    Unknown = Unknown
    Bare = Bare
    Session = {"s1", "s2", "s3", "e"}
    Ephemeral = {"e"}
    MaxSessions = 2
    MaxAnswers = 1
    City = {"x"}
    Leg = {1}
    Direct = {2}
    Point = Point
    Junction <- MCJunction
    Survey <- MCSurvey
    Mode = {"walk", "cycle", "drive"}
    Excluded <- MCExcluded
    Obeys = {"cycle", "drive"}
    Tokens <- MCTokens
    MaxSegments = 2
    Distance <- MCDistance
    SnapRadius = 2
    FallbackRadius = 4
    MinNodes = 3
INVARIANTS WarmMarkersAreEarned PagesJoinUp HomeRegionIsSettled SessionsAreKept SearchIsExact TourIsBest NetworkIsTrue
PROPERTIES ImplementsDocument
CHECK_DEADLOCK FALSE
