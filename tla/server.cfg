SPECIFICATION SiteSpec
CONSTANTS
    None = None
    NoKey = NoKey
    NoReply = NoReply
    Statements = 2
    Rows = {v1}
    MaxTries = 2
    MaxCrashes = 1
    Calls = {c1, c2, c3}
    Addresses = {a1}
    Buckets = {"oauth_coarse", "login_ip"}
    MaxAttempts <- Attempts
    Window <- Windows
    CountOnSuccess <- Counting
    MaxTime = 2
    MaxMarks = 4
    MaxRenderedRows = 2
CHECK_DEADLOCK FALSE
INVARIANTS TypeOK RevisionHonest CspFitsPage FeaturesServed
PROPERTIES SizesKnown UpgradeEnds ActsLikeBudget StaleForgotten
