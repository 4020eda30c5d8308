SPECIFICATION BrowserSpec
CONSTANTS
    Null = Null
    a = a
    b = b
    r1 = r1
    r2 = r2
    Sha = {a, b}
    Runner = {r1, r2}
    SourceSha <- mcSourceSha
    AssetCount = 1
    MaxRows = 1
    Statuses = {"rendered", "auth_boundary", "captcha_boundary", "navigation_error"}
    Failures = {"navigation_error"}
    Document <- mcDocument
    MaxSteps = 1
    MaxTrace = 2
INVARIANTS OneExecution CompletedWasRead
PROPERTIES ImplementsOneShotJobs ClaimsSettle
CHECK_DEADLOCK FALSE
