SPECIFICATION MCSpec
CONSTANTS
    Handlers <- MCHandlers
    Nobody = Nobody
    Restarts = 1
    Clients = {"home", "away"}
    MaxDelay = 2
    Reset = 2
    TooMany = 3
    Sessions = {"probe", "talk"}
    TestSessions = {"probe"}
    Casts <- MCCasts
INVARIANTS
    SchemaStandsFirst
    RestingTestRunsLeaveNothing
PROPERTIES
    ServedAnswersStand
    RefusalsAreEarned
    OnlyTestDataIsDeleted
    EveryRequestIsAnswered
