SPECIFICATION RunSpec
CONSTANTS
    N = 5
    Faults = 1
    MaxAsked = 2
    Missing = Missing
    Filters <- MCFilters
CHECK_DEADLOCK FALSE
INVARIANTS
    RunTypeOK
    KeepersPass
    ActivityPubBreakersFail
    OAuthBreakersFail
    SecretsBreakersFail
    TraversalsFillTheirPages
    RunsWhatIsAsked
    CanRunAgain
PROPERTIES
    RunReturns
