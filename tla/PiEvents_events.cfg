SPECIFICATION FairSpec
CONSTANTS
    MaxLines = 3
    Indexes = {0, 1}
    Clients = {c1, c2}
    Cap = 1
INVARIANT NeverSentOnClosed
INVARIANT DeltaInOnePlace
PROPERTY SlowClientHarmless
PROPERTY ImplementsEventFeed
CHECK_DEADLOCK FALSE
