CONSTANTS
    Query = {q1, q2, q3, q4}
    QueueDepth = 2
    MaxBatch = 2
    MaxPublishes = 1
SPECIFICATION FairSpec
INVARIANTS TypeOK HeldOnce
PROPERTIES ImplementsQueryService EveryQueryAnswered
