SPECIFICATION FairSpec
CONSTANTS
    m1 = m1
    w1 = w1
    w2 = w2
    Nobody = Nobody
    Worker <- TwoPublishers
    Member <- OneMember
    Honest = FALSE
    MaxVersion = 3
CHECK_DEADLOCK FALSE
INVARIANT PublishedIsStored
INVARIANT FinalWordIsLast
PROPERTY NothingAfterReconfigure
PROPERTY PublishedMovesForward
PROPERTY LastWordIsPublished
