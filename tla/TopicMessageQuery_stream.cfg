SPECIFICATION TopicFairSpec
CONSTANTS
    Message = {"x", "y", "s", "z"}
    Topic <- MixedTopic
    StartTimes = {0, 1, 3}
    Limits = {0, 3, 5}
    MaxAttempts = 2
CHECK_DEADLOCK FALSE
INVARIANTS
    DeliveredOnce
    Assembled
    LimitConserved
    HandleCancelsStream
PROPERTIES
    Resumes
