CONSTANT Objects <- MCObjects
SPECIFICATION FairSpec
INVARIANT MarksExactlyReachable
PROPERTY MarkTerminates
CHECK_DEADLOCK FALSE
