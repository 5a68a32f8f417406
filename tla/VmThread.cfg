CONSTANTS
    None = None
    MaxTrace = 12
    Codes <- MCCodes
SPECIFICATION Spec
INVARIANTS FramesTellCallChain DoesWhatItMeans
PROPERTY Terminates
CHECK_DEADLOCK FALSE
