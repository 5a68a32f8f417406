SPECIFICATION ToolSpec
CONSTANTS
    WordSize = 8
    InlineMaxInst = 8
    ConstExecMaxSteps = 60
    Fuel = 30
    Jobs <- MCJobs
    Arguments <- MCArguments
    Bindings <- MCBindings
    Tables <- MCTables
    Saved <- MCSaved
    Bundled <- MCBundled
    Companion <- MCCompanion
    ZipLocalHeader = ZipLocalHeader
    ZipCentralHeader = ZipCentralHeader
    ZipEndHeader = ZipEndHeader
INVARIANTS VerifiedStaysInside OutputVerifies MeaningKept CompiledMeansSame FileIsWholeOrRefused
CHECK_DEADLOCK FALSE
