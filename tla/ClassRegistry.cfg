CONSTANTS
    MaxClass = 5
    MaxBases = 2
    Modules <- MCModules
SPECIFICATION Spec
INVARIANTS MroExtendsInheritance MroKeepsLocalOrder MroMonotonic MroFailsOnlyOnConflict MostSpecificWins LoadResolves CompiledDispatchSame
PROPERTY LoadEnds
CHECK_DEADLOCK FALSE
