SPECIFICATION Spec
CONSTANTS
    Sources <- ConditionalSources
    Diagrams = {}
    Programs = {}
    Placements <- MCPlacements
    VerifyLimits = {2, 24}
    Scenarios <- MCScenarios
    Null = Null
    MaxDistance = 9
    MaxIterations = 3
    Length = 3
    LongLength = 4
    RoutedLength = 3
    ProgramLength = 2
    LongProgram = 4
    MaxExpansion = 2
INVARIANT RoutedIsFaithful
CHECK_DEADLOCK FALSE
