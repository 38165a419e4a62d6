SPECIFICATION Spec
CONSTANTS
    Sources <- MCSources
    Diagrams <- MCDiagrams
    Placements <- MCPlacements
    Programs <- MCPrograms
    VerifyLimits = {2, 24}
    Scenarios <- MCScenarios
    Null = Null
    MaxDistance = 9
    MaxIterations = 3
    Length = 3
    LongLength = 4
    RoutedLength = 3
    ProgramLength = 3
    LongProgram = 4
    MaxExpansion = 2
INVARIANTS
    RewritesKeepMeaning
    DiagramsKeepTheirMap
    RoutedIsFaithful
    DiffIsMinimal
    CountsAgree
    ReadAsWritten
CHECK_DEADLOCK FALSE
