SPECIFICATION Spec
CONSTANTS
    Null = Null
    MaxDistance = 9
    MaxSteps = 2
    Workloads <- MCWorkloads
    Baselines <- MCBaselines
    PresetOptions <- MCPresetOptions
    Selections <- MCSelections
    Changes <- MCChanges
INVARIANTS
    StatusIsEarned
    ThresholdsAgree
    PanelsAgree
    EditsAreSeen
CHECK_DEADLOCK FALSE
