SPECIFICATION Spec
CONSTANTS
  Captures = {p1, p2}
  Uploads = {u1, u2}
  Circuits <- MCCircuits
  Truth <- MCTruth
  Size <- MCSize
  Scale = 8
  Slack = 1
  Baselines <- MCBaselines
  Policies <- MCPolicies
  Nothing = Nothing
SYMMETRY Symmetry
INVARIANTS TypeOK VerdictIsSound CaptureExitIsTrue UploadedAsReviewed UploadIsTrue
PROPERTY EvidenceIsKept
CHECK_DEADLOCK FALSE
