SPECIFICATION Spec
CONSTANTS
  Callers = {c1, c2, c3}
  Routed = {}
  Threshold = 1
  ResetTimeout = 2
  SuccessesToClose = 2
INVARIANTS OneProbeAtATime
