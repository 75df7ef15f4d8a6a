SPECIFICATION Spec
CONSTANTS
    r1 = r1  r2 = r2  q1 = q1  q2 = q2  q3 = q3  l1 = l1  l2 = l2
    Rule = {r1, r2}
    ActivationsOf <- Handover
    Request = {q1}
    Ops = {"create", "edit", "activate", "deactivate", "delete"}
    Load = {l1}
    Modes = {"idle", "live"}
    OverlapAllowed = FALSE
    InOrder = FALSE
    MaxCalls = 2
    MaxCrashes = 1
    MaxDbFaults = 1
SYMMETRY Symmetry
INVARIANTS QuietEngineIsTable EvaluatesOnlyActive
CHECK_DEADLOCK FALSE
