SPECIFICATION DispatchSpec
CONSTANTS
    r1 = r1  r2 = r2  q1 = q1  q2 = q2  l1 = l1
    Rule = {r1, r2}
    ActionsOf <- Handover
    ActivationsOf <- Activations
    Request = {q1}
    Ops = {"create", "activate", "deactivate", "delete"}
    Load = {l1}
    Modes = {"plane", "live"}
    OverlapAllowed = FALSE
    InOrder = TRUE
    MaxCalls = 3
    MaxCrashes = 1
    MaxDbFaults = 0
    MaxCandle = 1
 
PROPERTIES FiresOnlyWhenDue PickedUp 
CHECK_DEADLOCK FALSE
