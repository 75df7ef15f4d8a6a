SPECIFICATION FairSpec
CONSTANTS
    c1 = c1  c2 = c2
    Call = {c1, c2}
    MaxNews = 2
    MaxFaults = 1
INVARIANTS OneInterval ShownAsAsked
 
CHECK_DEADLOCK FALSE
