SPECIFICATION Spec
CONSTANTS
    o1 = o1  o2 = o2  o3 = o3
    Id = {o1, o2, o3}
    Price = {2, 3}
    Quantity <- SomeQuantities
    Stake = 4
    Funds <- SomeFunds
    MinQty = 2
    MaxQty = 3
    Fee = 1
    MarketKnown = {TRUE, FALSE}
SYMMETRY Symmetry
  
PROPERTIES AnticipationIsKept
CHECK_DEADLOCK FALSE
