SPECIFICATION FairSpec
CONSTANTS
    c1 = c1  c2 = c2
    Conn = {c1, c2}
    NoConn = NoConn
    Page = {"rules", "account"}
    MaxTick = 2
    MaxTimers = 2
    MaxFaults = 1
INVARIANTS OneConnection UnusedIsClosed
PROPERTIES PricesInOrder StreamComesBack DeadClientsLeave
CHECK_DEADLOCK FALSE
