SPECIFICATION Spec
CONSTANTS
    buy = buy  sell = sell  c1 = c1  c2 = c2  c3 = c3  k1 = k1  k2 = k2  coin = coin
    NoUid = NoUid  NoObj = NoObj
    Call = {c1, c2}
    Cron = {k1, k2}
    Action <- OneBuy
    Candle = {1}
    Pair = {coin}
    PairOf <- MCPairOf
    SideOf <- MCSideOf
    Lots = {1}
    Modes = {"live"}
    OverlapAllowed = TRUE
    MaxExchangeOrders = 2
    MaxCrashes = 1
    MaxDbFaults = 1
    MaxNetFaults = 1
SYMMETRY Symmetry
INVARIANTS UniqueInMemory PendingIsTrackable CreditedOnce PositionIsLedger
PROPERTIES LeavesOnlyWhenEnded
