SPECIFICATION Spec
CONSTANTS
    buy = buy  sell = sell  c1 = c1  c2 = c2  c3 = c3  k1 = k1  k2 = k2  coin = coin
    NoUid = NoUid  NoObj = NoObj
    Call = {c1}
    Cron = {k1}
    Action <- OneBuy
    Candle = {1}
    Pair = {coin}
    PairOf <- MCPairOf
    SideOf <- MCSideOf
    Lots = {1}
    Modes = {"live"}
    OverlapAllowed = TRUE
    MaxExchangeOrders = 2
    MaxCrashes = 0
    MaxDbFaults = 0
    MaxNetFaults = 0
INVARIANTS SubmittedOnce
