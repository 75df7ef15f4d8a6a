SPECIFICATION Spec
CONSTANTS
    buy = buy  sell = sell  c1 = c1  c2 = c2  c3 = c3  k1 = k1  k2 = k2  coin = coin
    NoUid = NoUid  NoObj = NoObj
    Call = {c1, c2}
    Cron = {k1, k2}
    Action <- BuyAndSell
    Candle = {1}
    Pair = {coin}
    PairOf <- MCPairOf
    SideOf <- MCSideOf
    Lots = {1, 2}
    Modes = {"live"}
    OverlapAllowed = FALSE
    MaxExchangeOrders = 3
    MaxCrashes = 1
    MaxDbFaults = 0
    MaxNetFaults = 1
SYMMETRY Symmetry
INVARIANTS TypeOK SubmittedOnce ActiveRowIsTracked ClosedFillsAreHeld
PROPERTIES TerminalIsFinal
