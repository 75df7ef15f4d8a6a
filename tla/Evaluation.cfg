SPECIFICATION EvaluationSpec
CONSTANTS
    k1 = k1  k2 = k2  y1 = y1  r1 = r1  r2 = r2  r3 = r3
    Stream = {k1, k2}
    Symbol = {y1}
    SymbolOf <- OneSymbol
    Duration <- Durations
    MaxBuffer = 4
    Rule = {r1, r2, r3}
    SymbolOfRule <- OnePair
    Activators <- SomeActivators
    Warmup = 1
    MinSeed = 1
    Series <- SomeSeries
    Begin = 5
    MaxClock = 9
    MaxReloads = 2
    MaxLost = 1
    MaxSeedFaults = 1
INVARIANTS ClosedIsThePast EnoughCandles
PROPERTIES FiresWhenTrue
CHECK_DEADLOCK FALSE
