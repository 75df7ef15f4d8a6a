SPECIFICATION FairSpec
CONSTANTS
    k1 = k1  k2 = k2  y1 = y1  l1 = l1  l2 = l2  s1 = s1  s2 = s2  s3 = s3
    Stream = {k1, k2}
    Symbol = {y1}
    SymbolOf <- OneSymbol
    Duration <- Durations
    Wants <- SomeWants
    MaxBuffer = 2
    Required = 3
    Socket = {s1, s2, s3}
    NoSocket = NoSocket
    MaxAttempts = 2
    MaxDrops = 2
    MaxRefusals = 1
    Load = {l1, l2}
    Modes = {"idle", "live"}
    MaxReloads = 1
    MaxClock = 3
    MaxWire = 1
    MaxSeedFaults = 1
INVARIANTS OnePath AtMostOnePartial
PROPERTIES SeenInOrder BufferIsBook FeedComesBack
CHECK_DEADLOCK FALSE
