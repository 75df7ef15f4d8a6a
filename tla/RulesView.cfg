SPECIFICATION Spec
CONSTANTS
    u1 = u1 u2 = u2  q1 = q1  q2 = q2
    Uid = {u1, u2}
    NoUid = NoUid
    Text = {"low"}
    Call = {q1, q2}
    MaxEdits = 2
    MaxClicks = 3
    MaxTroubles = 1
INVARIANTS ShownIsTrue LatestSaveIsKept
PROPERTIES NoRevival DeletedStaysDeleted
CHECK_DEADLOCK FALSE
