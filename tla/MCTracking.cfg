SPECIFICATION FairSpec
CONSTANTS
    w1 = w1
    w2 = w2
    p1 = p1
    road = road
    door = door
    NoPlace = NoPlace
    Slots = {w1, w2}
    Pods = {p1}
    Places <- OnRoadOrThere
    Door = door
    MaxUnsent = 1
    MaxFaults = 2
INVARIANTS ShownIsRecorded CalmLatestIsCurrent CalmSharingEnds
PROPERTY PositionArrives
CHECK_DEADLOCK FALSE
