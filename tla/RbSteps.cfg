SPECIFICATION GrowSpec
CONSTANTS
    Sentinel = Sentinel
    Null = Null
    HalfRange = 4
    e1 = e1
    e2 = e2
    e3 = e3
    e4 = e4
    e5 = e5
    e6 = e6
    e7 = e7
    e8 = e8
    e9 = e9
    e10 = e10
    Ev <- TenNodes
    MaxNodes = 10
    Keys = {1,2,3}
INVARIANTS TypeOK TreeLinked TreeBalanced TreeOrdered
PROPERTIES FirstIsTaken
