CONSTANTS
    Hosts = {"web", "ios", "android"}
    Sizes <- TwoSizes
    Default <- SmallSize
    Cell = {"x"}
    MaxOps = 3
    MaxEvents = 2
    BLANK = BLANK
SPECIFICATION Spec
INVARIANT WritesLand
CHECK_DEADLOCK FALSE
