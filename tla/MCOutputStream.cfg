CONSTANTS
    MaxPieces = 3
    Retries = 2
    Cap = 1
    MaxPosts = 2
    MaxPolls = 1
    TabSwitches = TRUE
SPECIFICATION FairSpec
INVARIANTS StreamInv CapIsVisible
PROPERTIES ResultFollows WatchEnds
CHECK_DEADLOCK FALSE
