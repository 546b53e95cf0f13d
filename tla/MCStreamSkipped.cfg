CONSTANTS
    MaxPieces = 3
    Retries = 2
    Cap = 5
    MaxPosts = 2
    MaxPolls = 1
    TabSwitches = FALSE
SPECIFICATION Spec
INVARIANT NothingSkipped
CHECK_DEADLOCK FALSE
