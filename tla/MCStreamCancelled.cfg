CONSTANTS
    MaxPieces = 2
    Retries = 3
    Cap = 5
    MaxPosts = 2
    MaxPolls = 1
    TabSwitches = FALSE
SPECIFICATION Spec
INVARIANT DropsAreEarned
CHECK_DEADLOCK FALSE
