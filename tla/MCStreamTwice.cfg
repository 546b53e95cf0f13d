CONSTANTS
    MaxPieces = 2
    Retries = 2
    Cap = 5
    MaxPosts = 2
    MaxPolls = 2
    TabSwitches = TRUE
SPECIFICATION Spec
INVARIANT PrintedInOrder
CHECK_DEADLOCK FALSE
