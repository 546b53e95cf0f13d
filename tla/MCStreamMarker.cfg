CONSTANTS
    MaxPieces = 3
    Retries = 3
    Cap = 2
    MaxPosts = 2
    MaxPolls = 1
    TabSwitches = FALSE
SPECIFICATION Spec
INVARIANT MarkerIsBeyond
CHECK_DEADLOCK FALSE
