CONSTANTS
    Command = {c1, c2, c3}
    Machine = {m1, m2}
    Agent = {a1}
    Deployment = {d1}
    NoMachine = NoMachine
    NoAgent = NoAgent
    NoCommand = NoCommand
    NoInstall = NoInstall
    MaxAttempts = 1
    MaxRetries = 0
    Duplicate = {m2}
    Operations = {"package"}
    Update = {u1, u2}
    Beat = {b1, b2}
    Old = {m2}
    PatchAttempts = 1
    PatchRetries = 1
    PatchFaults = TRUE
SPECIFICATION SchedulersSpec
SYMMETRY Alike
INVARIANTS DeployInv PatchInv AppliedIsGone
CHECK_DEADLOCK FALSE
