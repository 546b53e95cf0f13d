CONSTANTS
    c1 = c1  c2 = c2
    Command = {c1, c2, c3}
    Machine = {m1}
    Agent = {a1}
    NoMachine = NoMachine
    NoAgent = NoAgent
    NoCommand = NoCommand
    Operations = {"cancel"}
    Faults = TRUE
    Thread = {scheduler, request}
    Scheduler = scheduler
    Post = {p1, p2}
    NoBackup = NoBackup
    KeepChains = 1
    FullEvery = 2
    MaxRuns = 3
    MaxVersion = 2
    MaxSecond = 5
    MaxTries = 2
    MaxCancels = 1
    MaxFaults = 1
SPECIFICATION UpkeepSpec
SYMMETRY Alike
INVARIANT NothingMissedAlways
CHECK_DEADLOCK FALSE
