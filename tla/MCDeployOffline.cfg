CONSTANTS
    c1 = c1  c2 = c2  c3 = c3  c4 = c4  c5 = c5
    m1 = m1  m2 = m2
    d1 = d1  a1 = a1
    Command = {c1, c2}
    Machine = {m1}
    Agent = {a1}
    Deployment = {d1}
    NoMachine = NoMachine
    NoAgent = NoAgent
    NoCommand = NoCommand
    MaxAttempts = 2
    MaxRetries = 0
    Duplicate = {}
    Operations = {}
SPECIFICATION HubFairSpec
PROPERTY TargetsEnd
CHECK_DEADLOCK FALSE
