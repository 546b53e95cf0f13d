CONSTANTS
    c1 = c1  c2 = c2  c3 = c3  c4 = c4  c5 = c5
    m1 = m1  m2 = m2
    d1 = d1  a1 = a1
    Command = {c1, c2, c3}
    Machine = {m1, m2}
    Agent = {a1}
    Deployment = {d1}
    NoMachine = NoMachine
    NoAgent = NoAgent
    NoCommand = NoCommand
    MaxAttempts = 1
    MaxRetries = 1
    Duplicate = {m2}
    Operations = {"retry"}
SPECIFICATION FaultySpec
INVARIANT CompleteIsOver
CHECK_DEADLOCK FALSE
