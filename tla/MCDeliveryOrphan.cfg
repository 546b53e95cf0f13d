CONSTANTS
    c1 = c1  c2 = c2
    a1 = a1  a2 = a2
    w1 = w1  w2 = w2
    pc1 = pc1
    Command = {c1}
    Machine = {pc1}
    Agent = {a1}
    Worker = {w1, w2}
    NoMachine = NoMachine
    NoAgent = NoAgent
    NoWorker = NoWorker
    AgentMachine <- MCAgentMachine
    Control = {}
    MaxConcurrent = 1
    Faults = TRUE
SPECIFICATION Spec
INVARIANTS NoOrphanResult
CHECK_DEADLOCK FALSE
