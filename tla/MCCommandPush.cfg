CONSTANTS
    c1 = c1
    a1 = a1  a2 = a2
    w1 = w1  w2 = w2
    m1 = m1  m2 = m2
    Command = {c1}
    Machine = {m1, m2}
    Agent = {a1, a2}
    Worker = {w1, w2}
    NoMachine = NoMachine
    NoAgent = NoAgent
    AgentMachine <- MCAMachineEach
    MaxWaiting = 1
    Locked = {m2}
SPECIFICATION FairSpec
INVARIANTS PushInv NoLostWakeup
PROPERTIES HeldIsAnswered CommandIsServed
