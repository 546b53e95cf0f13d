CONSTANTS
    c1 = c1  c2 = c2
    m1 = m1  m2 = m2
    a1 = a1
    Command = {c1, c2}
    Machine = {m1}
    Agent = {a1}
    NoMachine = NoMachine
    NoAgent = NoAgent
    NoCommand = NoCommand
    Operations = {"cancel", "delete", "payload"}
    Faults = TRUE
SPECIFICATION FlashSpec
PROPERTY FlashesEnd
CHECK_DEADLOCK FALSE
