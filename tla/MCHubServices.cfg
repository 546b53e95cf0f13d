CONSTANTS
    Command = {c1, c2}
    Machine = {m1}
    Agent = {a1}
    NoAgent = NoAgent
    NoMachine = NoMachine
    Request = {r1}
    Pass = {p1, p2}
    NoRequest = NoRequest
    NoCommand = NoCommand
    Person = {ann, bob, cas}
    Visit = {v1, v2}
    MaxUses = 1
    Pinned = {}
    Tab = {t1, t2}
    MaxTyped = 4
    MaxPrinted = 3
    MaxTake = 2
    Window = 2
    MaxScreens = 1
    MaxLate = 1
SPECIFICATION ServicesSpec
INVARIANTS WakeInv InviteInv PtyInputInv PtyOutputInv
CHECK_DEADLOCK FALSE
