CONSTANTS
    i1 = i1
    Install = {i1}
    NoInstall = NoInstall
    Machine = {m1}
    NoMachine = NoMachine
    Code = {}
    NoCode = NoCode
    HasSecret = {i1}
    Worker = {w1, w2}
    MaxAgents = 3
    Strikes = 2
SPECIFICATION FairSpec
PROPERTIES DeletedReturns DoomedGoes
