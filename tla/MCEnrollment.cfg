CONSTANTS
    i1 = i1
    Install = {i1}
    NoInstall = NoInstall
    Machine = {m1, m2}
    NoMachine = NoMachine
    Code = {c1}
    NoCode = NoCode
    HasSecret = {i1}
    Worker = {w1, w2}
    MaxAgents = 2
    Strikes = 1
SPECIFICATION Spec
SYMMETRY Alike
INVARIANTS EnrollInv DeletedStaysGone ForgetIsFinal
