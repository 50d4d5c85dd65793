SPECIFICATION Spec
CONSTANTS
    Clients = {c1, c2}
    Ports = {p1, p2}
    Calls = {a1}
    MaxClients = 2
    MaxConns = 2
    MaxOthers = 1
    MaxReg = 1
    MaxInflight = 1
    WriteCap = 1
SYMMETRY Symmetry
INVARIANTS OwnersPresent ToldOfEvery ViewsTrue ApiFollows
