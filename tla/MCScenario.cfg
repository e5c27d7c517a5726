SPECIFICATION Spec
CONSTANTS
    G = G
    D = D
    S1 = S1
    S2 = S2
    a = a
    b = b
    c = c
    Dmakers = {G, D, S1, S2}
    Generators = {G}
    Statefuls = {S1, S2}
    Stock = 2
    Cases = 2
    MaxFaults = 3
    Steps = {a, b, c}
    Plays <- ThePlays
INVARIANTS InOrder FirstTransition LeavesAfterPlaying
PROPERTIES ResolveEnds
