SPECIFICATION Spec
CONSTANTS
    Player = {p1, p2, p3}
    Fixture = {1, 2}
    GameweekOf <- MCGameweekOf
    Served = {1}
    Cap = 2
    Final = 2
    MaxRuns = 2
INVARIANTS
    GradedOnFinalRows
SYMMETRY MCSymmetry
