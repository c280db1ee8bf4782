SPECIFICATION Spec
CONSTANTS
    Callers = {c1, c2}
    Subjects = {s1}
    Costs = {1, 2}
    Rate = 1
    Burst = 2
    Floor = 0
    Scale = 5
    PerSec = 2
    Word = 16
    MaxMs = 4
INVARIANT RateBoundAlways
