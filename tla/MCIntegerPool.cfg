\* A pool of three integers, two callers, an init that may die at any point.
CONSTANTS
    Values = {1, 2, 3}
    Outside = {4}
    Callers = {c1, c2}
SPECIFICATION PoolSpec
INVARIANTS Unique Conservation
