SPECIFICATION Spec
CONSTANTS
    Clips = {c1}
    Callers = {k1, k2}
    Jobs = {j1, j2}
    MaxRestarts = 0
    Early = TRUE
    None = None
SYMMETRY Symmetry
INVARIANT ServedWhole
CHECK_DEADLOCK FALSE
