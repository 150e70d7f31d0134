SPECIFICATION Spec
CONSTANTS
    None = None
    Workspaces = {w1, w2}
    Codebases = {c1, c2, c3}
    Roots = {r1, r2}
    Ops = {o1, o2}
    MaxCrashes = 1
SYMMETRY IdentifierSymmetry
CHECK_DEADLOCK FALSE
INVARIANT AlwaysReloadable
