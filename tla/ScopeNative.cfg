\* A level that moves while a native codec runs.
CONSTANTS
    Contexts = {c1, c2}
    Tokens = {Sequence, Integer}
    MaxCalls = 2
    MaxTrail = 2
SYMMETRY Symmetry
SPECIFICATION Spec
INVARIANT TokensKept
