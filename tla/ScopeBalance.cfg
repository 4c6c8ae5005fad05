\* Two contexts, nested decodes, exceptions and levels that move.
CONSTANTS
    Contexts = {c1, c2}
    Tokens = {Sequence, Integer}
    MaxCalls = 2
    MaxTrail = 2
SYMMETRY Symmetry
SPECIFICATION SettledSpec
INVARIANTS TypeOK TokensKept NoResidue
