\* Three objects: two derivations of one class, or of two.
CONSTANTS
    Declared <- MCDeclared
    Specs <- MCSpecs
    Tags <- MCTags
    Recovered <- MCRecovered
    Payloads <- MCPayloads
    Scalars <- MCScalars
    MaxTypes = 3
SPECIFICATION Spec
CHECK_DEADLOCK FALSE
INVARIANT SubtypesNarrow
INVARIANT ValuesFitTheirLineage
INVARIANT SupertypesAreSound
INVARIANT TagsKeepTheirForm
INVARIANT DifferenceIsStored
