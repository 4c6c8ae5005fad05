\* A SEQUENCE, a CHOICE and SEQUENCE OFs that are read, written and cloned.
CONSTANTS
    Schemas <- SmallSchemas
    Prototypes <- SmallPrototypes
    Numbers = {1}
    MaxNew = 4
    MaxCloned = 6
    MaxObjects = 7
    MaxLength = 2
    MaxWide = 5
SPECIFICATION Spec
INVARIANTS TypeOK PrototypesUntouched NoHiddenSharing ClonesMeanTheSame
PROPERTY ReadingMeansNothing
