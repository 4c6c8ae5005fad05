\* BER: a nesting limit the inputs reach; decoding comes to an end.
CONSTANTS
    Family = "depth"
    Inputs <- FamilyInputs
    MaxNesting = 1
    FragmentSize = 2
SPECIFICATION FairSpec
INVARIANTS TypeOK NestingIsBounded
PROPERTY Terminates
