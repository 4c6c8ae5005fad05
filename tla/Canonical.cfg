\* DER and CER: one accepted spelling of every value.
CONSTANTS
    Family = "canonical"
    Inputs <- FamilyInputs
    MaxNesting = 6
    FragmentSize = 2
SPECIFICATION Spec
INVARIANTS DerIsCanonical CerIsCanonical
