\* BER: every value of the grammar, and nothing else, decodes.
CONSTANTS
    Family = "grammar"
    Inputs <- FamilyInputs
    MaxNesting = 6
    FragmentSize = 1
SPECIFICATION Spec
INVARIANTS WindowsNested EooOnlyWhenAsked DecodesTheGrammar
