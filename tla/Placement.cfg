\* Schemas of at most three fields, wires of at most four components.
CONSTANTS
    Tags = {1, 2, 3}
    SelfDescribing = {1, 2}
    Choices = {{1, 3}}
    MaxFields = 3
    MaxWire = 4
    Inputs <- SmallInputs
SPECIFICATION Spec
INVARIANTS TypeOK PlacedAsTheSchemaSays AcceptsTheSchema OnlyExcessEscapes
