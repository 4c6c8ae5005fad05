------------------------- MODULE MCComponentPlacement -------------------------
(* Instances of ComponentPlacement for TLC. *)
EXTENDS ComponentPlacement

CONSTANTS
    MaxFields,   \* bound: fields of a schema
    MaxWire,     \* bound: components on the wire
    Choices      \* tag sets of CHOICE fields

FieldsOf(accepted) == [tags : accepted, omissible : BOOLEAN]

\* Every schema of at most MaxFields fields, and every wire.
SmallInputs ==
    [isSet : BOOLEAN, form : Forms,
     fields : UNION {[1..n -> FieldsOf({{t} : t \in Tags} \cup Choices)] : n \in 0..MaxFields},
     wire : UNION {[1..n -> Tags] : n \in 0..MaxWire}]
=============================================================================
