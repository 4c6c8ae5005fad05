------------------------- MODULE MCConstructedValue -------------------------
(* Instances of ConstructedValue for TLC. *)
EXTENDS ConstructedValue

FieldOf(schema, omission) == [schema |-> schema, omission |-> omission]

\* Numbers ::= SEQUENCE OF INTEGER
\* Flags   ::= SEQUENCE { flag INTEGER OPTIONAL }
\* Either  ::= CHOICE { number INTEGER, flags Flags }
\* Both    ::= SEQUENCE { either Either OPTIONAL, default Numbers DEFAULT {1} }
SmallSchemas ==
    [Numbers |-> [kind |-> "of", fields |-> <<FieldOf(Scalar(0), "required")>>],
     Flags   |-> [kind |-> "record", fields |-> <<FieldOf(Scalar(0), "optional")>>],
     Either  |-> [kind |-> "choice",
                  fields |-> <<FieldOf(Scalar(0), "required"), FieldOf(Ref(1), "required")>>],
     Both    |-> [kind |-> "record",
                  fields |-> <<FieldOf(Ref(3), "optional"), FieldOf(Ref(2), "default")>>]]

SmallPrototypes ==
    <<Fresh("Flags"),
      [Fresh("Numbers") EXCEPT !.isSchema = FALSE, !.comps = <<Scalar(1)>>],
      Fresh("Either")>>
=============================================================================
