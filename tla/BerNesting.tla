------------------------------ MODULE BerNesting ------------------------------
(***************************************************************************)
(* What the nesting limit of the decoder means for the values it decodes.  *)
(***************************************************************************)
EXTENDS BerCanonical

\* What one call further inside a value reads: the value under its outermost
\* tag, or its components.
Inside(v) ==
    IF Len(v.tags) > 1 THEN {[v EXCEPT !.tags = SubSeq(@, 1, Len(@) - 1)]}
    ELSE {v.kids[i] : i \in DOMAIN v.kids}

InsideAll(values) == UNION {Inside(v) : v \in values}

\* What is read n calls inside of v; v takes at most n calls if that is nothing.
InsideAt(v, n) ==
    LET at[k \in 0..n] == IF k = 0 THEN {v} ELSE InsideAll(at[k - 1])
    IN  at[n]

(***************************************************************************)
(* MAX_NESTING_DEPTH bounds the calls a value takes, explicit tags         *)
(* included, and nothing is refused for its depth that stays under it.  A  *)
(* value right at the limit may be refused: looking for the end-of-octets  *)
(* of its innermost container takes one more call.  So do the fragments of *)
(* a constructed string, however deep they nest, of which the value keeps  *)
(* no trace: the second half leaves inputs with such strings out.          *)
(***************************************************************************)
NestingIsBounded ==
    /\ status = "value" => InsideAt(result.val, MaxNesting + 1) = {}
    /\ status = "nesting" /\ HasNoConstructedString(input) =>
           \A q \in 1..End(input) : \A v \in Values(input, 1, q, End(input)) :
               InsideAt(v, MaxNesting) # {}
=============================================================================
