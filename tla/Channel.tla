-------------------------------- MODULE Channel --------------------------------
(***************************************************************************)
(* What a codec promises.  A content is put on the wire and taken off it   *)
(* again, any number of times, and stays what it is: writing and reading   *)
(* may refuse only what came from elsewhere or is beyond the promise.      *)
(***************************************************************************)
CONSTANTS
    Nothing,         \* what octets that were never read contain
    Promised(_)      \* the contents that the codec has to carry

VARIABLES place, content

Carried == content # Nothing /\ Promised(content)

Init ==
    \/ place = "value" /\ content # Nothing
    \/ place = "wire" /\ content = Nothing

Write ==
    /\ place = "value"
    /\ place' = "wire"
    /\ content' # Nothing
    /\ Carried => content' = content

Read ==
    /\ place = "wire"
    /\ place' = "value"
    /\ content' # Nothing
    /\ Carried => content' = content

\* The value is given another form.
Convert ==
    /\ place = "value"
    /\ place' = "value"
    /\ content' # Nothing
    /\ Carried => content' = content

Refuse ==
    /\ ~Carried
    /\ place' = "refused"
    /\ content' = content

Next == Write \/ Read \/ Convert \/ Refuse

Spec == Init /\ [][Next]_<<place, content>>
=============================================================================
