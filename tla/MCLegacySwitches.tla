-------------------------- MODULE MCLegacySwitches --------------------------
(***************************************************************************)
(* Two threads, a logger for each flag, two modules with a switch.         *)
(***************************************************************************)
EXTENDS LegacySwitches

MCFlagOf == [c \in Codecs |-> IF c = "ber.encoder" THEN "encoder" ELSE "decoder"]

\* Its printer is the caller's, or the default one, which pyasn1's records reach.
MCDebugs == {[flags |-> {"decoder"}, reaches |-> FALSE, on |-> TRUE],
             [flags |-> {"encoder", "decoder"}, reaches |-> TRUE, on |-> TRUE]}

MCRegistrations == {<<"m1", {"decoder"}>>, <<"m2", {"encoder"}>>, <<"m2", {"decoder"}>>}
=============================================================================
