------------------------------ MODULE ScopeTrail ------------------------------
(***************************************************************************)
(* The trail of component names that debug records carry: debug.Scope, and *)
(* how the BER decoder and the native codecs push onto it and pop from it. *)
(*                                                                         *)
(* A context is a thread or an asyncio task.  Each has its own trail (a    *)
(* ContextVar) but all read the same logger levels, and all BER decodes    *)
(* share the module global _DEBUG, which any of them refreshes.            *)
(*                                                                         *)
(* A call is one activation of Decoder.__call__ (or of a native codec).    *)
(* Logging handlers, substrateFun callbacks and open-type resolution run   *)
(* application code inside a call, which may decode something else: that   *)
(* is a new top-level call on the same stack.  An exception unwinds to the *)
(* application code that made the innermost top-level call.                *)
(***************************************************************************)
EXTENDS Integers, Sequences

CONSTANTS
    Contexts,     \* threads and tasks
    Tokens,       \* names of ASN.1 types
    MaxCalls,     \* bound: calls in progress in one context
    MaxTrail      \* bound: trail length at which no more calls are made

ASSUME BoundsAssumption == MaxCalls \in Nat /\ MaxTrail \in Nat

Codecs == {"ber", "native"}

VARIABLES
    enabled,      \* LOG.isEnabledFor(logging.DEBUG) of each codec's logger
    debugFlag,    \* _DEBUG of pyasn1.codec.ber.decoder
    started,      \* the contexts that exist
    inherited,    \* the trail a context was created with
    trail,        \* _scopeTrail of each context
    calls         \* calls in progress in each context, innermost last

vars == <<enabled, debugFlag, started, inherited, trail, calls>>

\* at is the length of the trail when the call was made or chose its codec,
\* pushed says that it has entered its token, and clean that nothing it called
\* has raised.
NewCall(codec, top, st, at) ==
    [codec |-> codec, top |-> top, st |-> st, at |-> at, debugging |-> FALSE,
     pushed |-> FALSE, token |-> "", clean |-> TRUE]

InCall(c) == calls[c] # <<>>

Running(c) == calls[c][Len(calls[c])]

Replace(c, f) == [calls EXCEPT ![c][Len(calls[c])] = f]

Dropped(c) == SubSeq(calls[c], 1, Len(calls[c]) - 1)

\* Scope.push and Scope.pop.
Push(c, token) == trail' = [trail EXCEPT ![c] = Append(@, token)]

Pop(c) ==
    trail' = [trail EXCEPT ![c] =
                 IF @ = <<>> THEN @ ELSE SubSeq(@, 1, Len(@) - 1)]

HasRoom(c) ==
    c \in started /\ Len(calls[c]) < MaxCalls /\ Len(trail[c]) < MaxTrail

\* Application code is running in c, or is called out to from a codec.
AppRuns(c) == InCall(c) => Running(c).st \in {"tag", "value"}

-----------------------------------------------------------------------------
(* Contexts and levels.                                                    *)

NewThread(c) ==
    /\ c \notin started
    /\ started' = started \cup {c}
    /\ UNCHANGED <<enabled, debugFlag, inherited, trail, calls>>

NewTask(c, d) ==
    /\ c \in started /\ d \notin started
    /\ started' = started \cup {d}
    /\ trail' = [trail EXCEPT ![d] = trail[c]]
    /\ inherited' = [inherited EXCEPT ![d] = trail[c]]
    /\ UNCHANGED <<enabled, debugFlag, calls>>

\* The application, or setLogger(), moves a logger's level at any time.
SetLevel(codec, on) ==
    /\ enabled' = [enabled EXCEPT ![codec] = on]
    /\ UNCHANGED <<debugFlag, started, inherited, trail, calls>>

-----------------------------------------------------------------------------
(* The BER decoder.                                                        *)

Decode(c) ==
    /\ HasRoom(c) /\ AppRuns(c)
    /\ calls' = [calls EXCEPT ![c] =
                    Append(@, NewCall("ber", TRUE, "enter", Len(trail[c])))]
    /\ UNCHANGED <<enabled, debugFlag, started, inherited, trail>>

DecodeComponent(c) ==
    /\ HasRoom(c) /\ InCall(c)
    /\ Running(c).codec = "ber" /\ Running(c).st = "value"
    /\ calls' = [calls EXCEPT ![c] =
                    Append(@, NewCall("ber", FALSE, "snapshot", Len(trail[c])))]
    /\ UNCHANGED <<enabled, debugFlag, started, inherited, trail>>

RefreshDebug(c) ==
    /\ InCall(c) /\ Running(c).st = "enter"
    /\ debugFlag' = enabled["ber"]
    /\ calls' = Replace(c, [Running(c) EXCEPT !.st = "snapshot"])
    /\ UNCHANGED <<enabled, started, inherited, trail>>

SnapshotDebug(c) ==
    /\ InCall(c) /\ Running(c).st = "snapshot"
    /\ calls' = Replace(c, [Running(c) EXCEPT !.st = "tag", !.debugging = debugFlag])
    /\ UNCHANGED <<enabled, debugFlag, started, inherited, trail>>

\* Mutant: every return of a call that is debugging pops.
EndOfOctetsPopping(c) ==
    /\ InCall(c) /\ Running(c).st = "tag" /\ ~Running(c).top
    /\ calls' = [calls EXCEPT ![c] = Dropped(c)]
    /\ IF Running(c).debugging THEN Pop(c) ELSE UNCHANGED trail
    /\ UNCHANGED <<enabled, debugFlag, started, inherited>>

\* The end-of-octets sentinel returns before a token is pushed.
EndOfOctets(c) ==
    /\ InCall(c) /\ Running(c).st = "tag" /\ ~Running(c).top
    /\ calls' = [calls EXCEPT ![c] = Dropped(c)]
    /\ UNCHANGED <<enabled, debugFlag, started, inherited, trail>>

\* Mutant: a token is pushed whether or not the call is debugging.
ChooseCodecPushing(c, token) ==
    /\ InCall(c) /\ Running(c).st = "tag"
    /\ calls' = Replace(c, [Running(c) EXCEPT
                               !.st = "value", !.at = Len(trail[c]),
                               !.pushed = Running(c).debugging,
                               !.token = IF Running(c).debugging THEN token ELSE ""])
    /\ Push(c, IF Running(c).debugging THEN token ELSE "")
    /\ UNCHANGED <<enabled, debugFlag, started, inherited>>

ChooseCodec(c, token) ==
    /\ InCall(c) /\ Running(c).st = "tag"
    /\ calls' = Replace(c, [Running(c) EXCEPT
                               !.st = "value", !.at = Len(trail[c]),
                               !.pushed = Running(c).debugging,
                               !.token = IF Running(c).debugging THEN token ELSE ""])
    /\ IF Running(c).debugging THEN Push(c, token) ELSE UNCHANGED trail
    /\ UNCHANGED <<enabled, debugFlag, started, inherited>>

\* Mutant: _DEBUG is read again where the call leaves.
ReturnReadingFlag(c) ==
    /\ InCall(c) /\ Running(c).st = "value" /\ Running(c).codec = "ber"
    /\ calls' = [calls EXCEPT ![c] = Dropped(c)]
    /\ IF debugFlag THEN Pop(c) ELSE UNCHANGED trail
    /\ UNCHANGED <<enabled, debugFlag, started, inherited>>

Return(c) ==
    /\ InCall(c) /\ Running(c).st = "value" /\ Running(c).codec = "ber"
    /\ calls' = [calls EXCEPT ![c] = Dropped(c)]
    /\ IF Running(c).debugging THEN Pop(c) ELSE UNCHANGED trail
    /\ UNCHANGED <<enabled, debugFlag, started, inherited>>

\* The innermost top-level call ends with an exception.
Raise(c) ==
    /\ InCall(c) /\ Running(c).st \in {"tag", "value"}
    /\ \E k \in 1..Len(calls[c]) :
          /\ calls[c][k].top
          /\ \A i \in k + 1..Len(calls[c]) : ~calls[c][i].top
          /\ calls' = [calls EXCEPT ![c] =
                          [i \in 1..k - 1 |-> [@[i] EXCEPT !.clean = FALSE]]]
    /\ UNCHANGED <<enabled, debugFlag, started, inherited, trail>>

-----------------------------------------------------------------------------
(* The native codecs, which ask the logger again before they pop.          *)

NativeCall(c, token, top) ==
    /\ HasRoom(c)
    /\ IF top THEN AppRuns(c) ELSE InCall(c) /\ Running(c).codec = "native"
    /\ calls' = [calls EXCEPT ![c] =
                    Append(@, [NewCall("native", top, "value", Len(trail[c])) EXCEPT
                                  !.pushed = enabled["native"],
                                  !.token = IF enabled["native"] THEN token ELSE ""])]
    /\ IF enabled["native"] THEN Push(c, token) ELSE UNCHANGED trail
    /\ UNCHANGED <<enabled, debugFlag, started, inherited>>

NativeReturn(c) ==
    /\ InCall(c) /\ Running(c).codec = "native"
    /\ calls' = [calls EXCEPT ![c] = Dropped(c)]
    /\ IF enabled["native"] THEN Pop(c) ELSE UNCHANGED trail
    /\ UNCHANGED <<enabled, debugFlag, started, inherited>>

-----------------------------------------------------------------------------
Init ==
    /\ enabled \in [Codecs -> BOOLEAN]
    /\ debugFlag = FALSE
    /\ started = {}
    /\ inherited = [c \in Contexts |-> <<>>]
    /\ trail = [c \in Contexts |-> <<>>]
    /\ calls = [c \in Contexts |-> <<>>]

CodecStep ==
    \E c \in Contexts :
        \/ NewThread(c)
        \/ \E d \in Contexts : NewTask(c, d)
        \/ Decode(c) \/ DecodeComponent(c)
        \/ RefreshDebug(c) \/ SnapshotDebug(c)
        \/ EndOfOctets(c) \/ Return(c) \/ Raise(c)
        \/ \E token \in Tokens : ChooseCodec(c, token)
        \/ \E token \in Tokens, top \in BOOLEAN : NativeCall(c, token, top)
        \/ NativeReturn(c)

LevelStep == \E codec \in Codecs, on \in BOOLEAN : SetLevel(codec, on)

Next == CodecStep \/ LevelStep

Spec == Init /\ [][Next]_vars

\* No native call in progress.
NativeQuiet ==
    \A c \in Contexts : \A i \in 1..Len(calls[c]) : calls[c][i].codec # "native"

SettledLevelStep ==
    \E codec \in Codecs, on \in BOOLEAN :
        (codec = "native" => NativeQuiet) /\ SetLevel(codec, on)

(***************************************************************************)
(* Applications that move the native codecs' levels only between their     *)
(* calls.  The BER decoder's level moves at any time.                      *)
(***************************************************************************)
SettledSpec == Init /\ [][CodecStep \/ SettledLevelStep]_vars

-----------------------------------------------------------------------------
Call ==
    [codec : Codecs, top : BOOLEAN, st : {"enter", "snapshot", "tag", "value"},
     at : Nat, debugging : BOOLEAN, pushed : BOOLEAN,
     token : Tokens \cup {""}, clean : BOOLEAN]

TypeOK ==
    /\ enabled \in [Codecs -> BOOLEAN]
    /\ debugFlag \in BOOLEAN
    /\ started \subseteq Contexts
    /\ inherited \in [Contexts -> Seq(Tokens)]
    /\ trail \in [Contexts -> Seq(Tokens)]
    /\ calls \in [Contexts -> Seq(Call)]

(***************************************************************************)
(* No call loses its token to another one: while a call that pushed its    *)
(* token is in progress the token stays where the call put it, whatever    *)
(* other contexts, nested decodes, exceptions and level changes do, and a  *)
(* task never pops what it inherited.  This is the balance of push and pop *)
(* that the snapshot in Decoder.__call__ is there for.                     *)
(***************************************************************************)
TokensKept ==
    \A c \in Contexts :
        /\ \A i \in 1..Len(calls[c]) :
              calls[c][i].pushed =>
                  /\ calls[c][i].at < Len(trail[c])
                  /\ trail[c][calls[c][i].at + 1] = calls[c][i].token
        /\ Len(inherited[c]) <= Len(trail[c])
        /\ \A k \in 1..Len(inherited[c]) : trail[c][k] = inherited[c][k]

(***************************************************************************)
(* A call that returns leaves the trail as it found it: above the token of *)
(* a call there is nothing but the tokens of the calls it is making, until *)
(* one of those raises.  So a call pops exactly if it pushed, although     *)
(* _DEBUG and the levels may have moved in between.                        *)
(***************************************************************************)
NoResidue ==
    \A c \in Contexts : \A i \in 1..Len(calls[c]) :
        calls[c][i].clean =>
            LET top == calls[c][i].at + (IF calls[c][i].pushed THEN 1 ELSE 0)
            IN  IF i = Len(calls[c]) THEN Len(trail[c]) = top
                ELSE calls[c][i + 1].at = top
=============================================================================
