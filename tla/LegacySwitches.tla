---------------------------- MODULE LegacySwitches ----------------------------
(***************************************************************************)
(* The deprecated debug switches (pyasn1/debug.py): Debug(), setLogger()   *)
(* and registerLoggee(), called by threads while the application sets      *)
(* logger levels.  setLogger() works under a lock, logger by logger;       *)
(* registerLoggee() writes LOGGEE_MAP and reads _LOG before it asks for    *)
(* that lock.  The order in which loggers and loggees are visited is left  *)
(* open: none of the properties depends on it.                             *)
(***************************************************************************)
EXTENDS Integers, FiniteSets

CONSTANTS
    Threads,
    Codecs, Flags, FlagOf,    \* FLAG_LOGGER_MAP, the other way round
    Debugs,                   \* Debug objects: their flags, and reaches:
                              \* _reaches_pyasn1_logger(printer)
    Modules,                  \* out-of-tree modules with a debug switch
    Registrations,            \* what they register: a module and its flags
    Levels, AppLevels,        \* logger levels; those the application sets
    MaxCalls, MaxSettings     \* bounds: calls, and the application's setLevel

Root == "pyasn1"
Loggers == Codecs \cup {Root}
Off == [flags |-> {}, reaches |-> FALSE, on |-> FALSE]   \* DEBUG_NONE
Free == "free"

ASSUME NamesAssumption == Root \notin Codecs /\ Free \notin Threads
ASSUME FlagsAssumption == FlagOf \in [Codecs -> Flags]
ASSUME DebugsAssumption ==
    Debugs \subseteq [flags : SUBSET Flags, reaches : BOOLEAN, on : {TRUE}]
ASSUME RegistrationsAssumption == Registrations \subseteq Modules \X SUBSET Flags
ASSUME LevelsAssumption == {"NOTSET", "DEBUG", "INFO"} \cup AppLevels \subseteq Levels

VARIABLES
    lock, printerLock,  \* _setLoggerLock, _defaultPrinterLock: their holders
    log,                \* _LOG
    saved,              \* _savedLevels
    level,              \* the levels of the loggers
    bridges,            \* the bridge handlers of the pyasn1 logger
    loggees, switch,    \* LOGGEE_MAP, and the attributes it is about
    defaultPrinter,     \* how many handlers default printers have attached
    pc,                 \* the next step of each thread
    arg,                \* userLogger
    left,               \* loggers or loggees it has yet to visit
    due,                \* the setLevel() it is about to make, if any
    size,               \* of LOGGEE_MAP when its loop over it began
    calls, settings,    \* how many calls and settings were made
    wanted              \* history: the level the application chose for each
                        \* logger

vars == <<lock, printerLock, log, saved, level, bridges, loggees, switch,
          defaultPrinter, pc, arg, left, due, size, calls, settings, wanted>>

legacy == <<log, saved, bridges, loggees, switch>>
printing == <<printerLock, defaultPrinter>>
application == <<calls, settings, wanted>>

locals == <<arg, left, due, size>>

At(t, step) == pc[t] = step

Go(t, step) == pc' = [pc EXCEPT ![t] = step]

Init ==
    /\ lock = Free /\ printerLock = Free
    /\ log = Off
    /\ saved = [n \in {} |-> Off]
    /\ level = [n \in Loggers |-> "NOTSET"] /\ wanted = level
    /\ bridges = {}
    /\ loggees = [m \in {} |-> {}]
    /\ switch = [m \in Modules |-> Off]
    /\ defaultPrinter = 0
    /\ pc = [t \in Threads |-> "idle"]
    /\ arg = [t \in Threads |-> Off]
    /\ left = [t \in Threads |-> {}] /\ due = left
    /\ size = [t \in Threads |-> 0]
    /\ calls = 0 /\ settings = 0

-----------------------------------------------------------------------------
(* The calls.                                                              *)

Begin(t, step) ==
    /\ At(t, "idle") /\ calls < MaxCalls
    /\ Go(t, step)
    /\ calls' = calls + 1
    /\ UNCHANGED <<lock, printing, log, saved, level, bridges, switch, left, due,
                   size, settings, wanted>>

SetLogger(t) ==
    /\ Begin(t, "acquire")
    /\ \E d \in Debugs \cup {Off} : arg' = [arg EXCEPT ![t] = d]
    /\ UNCHANGED <<loggees>>

\* registerLoggee() puts its module down, and reads _LOG in another step.
RegisterLoggee(t) ==
    /\ Begin(t, "read")
    /\ \E r \in Registrations :
          loggees' = [m \in DOMAIN loggees \cup {r[1]} |-> IF m = r[1] THEN r[2] ELSE loggees[m]]
    /\ UNCHANGED arg

ReadLog(t) ==
    /\ At(t, "read")
    /\ arg' = [arg EXCEPT ![t] = log]
    /\ Go(t, "acquire")
    /\ UNCHANGED <<lock, printing, legacy, level, left, due, size, application>>

Acquire(t) ==
    /\ At(t, "acquire") /\ lock = Free
    /\ lock' = t
    /\ Go(t, "unbridge")
    /\ UNCHANGED <<printing, legacy, level, locals, application>>

\* _restoreLoggers(): the handler, then the levels, one after the other.
Unbridge(t) ==
    /\ At(t, "unbridge")
    /\ bridges' = {}
    /\ Go(t, "restore")
    /\ UNCHANGED <<lock, printing, log, saved, level, loggees, switch, locals, application>>

\* A level is changed in a step of its own: the loggers are the application's
\* too, and it takes no lock.
ChangeLevel(t) ==
    /\ \E p \in due[t] : level' = [level EXCEPT ![p[1]] = p[2]]
    /\ due' = [due EXCEPT ![t] = {}]
    /\ UNCHANGED <<lock, printing, legacy, pc, arg, left, size, application>>

\* Mutant: levels are put back without being forgotten.
RestoreKeeping(t) ==
    /\ At(t, "restore") /\ due[t] = {}
    /\ \/ \E n \in DOMAIN saved :
             /\ level[n] # saved[n]
             /\ due' = [due EXCEPT ![t] = {<<n, saved[n]>>}]
             /\ UNCHANGED pc
       \/ (\A n \in DOMAIN saved : level[n] = saved[n]) /\ Go(t, "log") /\ UNCHANGED due
    /\ UNCHANGED <<lock, printing, legacy, level, arg, left, size, application>>

\* popitem(): what was saved is forgotten before the logger has it back.
Restore(t) ==
    /\ At(t, "restore") /\ due[t] = {}
    /\ \/ \E n \in DOMAIN saved :
             /\ saved' = [k \in DOMAIN saved \ {n} |-> saved[k]]
             /\ due' = [due EXCEPT ![t] = {<<n, saved[n]>>}]
             /\ UNCHANGED pc
       \/ DOMAIN saved = {} /\ Go(t, "log") /\ UNCHANGED <<saved, due>>
    /\ UNCHANGED <<lock, printing, log, bridges, loggees, switch, level, arg, left, size,
                   application>>

\* Mutant: where _LOG stays what it was, the levels are taken to be right.
SetLogAnew(t) ==
    /\ At(t, "log")
    /\ log' = arg[t]
    /\ left' = [left EXCEPT ![t] = Codecs]
    /\ Go(t, IF log'.on /\ log' # log THEN "levels" ELSE "loop")
    /\ UNCHANGED <<lock, printing, saved, level, bridges, loggees, switch, arg, due, size, application>>

\* _LOG is rebound; what follows depends on whether it is a Debug object.
SetLog(t) ==
    /\ At(t, "log")
    /\ log' = arg[t]
    /\ left' = [left EXCEPT ![t] = Codecs]
    /\ Go(t, IF log'.on THEN "levels" ELSE "loop")
    /\ UNCHANGED <<lock, printing, saved, level, bridges, loggees, switch, arg, due, size, application>>

\* A category that is off is pinned above DEBUG.
Pinned(d, n) == IF FlagOf[n] \in d.flags THEN "DEBUG" ELSE "INFO"

\* What the logger has is read and saved; nobody else looks at _savedLevels.
Override(t, n, l) ==
    /\ saved' = [k \in DOMAIN saved \cup {n} |-> IF k = n THEN level[n] ELSE saved[k]]
    /\ due' = [due EXCEPT ![t] = {<<n, l>>}]

RaiseLevel(t) ==
    /\ At(t, "levels") /\ due[t] = {}
    /\ \E n \in left[t] :
          /\ Override(t, n, Pinned(log, n))
          /\ left' = [left EXCEPT ![t] = @ \ {n}]
    /\ UNCHANGED <<lock, printing, log, level, bridges, loggees, switch, pc, arg, size,
                   application>>

\* Records reach a printer of the caller's own through a handler, which is
\* attached once the level of the pyasn1 logger is set.
Bridge(t) ==
    /\ At(t, "levels") /\ left[t] = {} /\ due[t] = {}
    /\ IF log.reaches THEN Go(t, "loop") /\ UNCHANGED <<saved, due>>
       ELSE Go(t, "attach") /\ Override(t, Root, "DEBUG")
    /\ UNCHANGED <<lock, printing, log, level, bridges, loggees, switch, arg, left, size,
                   application>>

Attach(t) ==
    /\ At(t, "attach") /\ due[t] = {}
    /\ bridges' = bridges \cup {log}
    /\ Go(t, "loop")
    /\ UNCHANGED <<lock, printing, log, saved, level, loggees, switch, locals, application>>

\* The loop over LOGGEE_MAP.items() begins ...
Loop(t) ==
    /\ At(t, "loop")
    /\ left' = [left EXCEPT ![t] = DOMAIN loggees]
    /\ size' = [size EXCEPT ![t] = Cardinality(DOMAIN loggees)]
    /\ Go(t, "loggees")
    /\ UNCHANGED <<lock, printing, legacy, level, arg, due, application>>

\* ... and raises RuntimeError once the map has grown.
Grown(t) == Cardinality(DOMAIN loggees) # size[t]

SwitchFor(d, flags) == IF d.flags \cap flags # {} THEN d ELSE Off

UpdateLoggee(t) ==
    /\ At(t, "loggees") /\ ~Grown(t)
    /\ \E m \in left[t] :
          /\ switch' = [switch EXCEPT ![m] = SwitchFor(log, loggees[m])]
          /\ left' = [left EXCEPT ![t] = @ \ {m}]
    /\ UNCHANGED <<lock, printing, log, saved, level, bridges, loggees, pc, arg, due, size,
                   application>>

\* The frame of setLogger() or registerLoggee() goes.
Leave(t) ==
    /\ Go(t, "idle")
    /\ arg' = [arg EXCEPT ![t] = Off]
    /\ left' = [left EXCEPT ![t] = {}]
    /\ size' = [size EXCEPT ![t] = 0]

\* Mutant: the lock is not given back when the loop raises.
ReturnHolding(t) ==
    /\ At(t, "loggees")
    /\ Grown(t) \/ left[t] = {}
    /\ lock' = IF Grown(t) THEN lock ELSE Free
    /\ Leave(t)
    /\ UNCHANGED <<printing, legacy, level, due, application>>

\* Either way the lock is released.
Return(t) ==
    /\ At(t, "loggees")
    /\ Grown(t) \/ left[t] = {}
    /\ lock' = Free
    /\ Leave(t)
    /\ UNCHANGED <<printing, legacy, level, due, application>>

-----------------------------------------------------------------------------
(* The default printer, and the application.                               *)

NewDebug(t) ==
    /\ Begin(t, "printer")
    /\ UNCHANGED <<loggees, arg>>

\* What a thread that has popped the level of n is about to give back to it.
GivenBack(n) ==
    IF n \in DOMAIN saved THEN {} ELSE {l \in Levels : \E t \in Threads : <<n, l>> \in due[t]}

\* setLogger() overrides the levels of the application while it is in effect:
\* from the saving of a level until it is back.
InEffect(n) == n \in DOMAIN saved \/ GivenBack(n) # {}

Chosen(n, l) == IF InEffect(n) THEN wanted ELSE [wanted EXCEPT ![n] = l]

\* Mutant: the lock is not asked for.
TakePrinterUnlocked(t) ==
    /\ At(t, "printer")
    /\ Go(t, IF defaultPrinter = 0 THEN "build" ELSE "built")
    /\ UNCHANGED <<lock, printing, legacy, level, locals, application>>

TakePrinter(t) ==
    /\ At(t, "printer") /\ printerLock = Free
    /\ printerLock' = t
    /\ Go(t, IF defaultPrinter = 0 THEN "build" ELSE "built")
    /\ UNCHANGED <<lock, defaultPrinter, legacy, level, locals, application>>

\* Printer(): the pyasn1 logger gets a level and a handler.
BuildPrinter(t) ==
    /\ At(t, "build")
    /\ defaultPrinter' = defaultPrinter + 1
    /\ level' = [level EXCEPT ![Root] = "DEBUG"]
    /\ wanted' = Chosen(Root, "DEBUG")
    /\ Go(t, "built")
    /\ UNCHANGED <<lock, printerLock, legacy, locals, calls, settings>>

DropPrinter(t) ==
    /\ At(t, "built")
    /\ printerLock' = Free
    /\ Go(t, "idle")
    /\ UNCHANGED <<lock, defaultPrinter, legacy, level, locals, application>>

\* logging.getLogger(n).setLevel(l): where a level is overridden this is lost.
SetLevel ==
    /\ settings < MaxSettings
    /\ \E n \in Loggers, l \in AppLevels :
          /\ level' = [level EXCEPT ![n] = l]
          /\ wanted' = Chosen(n, l)
    /\ settings' = settings + 1
    /\ UNCHANGED <<lock, printing, legacy, pc, locals, calls>>

Step(t) ==
    \/ ReadLog(t) \/ Acquire(t) \/ Unbridge(t) \/ Restore(t) \/ SetLog(t)
    \/ RaiseLevel(t) \/ ChangeLevel(t) \/ Bridge(t) \/ Attach(t) \/ Loop(t) \/ UpdateLoggee(t) \/ Return(t)
    \/ TakePrinter(t) \/ BuildPrinter(t) \/ DropPrinter(t)

Next ==
    \/ \E t \in Threads : SetLogger(t) \/ RegisterLoggee(t) \/ NewDebug(t) \/ Step(t)
    \/ SetLevel

\* A thread that is inside a call runs on.
Spec == Init /\ [][Next]_vars /\ \A t \in Threads : WF_vars(Step(t))

-----------------------------------------------------------------------------
(* Properties.                                                             *)

Quiet == \A t \in Threads : At(t, "idle")

\* What the loggers had is what the application chose: a level that setLogger()
\* installed is never taken for the application's and put back later, whatever
\* was switched on or off before, and by how many threads.  What the application
\* chooses while setLogger() is in effect is lost, as its docstring says; that
\* includes the moments when a level is saved and not yet replaced, and popped
\* and not yet put back.
LevelsAreKept ==
    \A n \in Loggers :
       IF InEffect(n)
       THEN wanted[n] \in IF n \in DOMAIN saved THEN {saved[n]} ELSE GivenBack(n)
       ELSE wanted[n] = level[n]

\* Between calls everything agrees with _LOG: the switches of all registered
\* modules, the one bridge, the loggers that are overridden.  A loop that
\* raised because a module registered itself is made good by that module.
SwitchesAgree ==
    Quiet =>
       /\ \A m \in DOMAIN loggees : switch[m] = SwitchFor(log, loggees[m])
       /\ bridges = IF log.on /\ ~log.reaches THEN {log} ELSE {}
       /\ DOMAIN saved = IF ~log.on THEN {} ELSE IF log.reaches THEN Codecs ELSE Loggers

\* First uses that race attach one handler to the pyasn1 logger, not two.
OneDefaultHandler == defaultPrinter <= 1

\* Every call returns: the locks are given back, on failure too, and nobody
\* holds one while waiting for the other.
CallsReturn == \A t \in Threads : ~At(t, "idle") ~> At(t, "idle")
=============================================================================
