------------------------ MODULE LegacySwitchesProofs ------------------------
(***************************************************************************)
(* Proofs about LegacySwitches, for any threads, loggers, modules and      *)
(* Debug objects and any number of calls.  The inductive invariant says    *)
(* how far the thread that holds the lock has come, and who will bring a   *)
(* module's switch up to date that is not.                                 *)
(***************************************************************************)
EXTENDS LegacySwitches, TLAPS

\* Critical: what is done under _setLoggerLock.
Critical == {"unbridge", "restore", "log", "levels", "attach", "loop", "loggees"}
Steps == Critical \cup {"idle", "read", "acquire", "printer", "build", "built"}

TypeOK ==
    /\ pc \in [Threads -> Steps]
    /\ arg \in [Threads -> Debugs \cup {Off}]
    /\ left \in [Threads -> SUBSET (Codecs \cup Modules)]
    /\ due \in [Threads -> SUBSET (Loggers \X Levels)]
    /\ size = [t \in Threads |-> size[t]]
    /\ log \in Debugs \cup {Off}
    /\ level \in [Loggers -> Levels] /\ wanted \in [Loggers -> Levels]
    /\ DOMAIN saved \subseteq Loggers /\ saved \in [DOMAIN saved -> Levels]
    /\ DOMAIN loggees \subseteq Modules
    /\ switch = [m \in Modules |-> switch[m]]

Locked ==
    /\ \A t \in Threads : pc[t] \in Critical <=> lock = t
    /\ lock \in Threads \cup {Free}
    /\ \A t \in Threads : pc[t] \in {"build", "built"} <=> printerLock = t
    /\ defaultPrinter \in {0, 1}
    /\ \A t \in Threads : pc[t] = "build" => defaultPrinter = 0

\* Bridge and overridden loggers are those of _LOG.
Settled ==
    /\ bridges = IF log.on /\ ~log.reaches THEN {log} ELSE {}
    /\ DOMAIN saved = IF ~log.on THEN {} ELSE IF log.reaches THEN Codecs ELSE Loggers

\* How far the thread with the lock has come.
Stages ==
    /\ lock = Free => Settled
    /\ \A t \in Threads :
          /\ pc[t] \in {"unbridge", "loop", "loggees"} => Settled
          /\ pc[t] \in {"restore", "log", "levels", "attach"} => bridges = {}
          /\ pc[t] = "log" => DOMAIN saved = {}
          /\ pc[t] = "levels" => /\ log.on /\ left[t] \subseteq Codecs
                                 /\ DOMAIN saved = Codecs \ left[t]
          /\ pc[t] = "attach" => log.on /\ ~log.reaches /\ DOMAIN saved = Loggers

\* Only there a level is about to be changed, and one at a time.
Changes ==
    \A t \in Threads :
       /\ due[t] # {} => pc[t] \in {"restore", "levels", "attach"}
       /\ \A p, q \in due[t] : p = q

\* Before it walks the loggees, which it is going to.
Fresh(t) == pc[t] \in {"read", "acquire"}
Coming(t) == Fresh(t) \/ pc[t] \in {"unbridge", "restore", "log", "levels", "attach", "loop"}

\* A switch that is not what it should be will be set by a thread on its way,
\* or by the loop in progress; a loop that will raise has somebody behind it.
Agreed ==
    /\ \A m \in DOMAIN loggees :
          \/ switch[m] = SwitchFor(log, loggees[m])
          \/ \E t \in Threads : Coming(t)
          \/ \E t \in Threads : pc[t] = "loggees" /\ m \in left[t]
    /\ \A t \in Threads : pc[t] = "loggees" /\ Grown(t) => \E u \in Threads : Fresh(u)

IInv == TypeOK /\ Locked /\ Stages /\ Changes /\ LevelsAreKept /\ Agreed

-----------------------------------------------------------------------------

LEMMA InitIsSound == Init => IInv
<1> SUFFICES ASSUME Init
             PROVE  IInv
  OBVIOUS
<1>1. TypeOK
  BY LevelsAssumption DEF Init, TypeOK, Steps, Critical
<1>2. Locked
  BY NamesAssumption DEF Init, Locked, Critical
<1>3. Stages
  BY DEF Init, Stages, Settled, Off
<1>4. LevelsAreKept /\ Agreed /\ Changes
  BY DEF Init, LevelsAreKept, InEffect, GivenBack, Agreed, Changes
<1> QED
  BY <1>1, <1>2, <1>3, <1>4 DEF IInv

\* What levels are kept depends on four variables only.
LEMMA Unmoved ==
    ASSUME LevelsAreKept, UNCHANGED <<saved, due, level, wanted>>
    PROVE  LevelsAreKept'
  BY DEF LevelsAreKept, InEffect, GivenBack

\* Of the levels given back there are only those of the thread with the lock.
LEMMA OneGivesBack ==
    ASSUME TypeOK, NEW t \in Threads, \A u \in Threads \ {t} : due[u] = {}, NEW n \in Loggers
    PROVE  GivenBack(n) = IF n \in DOMAIN saved THEN {} ELSE {l \in Levels : <<n, l>> \in due[t]}
  BY DEF GivenBack

\* Saving a level that is about to be replaced.
LEMMA Overridden ==
    ASSUME TypeOK, LevelsAreKept, NEW t \in Threads, \A u \in Threads : due[u] = {},
           NEW n \in Loggers \ DOMAIN saved, NEW l \in Levels, Override(t, n, l),
           UNCHANGED <<wanted, level>>
    PROVE  /\ DOMAIN saved' = DOMAIN saved \cup {n} /\ saved' \in [DOMAIN saved' -> Levels]
           /\ due' \in [Threads -> SUBSET (Loggers \X Levels)]
           /\ due'[t] = {<<n, l>>} /\ \A u \in Threads \ {t} : due'[u] = {}
           /\ LevelsAreKept'
<1>1. /\ DOMAIN saved' = DOMAIN saved \cup {n} /\ saved'[n] = level[n]
      /\ \A k \in DOMAIN saved : saved'[k] = saved[k]
  BY DEF Override, TypeOK
<1>2. level[n] \in Levels /\ saved' = [k \in DOMAIN saved \cup {n} |-> saved'[k]]
  BY DEF TypeOK, Override
<1>3. saved' \in [DOMAIN saved' -> Levels]
  BY <1>1, <1>2 DEF TypeOK, Override
<1>4. /\ due' \in [Threads -> SUBSET (Loggers \X Levels)]
      /\ due'[t] = {<<n, l>>} /\ \A u \in Threads \ {t} : due'[u] = {}
  BY DEF Override, TypeOK
<1>5. LevelsAreKept'
  <2>1. \A k \in Loggers : GivenBack(k) = {} /\ GivenBack(k)' = {}
    BY <1>1, <1>4 DEF GivenBack
  <2> QED
    BY <1>1, <2>1 DEF LevelsAreKept, InEffect
<1> QED
  BY <1>1, <1>3, <1>4, <1>5

LEMMA SetLoggerStep ==
    ASSUME IInv, NEW t \in Threads, SetLogger(t)
    PROVE  IInv'
<1>1. TypeOK /\ Locked /\ Stages /\ Changes /\ LevelsAreKept /\ Agreed
  BY DEF IInv
<1>3. TypeOK'
  BY <1>1, LevelsAssumption, RegistrationsAssumption DEF TypeOK, Steps, Critical, Loggers, SetLogger, Begin, Go, At, legacy, printing, application
<1>4. Locked'
  BY <1>1, NamesAssumption DEF TypeOK, Locked, Critical, SetLogger, Begin, Go, At, legacy, printing, application
<1>5. Stages'
  BY <1>1, NamesAssumption DEF TypeOK, Stages, Locked, Settled, Critical, Loggers, SetLogger, Begin, Go, At, legacy, printing, application
<1>6. LevelsAreKept'
  BY <1>1, Unmoved DEF SetLogger, Begin, Go, At, legacy, printing, application
<1>7. Agreed'
  BY <1>1 DEF TypeOK, Agreed, Coming, Fresh, Grown, Critical, SetLogger, Begin, Go, At, legacy, printing, application
<1>8. Changes'
  BY <1>1 DEF TypeOK, Changes, SetLogger, Begin, Go, At, legacy, printing, application
<1> QED
  BY <1>3, <1>4, <1>5, <1>6, <1>7, <1>8 DEF IInv

LEMMA RegisterLoggeeStep ==
    ASSUME IInv, NEW t \in Threads, RegisterLoggee(t)
    PROVE  IInv'
<1>1. TypeOK /\ Locked /\ Stages /\ Changes /\ LevelsAreKept /\ Agreed
  BY DEF IInv
<1>3. TypeOK'
  BY <1>1, LevelsAssumption, RegistrationsAssumption DEF TypeOK, Steps, Critical, Loggers, RegisterLoggee, Begin, Go, At, legacy, printing, application
<1>4. Locked'
  BY <1>1, NamesAssumption DEF TypeOK, Locked, Critical, RegisterLoggee, Begin, Go, At, legacy, printing, application
<1>5. Stages'
  BY <1>1, NamesAssumption DEF TypeOK, Stages, Locked, Settled, Critical, Loggers, RegisterLoggee, Begin, Go, At, legacy, printing, application
<1>6. LevelsAreKept'
  BY <1>1, Unmoved DEF RegisterLoggee, Begin, Go, At, legacy, printing, application
<1>7. Agreed'
  BY <1>1 DEF TypeOK, Agreed, Coming, Fresh, Grown, Critical, RegisterLoggee, Begin, Go, At, legacy, printing, application
<1>8. Changes'
  BY <1>1 DEF TypeOK, Changes, RegisterLoggee, Begin, Go, At, legacy, printing, application
<1> QED
  BY <1>3, <1>4, <1>5, <1>6, <1>7, <1>8 DEF IInv

LEMMA NewDebugStep ==
    ASSUME IInv, NEW t \in Threads, NewDebug(t)
    PROVE  IInv'
<1>1. TypeOK /\ Locked /\ Stages /\ Changes /\ LevelsAreKept /\ Agreed
  BY DEF IInv
<1>3. TypeOK'
  BY <1>1, LevelsAssumption, RegistrationsAssumption DEF TypeOK, Steps, Critical, Loggers, NewDebug, Begin, Go, At, legacy, printing, application
<1>4. Locked'
  BY <1>1, NamesAssumption DEF TypeOK, Locked, Critical, NewDebug, Begin, Go, At, legacy, printing, application
<1>5. Stages'
  BY <1>1, NamesAssumption DEF TypeOK, Stages, Locked, Settled, Critical, Loggers, NewDebug, Begin, Go, At, legacy, printing, application
<1>6. LevelsAreKept'
  BY <1>1, Unmoved DEF NewDebug, Begin, Go, At, legacy, printing, application
<1>7. Agreed'
  BY <1>1 DEF TypeOK, Agreed, Coming, Fresh, Grown, Critical, NewDebug, Begin, Go, At, legacy, printing, application
<1>8. Changes'
  BY <1>1 DEF TypeOK, Changes, NewDebug, Begin, Go, At, legacy, printing, application
<1> QED
  BY <1>3, <1>4, <1>5, <1>6, <1>7, <1>8 DEF IInv

LEMMA ReadLogStep ==
    ASSUME IInv, NEW t \in Threads, ReadLog(t)
    PROVE  IInv'
<1>1. TypeOK /\ Locked /\ Stages /\ Changes /\ LevelsAreKept /\ Agreed
  BY DEF IInv
<1>3. TypeOK'
  BY <1>1, LevelsAssumption, RegistrationsAssumption DEF TypeOK, Steps, Critical, Loggers, ReadLog, Go, At, legacy, printing, application
<1>4. Locked'
  BY <1>1, NamesAssumption DEF TypeOK, Locked, Critical, ReadLog, Go, At, legacy, printing, application
<1>5. Stages'
  BY <1>1, NamesAssumption DEF TypeOK, Stages, Locked, Settled, Critical, Loggers, ReadLog, Go, At, legacy, printing, application
<1>6. LevelsAreKept'
  BY <1>1, Unmoved DEF ReadLog, Go, At, legacy, printing, application
<1>7. Agreed'
  BY <1>1 DEF TypeOK, Agreed, Coming, Fresh, Grown, Critical, ReadLog, Go, At, legacy, printing, application
<1>8. Changes'
  BY <1>1 DEF TypeOK, Changes, ReadLog, Go, At, legacy, printing, application
<1> QED
  BY <1>3, <1>4, <1>5, <1>6, <1>7, <1>8 DEF IInv

LEMMA AcquireStep ==
    ASSUME IInv, NEW t \in Threads, Acquire(t)
    PROVE  IInv'
<1>1. TypeOK /\ Locked /\ Stages /\ Changes /\ LevelsAreKept /\ Agreed
  BY DEF IInv
<1>3. TypeOK'
  BY <1>1, LevelsAssumption, RegistrationsAssumption DEF TypeOK, Steps, Critical, Loggers, Acquire, Go, locals, At, legacy, printing, application
<1>4. Locked'
  BY <1>1, NamesAssumption DEF TypeOK, Locked, Critical, Acquire, Go, locals, At, legacy, printing, application
<1>5. Stages'
  BY <1>1, NamesAssumption DEF TypeOK, Stages, Locked, Settled, Critical, Loggers, Acquire, Go, locals, At, legacy, printing, application
<1>6. LevelsAreKept'
  BY <1>1, Unmoved DEF Acquire, Go, locals, At, legacy, printing, application
<1>7. Agreed'
  <2>1. \A u \in Threads : pc[u] # "loggees"
    BY <1>1, NamesAssumption DEF Locked, Critical, Acquire
  <2>2. Coming(t)' /\ \A u \in Threads : pc'[u] # "loggees"
    BY <1>1, <2>1 DEF TypeOK, Coming, Acquire, Go
  <2> QED
    BY <2>2 DEF Agreed
<1>8. Changes'
  BY <1>1 DEF TypeOK, Changes, Acquire, Go, locals, At, legacy, printing, application
<1> QED
  BY <1>3, <1>4, <1>5, <1>6, <1>7, <1>8 DEF IInv

LEMMA UnbridgeStep ==
    ASSUME IInv, NEW t \in Threads, Unbridge(t)
    PROVE  IInv'
<1>1. TypeOK /\ Locked /\ Stages /\ Changes /\ LevelsAreKept /\ Agreed
  BY DEF IInv
<1>2. lock = t /\ \A u \in Threads \ {t} : pc[u] \notin Critical
  BY <1>1 DEF Locked, Critical, Unbridge, At
<1>3. TypeOK'
  BY <1>1, LevelsAssumption, RegistrationsAssumption DEF TypeOK, Steps, Critical, Loggers, Unbridge, Go, locals, At, legacy, printing, application
<1>4. Locked'
  BY <1>1, <1>2, NamesAssumption DEF TypeOK, Locked, Critical, Unbridge, Go, locals, At, legacy, printing, application
<1>5. Stages'
  BY <1>1, <1>2, NamesAssumption DEF TypeOK, Stages, Locked, Settled, Critical, Loggers, Unbridge, Go, locals, At, legacy, printing, application
<1>6. LevelsAreKept'
  BY <1>1, Unmoved DEF Unbridge, Go, locals, At, legacy, printing, application
<1>7. Agreed'
  BY <1>1, <1>2 DEF TypeOK, Agreed, Coming, Fresh, Grown, Critical, Unbridge, Go, locals, At, legacy, printing, application
<1>8. Changes'
  BY <1>1 DEF TypeOK, Changes, Unbridge, Go, locals, At, legacy, printing, application
<1> QED
  BY <1>3, <1>4, <1>5, <1>6, <1>7, <1>8 DEF IInv

LEMMA RestoreStep ==
    ASSUME IInv, NEW t \in Threads, Restore(t)
    PROVE  IInv'
<1>1. TypeOK /\ Locked /\ Stages /\ Changes /\ LevelsAreKept /\ Agreed
  BY DEF IInv
<1>2. lock = t /\ \A u \in Threads \ {t} : pc[u] \notin Critical
  BY <1>1 DEF Locked, Critical, Restore, At
<1>a. /\ pc[t] = "restore" /\ bridges = {} /\ UNCHANGED <<wanted, level, lock, bridges>>
      /\ \A u \in Threads : due[u] = {}
  BY <1>1, <1>2 DEF Stages, Changes, Critical, Restore, At, application
<1>b. lock' # Free /\ \A u \in Threads \ {t} : pc'[u] \notin Critical
  BY <1>1, <1>2, <1>a, NamesAssumption DEF Restore, Go, TypeOK
<1>c. pc'[t] = "restore" \/ (pc'[t] = "log" /\ DOMAIN saved' = {} /\ UNCHANGED <<saved, due>>)
  <2>1. CASE UNCHANGED pc
    BY <1>a, <2>1
  <2>2. CASE DOMAIN saved = {} /\ Go(t, "log") /\ UNCHANGED <<saved, due>>
    BY <1>1, <2>2 DEF Go, TypeOK
  <2> QED
    BY <2>1, <2>2 DEF Restore
<1>d. ASSUME NEW n \in DOMAIN saved,
             saved' = [k \in DOMAIN saved \ {n} |-> saved[k]],
             due' = [due EXCEPT ![t] = {<<n, saved[n]>>}]
      PROVE  /\ DOMAIN saved' = DOMAIN saved \ {n} /\ \A k \in DOMAIN saved \ {n} : saved'[k] = saved[k]
             /\ saved' \in [DOMAIN saved' -> Levels]
             /\ saved[n] \in Levels /\ n \in Loggers
             /\ due'[t] = {<<n, saved[n]>>} /\ \A u \in Threads \ {t} : due'[u] = {}
             /\ due' \in [Threads -> SUBSET (Loggers \X Levels)]
  BY <1>1, <1>a, <1>d DEF TypeOK
<1>3. TypeOK'
  <2>1. saved' \in [DOMAIN saved' -> Levels] /\ DOMAIN saved' \subseteq Loggers
        /\ due' \in [Threads -> SUBSET (Loggers \X Levels)]
    BY <1>1, <1>d DEF Restore, TypeOK
  <2>2. pc' \in [Threads -> Steps]
    BY <1>1 DEF Restore, Go, TypeOK, Steps, Critical
  <2> QED
    BY <1>1, <1>a, <2>1, <2>2 DEF TypeOK, Restore, printing
<1>4. Locked'
  BY <1>1, <1>2, NamesAssumption DEF TypeOK, Locked, Critical, Restore, Go, locals, At, legacy, printing, application
<1>5. Stages'
  BY <1>a, <1>b, <1>c DEF Stages, Critical
<1>6. LevelsAreKept'
  <2>1. ASSUME NEW n \in DOMAIN saved,
               saved' = [k \in DOMAIN saved \ {n} |-> saved[k]],
               due' = [due EXCEPT ![t] = {<<n, saved[n]>>}]
        PROVE  LevelsAreKept'
    <3>1. /\ DOMAIN saved' = DOMAIN saved \ {n} /\ \A k \in DOMAIN saved \ {n} : saved'[k] = saved[k]
          /\ saved[n] \in Levels
          /\ due'[t] = {<<n, saved[n]>>} /\ \A u \in Threads \ {t} : due'[u] = {}
      BY <1>d, <2>1
    <3>2. /\ \A k \in Loggers : GivenBack(k) = {}
          /\ GivenBack(n)' = {saved[n]} /\ \A k \in Loggers \ {n} : GivenBack(k)' = {}
      BY <1>a, <3>1 DEF GivenBack
    <3> QED
      BY <1>1, <1>a, <3>1, <3>2 DEF LevelsAreKept, InEffect
  <2>2. CASE UNCHANGED <<saved, due>>
    BY <1>1, <1>a, <2>2, Unmoved
  <2> QED
    BY <2>1, <2>2 DEF Restore
<1>7. Agreed'
  BY <1>1, <1>2 DEF TypeOK, Agreed, Coming, Fresh, Grown, Critical, Restore, Go, locals, At, legacy, printing, application
<1>8. Changes'
  <2>1. ASSUME NEW n \in DOMAIN saved, UNCHANGED pc,
               saved' = [k \in DOMAIN saved \ {n} |-> saved[k]],
               due' = [due EXCEPT ![t] = {<<n, saved[n]>>}]
        PROVE  Changes'
    <3>1. due'[t] = {<<n, saved[n]>>} /\ \A u \in Threads \ {t} : due'[u] = {}
      BY <1>d, <2>1
    <3> QED
      BY <1>a, <2>1, <3>1 DEF Changes
  <2>2. CASE UNCHANGED <<saved, due>>
    BY <1>a, <2>2 DEF Changes
  <2> QED
    BY <2>1, <2>2 DEF Restore
<1> QED
  BY <1>3, <1>4, <1>5, <1>6, <1>7, <1>8 DEF IInv

\* The level is that of the application again, or the one saved stays saved.
LEMMA ChangeLevelStep ==
    ASSUME IInv, NEW t \in Threads, ChangeLevel(t)
    PROVE  IInv'
<1>1. TypeOK /\ Locked /\ Stages /\ Changes /\ LevelsAreKept /\ Agreed
  BY DEF IInv
<1>2. PICK p \in due[t] : level' = [level EXCEPT ![p[1]] = p[2]]
  BY DEF ChangeLevel
<1>3. /\ p \in Loggers \X Levels /\ due[t] = {p}
      /\ pc[t] \in {"restore", "levels", "attach"}
  BY <1>1, <1>2 DEF TypeOK, Changes
<1>4. \A u \in Threads \ {t} : due[u] = {}
  BY <1>1, <1>3 DEF Locked, Changes, Critical
<1>5. /\ due' \in [Threads -> SUBSET (Loggers \X Levels)] /\ \A u \in Threads : due'[u] = {}
      /\ UNCHANGED <<lock, printerLock, log, saved, bridges, loggees, switch, defaultPrinter, pc,
                     arg, left, size, wanted>>
  BY <1>1, <1>4 DEF ChangeLevel, TypeOK, legacy, printing, application
<1>6. /\ level' \in [Loggers -> Levels] /\ level'[p[1]] = p[2]
      /\ \A k \in Loggers \ {p[1]} : level'[k] = level[k]
  BY <1>1, <1>2, <1>3 DEF TypeOK
<1>7. TypeOK'
  BY <1>1, <1>5, <1>6 DEF TypeOK
<1>8. Locked' /\ Stages' /\ Changes' /\ Agreed'
  BY <1>1, <1>5 DEF Locked, Stages, Settled, Changes, Agreed, Coming, Fresh, Grown
<1>9. LevelsAreKept'
  <2>1. \A k \in Loggers : GivenBack(k)' = {}
    BY <1>5 DEF GivenBack
  <2>2. ASSUME NEW k \in Loggers
        PROVE  GivenBack(k) = IF k \in DOMAIN saved \/ k # p[1] THEN {} ELSE {p[2]}
    <3>1. p = <<p[1], p[2]>> /\ p[2] \in Levels
      BY <1>3
    <3>2. \A l \in Levels : <<k, l>> \in due[t] <=> k = p[1] /\ l = p[2]
      BY <1>3, <3>1
    <3>3. GivenBack(k) = IF k \in DOMAIN saved THEN {} ELSE {l \in Levels : <<k, l>> \in due[t]}
      BY <1>1, <1>4, OneGivesBack
    <3> QED
      BY <3>1, <3>2, <3>3
  <2>3. p[1] \in Loggers
    BY <1>3
  <2>4. \A k \in Loggers : k # p[1] \/ k \in DOMAIN saved => (InEffect(k)' <=> InEffect(k))
    BY <1>5, <2>1, <2>2 DEF InEffect
  <2>5. p[1] \notin DOMAIN saved => ~InEffect(p[1])' /\ InEffect(p[1]) /\ wanted[p[1]] = p[2]
    <3>1. SUFFICES ASSUME p[1] \notin DOMAIN saved
                   PROVE  ~InEffect(p[1])' /\ InEffect(p[1]) /\ wanted[p[1]] = p[2]
      OBVIOUS
    <3>2. ~InEffect(p[1])'
      BY <1>5, <2>1, <2>3, <3>1 DEF InEffect
    <3>3. GivenBack(p[1]) = {p[2]}
      BY <2>2, <2>3, <3>1
    <3>4. InEffect(p[1])
      BY <3>3 DEF InEffect
    <3> QED
      BY <1>1, <2>3, <3>1, <3>2, <3>3, <3>4 DEF LevelsAreKept
  <2>6. ASSUME NEW k \in Loggers
        PROVE  IF InEffect(k)'
               THEN k \in DOMAIN saved /\ wanted[k] = saved[k]
               ELSE wanted[k] = level'[k]
    <3>1. CASE k \in DOMAIN saved
      BY <1>1, <1>5, <3>1 DEF InEffect, LevelsAreKept
    <3>2. CASE k \notin DOMAIN saved /\ k = p[1]
      BY <1>6, <2>5, <3>2
    <3>3. CASE k \notin DOMAIN saved /\ k # p[1]
      <4>1. ~InEffect(k) /\ ~InEffect(k)'
        BY <1>5, <2>1, <2>2, <3>3 DEF InEffect
      <4> QED
        BY <1>1, <1>6, <3>3, <4>1 DEF LevelsAreKept
    <3> QED
      BY <3>1, <3>2, <3>3
  <2> QED
    BY <1>5, <2>6 DEF LevelsAreKept
<1> QED
  BY <1>7, <1>8, <1>9 DEF IInv

LEMMA SetLogStep ==
    ASSUME IInv, NEW t \in Threads, SetLog(t)
    PROVE  IInv'
<1>1. TypeOK /\ Locked /\ Stages /\ Changes /\ LevelsAreKept /\ Agreed
  BY DEF IInv
<1>2. lock = t /\ \A u \in Threads \ {t} : pc[u] \notin Critical
  BY <1>1 DEF Locked, Critical, SetLog, At
<1>3. TypeOK'
  BY <1>1, LevelsAssumption, RegistrationsAssumption DEF TypeOK, Steps, Critical, Loggers, SetLog, Go, At, legacy, printing, application
<1>4. Locked'
  BY <1>1, <1>2, NamesAssumption DEF TypeOK, Locked, Critical, SetLog, Go, At, legacy, printing, application
<1>5. Stages'
  BY <1>1, <1>2, NamesAssumption DEF TypeOK, Stages, Locked, Settled, Critical, Loggers, SetLog, Go, At, legacy, printing, application
<1>6. LevelsAreKept'
  BY <1>1, Unmoved DEF SetLog, Go, At, legacy, printing, application
<1>7. Agreed'
  BY <1>1, <1>2 DEF TypeOK, Agreed, Coming, Fresh, Grown, Critical, SetLog, Go, At, legacy, printing, application
<1>8. Changes'
  BY <1>1 DEF TypeOK, Changes, SetLog, Go, At, legacy, printing, application
<1> QED
  BY <1>3, <1>4, <1>5, <1>6, <1>7, <1>8 DEF IInv

LEMMA RaiseLevelStep ==
    ASSUME IInv, NEW t \in Threads, RaiseLevel(t)
    PROVE  IInv'
<1>1. TypeOK /\ Locked /\ Stages /\ Changes /\ LevelsAreKept /\ Agreed
  BY DEF IInv
<1>2. lock = t /\ \A u \in Threads \ {t} : pc[u] \notin Critical
  BY <1>1 DEF Locked, Critical, RaiseLevel, At
<1>a. PICK n \in left[t] : Override(t, n, Pinned(log, n)) /\ left' = [left EXCEPT ![t] = @ \ {n}]
  BY DEF RaiseLevel
<1>b. /\ n \in Codecs /\ n \notin DOMAIN saved /\ log.on
      /\ left[t] \subseteq Codecs /\ DOMAIN saved = Codecs \ left[t]
      /\ \A u \in Threads : due[u] = {}
  BY <1>1, <1>2 DEF Stages, Changes, Critical, RaiseLevel, At
<1>c. Pinned(log, n) \in Levels /\ UNCHANGED <<wanted, level, pc, log, bridges, lock>>
  BY LevelsAssumption DEF Pinned, RaiseLevel, application
<1>d. /\ DOMAIN saved' = DOMAIN saved \cup {n} /\ saved' \in [DOMAIN saved' -> Levels]
      /\ due' \in [Threads -> SUBSET (Loggers \X Levels)]
      /\ due'[t] = {<<n, Pinned(log, n)>>} /\ \A u \in Threads \ {t} : due'[u] = {}
      /\ LevelsAreKept'
  BY <1>1, <1>a, <1>b, <1>c, Overridden DEF Loggers
<1>e. left' \in [Threads -> SUBSET (Codecs \cup Modules)] /\ left'[t] = left[t] \ {n}
  BY <1>1, <1>a DEF TypeOK
<1>3. TypeOK'
  BY <1>1, <1>b, <1>c, <1>d, <1>e DEF TypeOK, Loggers, RaiseLevel, printing, application
<1>4. Locked'
  BY <1>1, <1>2, NamesAssumption DEF TypeOK, Locked, Critical, RaiseLevel, printing
<1>5. Stages'
  <2>1. pc'[t] = "levels" /\ \A u \in Threads \ {t} : pc'[u] \notin Critical
    BY <1>2, <1>c DEF RaiseLevel, At
  <2>2. lock' # Free
    BY <1>2, <1>c, NamesAssumption
  <2>3. bridges' = {} /\ log'.on /\ left'[t] \subseteq Codecs /\ DOMAIN saved' = Codecs \ left'[t]
    BY <1>1, <1>b, <1>c, <1>d, <1>e DEF Stages, RaiseLevel, At
  <2> QED
    BY <2>1, <2>2, <2>3 DEF Stages, Critical
<1>6. LevelsAreKept'
  BY <1>d
<1>7. Agreed'
  BY <1>1, <1>2 DEF TypeOK, Agreed, Coming, Fresh, Grown, Critical, RaiseLevel, At
<1>8. Changes'
  BY <1>c, <1>d DEF Changes, RaiseLevel, At
<1> QED
  BY <1>3, <1>4, <1>5, <1>6, <1>7, <1>8 DEF IInv

LEMMA BridgeStep ==
    ASSUME IInv, NEW t \in Threads, Bridge(t)
    PROVE  IInv'
<1>1. TypeOK /\ Locked /\ Stages /\ Changes /\ LevelsAreKept /\ Agreed
  BY DEF IInv
<1>2. lock = t /\ \A u \in Threads \ {t} : pc[u] \notin Critical
  BY <1>1 DEF Locked, Critical, Bridge, At
<1>a. /\ log.on /\ DOMAIN saved = Codecs /\ Root \notin DOMAIN saved /\ bridges = {}
      /\ \A u \in Threads : due[u] = {}
      /\ UNCHANGED <<wanted, level, log, bridges, lock>>
  BY <1>1, <1>2, NamesAssumption DEF Stages, Changes, Critical, Bridge, At, application
<1>4. Locked'
  BY <1>1, <1>2, NamesAssumption DEF TypeOK, Locked, Critical, Bridge, Go, At, printing
<1>7. Agreed'
  BY <1>1, <1>2 DEF TypeOK, Agreed, Coming, Fresh, Grown, Critical, Bridge, Go, At
<1>b. lock' # Free /\ \A u \in Threads \ {t} : pc'[u] \notin Critical
  BY <1>1, <1>2, <1>a, NamesAssumption DEF Bridge, Go, TypeOK
<1>5. CASE log.reaches
  <2>1. pc'[t] = "loop" /\ UNCHANGED <<saved, due>>
    BY <1>1, <1>5 DEF Bridge, Go, TypeOK
  <2>2. TypeOK'
    BY <1>1, <1>a, <2>1 DEF TypeOK, Steps, Critical, Bridge, Go
  <2>3. Stages'
    BY <1>5, <1>a, <1>b, <2>1 DEF Stages, Settled, Critical
  <2>4. LevelsAreKept' /\ Changes'
    BY <1>1, <1>a, <2>1, Unmoved DEF Changes
  <2> QED
    BY <1>4, <1>7, <2>2, <2>3, <2>4 DEF IInv
<1>6. CASE ~log.reaches
  <2>1. pc'[t] = "attach" /\ Override(t, Root, "DEBUG")
    BY <1>1, <1>6 DEF Bridge, Go, TypeOK
  <2>2. /\ DOMAIN saved' = DOMAIN saved \cup {Root} /\ saved' \in [DOMAIN saved' -> Levels]
        /\ due' \in [Threads -> SUBSET (Loggers \X Levels)]
        /\ due'[t] = {<<Root, "DEBUG">>} /\ \A u \in Threads \ {t} : due'[u] = {}
        /\ LevelsAreKept'
    BY <1>1, <1>a, <2>1, Overridden, LevelsAssumption DEF Loggers
  <2>3. TypeOK'
    BY <1>1, <1>a, <2>1, <2>2 DEF TypeOK, Steps, Critical, Bridge, Go, Loggers
  <2>4. Stages'
    BY <1>6, <1>a, <1>b, <2>1, <2>2 DEF Stages, Critical, Loggers
  <2>5. Changes'
    BY <2>1, <2>2 DEF Changes
  <2> QED
    BY <1>4, <1>7, <2>2, <2>3, <2>4, <2>5 DEF IInv
<1> QED
  BY <1>5, <1>6

LEMMA AttachStep ==
    ASSUME IInv, NEW t \in Threads, Attach(t)
    PROVE  IInv'
<1>1. TypeOK /\ Locked /\ Stages /\ Changes /\ LevelsAreKept /\ Agreed
  BY DEF IInv
<1>2. lock = t /\ \A u \in Threads \ {t} : pc[u] \notin Critical
  BY <1>1 DEF Locked, Critical, Attach, At
<1>3. TypeOK'
  BY <1>1 DEF TypeOK, Steps, Critical, Attach, Go, locals, application
<1>4. Locked'
  BY <1>1, <1>2, NamesAssumption DEF TypeOK, Locked, Critical, Attach, Go, At, printing
<1>5. Stages'
  <2>1. log.on /\ ~log.reaches /\ DOMAIN saved = Loggers /\ bridges = {}
    BY <1>1 DEF Stages, Attach, At
  <2>2. pc'[t] = "loop" /\ lock' # Free /\ \A u \in Threads \ {t} : pc'[u] \notin Critical
    BY <1>1, <1>2, NamesAssumption DEF TypeOK, Attach, Go
  <2> QED
    BY <2>1, <2>2 DEF Stages, Settled, Critical, Attach
<1>6. LevelsAreKept'
  BY <1>1, Unmoved DEF Attach, locals, application
<1>7. Agreed'
  BY <1>1, <1>2 DEF TypeOK, Agreed, Coming, Fresh, Grown, Critical, Attach, Go, At, locals
<1>8. Changes'
  BY <1>1 DEF TypeOK, Changes, Attach, Go, At, locals
<1> QED
  BY <1>3, <1>4, <1>5, <1>6, <1>7, <1>8 DEF IInv

LEMMA LoopStep ==
    ASSUME IInv, NEW t \in Threads, Loop(t)
    PROVE  IInv'
<1>1. TypeOK /\ Locked /\ Stages /\ Changes /\ LevelsAreKept /\ Agreed
  BY DEF IInv
<1>2. lock = t /\ \A u \in Threads \ {t} : pc[u] \notin Critical
  BY <1>1 DEF Locked, Critical, Loop, At
<1>3. TypeOK'
  BY <1>1, LevelsAssumption, RegistrationsAssumption DEF TypeOK, Steps, Critical, Loggers, Loop, Go, At, legacy, printing, application
<1>4. Locked'
  BY <1>1, <1>2, NamesAssumption DEF TypeOK, Locked, Critical, Loop, Go, At, legacy, printing, application
<1>5. Stages'
  BY <1>1, <1>2, NamesAssumption DEF TypeOK, Stages, Locked, Settled, Critical, Loggers, Loop, Go, At, legacy, printing, application
<1>6. LevelsAreKept'
  BY <1>1, Unmoved DEF Loop, Go, At, legacy, printing, application
<1>7. Agreed'
  BY <1>1, <1>2 DEF TypeOK, Agreed, Coming, Fresh, Grown, Critical, Loop, Go, At, legacy, printing, application
<1>8. Changes'
  BY <1>1 DEF TypeOK, Changes, Loop, Go, At, legacy, printing, application
<1> QED
  BY <1>3, <1>4, <1>5, <1>6, <1>7, <1>8 DEF IInv

LEMMA UpdateLoggeeStep ==
    ASSUME IInv, NEW t \in Threads, UpdateLoggee(t)
    PROVE  IInv'
<1>1. TypeOK /\ Locked /\ Stages /\ Changes /\ LevelsAreKept /\ Agreed
  BY DEF IInv
<1>2. lock = t /\ \A u \in Threads \ {t} : pc[u] \notin Critical
  BY <1>1 DEF Locked, Critical, UpdateLoggee, At
<1>3. TypeOK'
  <2>1. PICK m \in left[t] : /\ switch' = [switch EXCEPT ![m] = SwitchFor(log, loggees[m])]
                             /\ left' = [left EXCEPT ![t] = @ \ {m}]
    BY DEF UpdateLoggee
  <2>2. left' \in [Threads -> SUBSET (Codecs \cup Modules)]
    BY <1>1, <2>1 DEF TypeOK
  <2>3. switch' = [m2 \in Modules |-> switch'[m2]]
    BY <1>1, <2>1 DEF TypeOK
  <2> QED
    BY <1>1, <2>2, <2>3 DEF TypeOK, UpdateLoggee, At, legacy, printing, application
<1>4. Locked'
  BY <1>1, <1>2, NamesAssumption DEF TypeOK, Locked, Critical, UpdateLoggee, At, legacy, printing, application
<1>5. Stages'
  BY <1>1, <1>2, NamesAssumption DEF TypeOK, Stages, Locked, Settled, Critical, Loggers, UpdateLoggee, At, legacy, printing, application
<1>6. LevelsAreKept'
  BY <1>1, Unmoved DEF UpdateLoggee, At, legacy, printing, application
<1>7. Agreed'
  <2>1. UNCHANGED <<pc, log, loggees, size>> /\ pc[t] = "loggees"
    BY DEF UpdateLoggee, At
  <2>2. PICK m \in left[t] : /\ switch' = [switch EXCEPT ![m] = SwitchFor(log, loggees[m])]
                             /\ left' = [left EXCEPT ![t] = @ \ {m}]
    BY DEF UpdateLoggee
  <2>3. ASSUME NEW k \in DOMAIN loggees
        PROVE  \/ switch'[k] = SwitchFor(log, loggees[k])
               \/ \E u \in Threads : Coming(u)
               \/ \E u \in Threads : pc[u] = "loggees" /\ k \in left'[u]
    <3>1. CASE k = m
      BY <1>1, <2>2, <3>1 DEF TypeOK
    <3>2. CASE k # m
      BY <1>1, <2>2, <3>2 DEF TypeOK, Agreed
    <3> QED
      BY <3>1, <3>2
  <2>4. \A u \in Threads : Coming(u)' = Coming(u) /\ Fresh(u)' = Fresh(u) /\ Grown(u)' = Grown(u)
    BY <2>1 DEF Coming, Fresh, Grown
  <2>5. \A k \in DOMAIN loggees : SwitchFor(log, loggees[k])' = SwitchFor(log, loggees[k])
    BY <2>1 DEF SwitchFor
  <2> QED
    BY <1>1, <2>1, <2>3, <2>4, <2>5 DEF Agreed
<1>8. Changes'
  BY <1>1 DEF TypeOK, Changes, UpdateLoggee, At, legacy, printing, application
<1> QED
  BY <1>3, <1>4, <1>5, <1>6, <1>7, <1>8 DEF IInv

LEMMA ReturnStep ==
    ASSUME IInv, NEW t \in Threads, Return(t)
    PROVE  IInv'
<1>1. TypeOK /\ Locked /\ Stages /\ Changes /\ LevelsAreKept /\ Agreed
  BY DEF IInv
<1>2. lock = t /\ \A u \in Threads \ {t} : pc[u] \notin Critical
  BY <1>1 DEF Locked, Critical, Return, At
<1>3. TypeOK'
  BY <1>1, LevelsAssumption, RegistrationsAssumption DEF TypeOK, Steps, Critical, Loggers, Return, Leave, Go, At, legacy, printing, application
<1>4. Locked'
  BY <1>1, <1>2, NamesAssumption DEF TypeOK, Locked, Critical, Return, Leave, Go, At, legacy, printing, application
<1>5. Stages'
  BY <1>1, <1>2, NamesAssumption DEF TypeOK, Stages, Locked, Settled, Critical, Loggers, Return, Leave, Go, At, legacy, printing, application
<1>6. LevelsAreKept'
  BY <1>1, Unmoved DEF Return, Leave, Go, At, legacy, printing, application
<1>7. Agreed'
  BY <1>1, <1>2 DEF TypeOK, Agreed, Coming, Fresh, Grown, Critical, Return, Leave, Go, At, legacy, printing, application
<1>8. Changes'
  BY <1>1 DEF TypeOK, Changes, Return, Leave, Go, At, legacy, printing, application
<1> QED
  BY <1>3, <1>4, <1>5, <1>6, <1>7, <1>8 DEF IInv

LEMMA TakePrinterStep ==
    ASSUME IInv, NEW t \in Threads, TakePrinter(t)
    PROVE  IInv'
<1>1. TypeOK /\ Locked /\ Stages /\ Changes /\ LevelsAreKept /\ Agreed
  BY DEF IInv
<1>3. TypeOK'
  BY <1>1, LevelsAssumption, RegistrationsAssumption DEF TypeOK, Steps, Critical, Loggers, TakePrinter, Go, locals, At, legacy, printing, application
<1>4. Locked'
  BY <1>1, NamesAssumption DEF TypeOK, Locked, Critical, TakePrinter, Go, locals, At, legacy, printing, application
<1>5. Stages'
  BY <1>1, NamesAssumption DEF TypeOK, Stages, Locked, Settled, Critical, Loggers, TakePrinter, Go, locals, At, legacy, printing, application
<1>6. LevelsAreKept'
  BY <1>1, Unmoved DEF TakePrinter, Go, locals, At, legacy, printing, application
<1>7. Agreed'
  BY <1>1 DEF TypeOK, Agreed, Coming, Fresh, Grown, Critical, TakePrinter, Go, locals, At, legacy, printing, application
<1>8. Changes'
  BY <1>1 DEF TypeOK, Changes, TakePrinter, Go, locals, At, legacy, printing, application
<1> QED
  BY <1>3, <1>4, <1>5, <1>6, <1>7, <1>8 DEF IInv

\* The application sets a level, or a printer does for it.
LEMMA ChosenIsKept ==
    ASSUME TypeOK, LevelsAreKept, NEW n \in Loggers, NEW l \in Levels,
           level' = [level EXCEPT ![n] = l], wanted' = Chosen(n, l), UNCHANGED <<saved, due>>
    PROVE  LevelsAreKept'
<1>1. \A k \in Loggers : GivenBack(k)' = GivenBack(k) /\ InEffect(k)' = InEffect(k)
  BY DEF GivenBack, InEffect
<1>2. level'[n] = l /\ \A k \in Loggers \ {n} : level'[k] = level[k]
  BY DEF TypeOK
<1>3. /\ InEffect(n) => wanted' = wanted
      /\ ~InEffect(n) => wanted'[n] = l /\ \A k \in Loggers \ {n} : wanted'[k] = wanted[k]
  BY DEF TypeOK, Chosen
<1> QED
  BY <1>1, <1>2, <1>3 DEF LevelsAreKept

LEMMA BuildPrinterStep ==
    ASSUME IInv, NEW t \in Threads, BuildPrinter(t)
    PROVE  IInv'
<1>1. TypeOK /\ Locked /\ Stages /\ Changes /\ LevelsAreKept /\ Agreed
  BY DEF IInv
<1>3. TypeOK'
  BY <1>1, LevelsAssumption, RegistrationsAssumption DEF TypeOK, Steps, Critical, Loggers, BuildPrinter, Go, Chosen, locals, At, legacy, printing, application
<1>4. Locked'
  BY <1>1, NamesAssumption DEF TypeOK, Locked, Critical, BuildPrinter, Go, Chosen, locals, At, legacy, printing, application
<1>5. Stages'
  BY <1>1, NamesAssumption DEF TypeOK, Stages, Locked, Settled, Critical, Loggers, BuildPrinter, Go, Chosen, locals, At, legacy, printing, application
<1>6. LevelsAreKept'
  BY <1>1, ChosenIsKept, LevelsAssumption DEF BuildPrinter, locals, legacy, Loggers
<1>7. Agreed'
  BY <1>1 DEF TypeOK, Agreed, Coming, Fresh, Grown, Critical, BuildPrinter, Go, Chosen, locals, At, legacy, printing, application
<1>8. Changes'
  BY <1>1 DEF TypeOK, Changes, BuildPrinter, Go, At, locals
<1> QED
  BY <1>3, <1>4, <1>5, <1>6, <1>7, <1>8 DEF IInv

LEMMA DropPrinterStep ==
    ASSUME IInv, NEW t \in Threads, DropPrinter(t)
    PROVE  IInv'
<1>1. TypeOK /\ Locked /\ Stages /\ Changes /\ LevelsAreKept /\ Agreed
  BY DEF IInv
<1>3. TypeOK'
  BY <1>1, LevelsAssumption, RegistrationsAssumption DEF TypeOK, Steps, Critical, Loggers, DropPrinter, Go, locals, At, legacy, printing, application
<1>4. Locked'
  BY <1>1, NamesAssumption DEF TypeOK, Locked, Critical, DropPrinter, Go, locals, At, legacy, printing, application
<1>5. Stages'
  BY <1>1, NamesAssumption DEF TypeOK, Stages, Locked, Settled, Critical, Loggers, DropPrinter, Go, locals, At, legacy, printing, application
<1>6. LevelsAreKept'
  BY <1>1, Unmoved DEF DropPrinter, Go, locals, At, legacy, printing, application
<1>7. Agreed'
  BY <1>1 DEF TypeOK, Agreed, Coming, Fresh, Grown, Critical, DropPrinter, Go, locals, At, legacy, printing, application
<1>8. Changes'
  BY <1>1 DEF TypeOK, Changes, DropPrinter, Go, locals, At, legacy, printing, application
<1> QED
  BY <1>3, <1>4, <1>5, <1>6, <1>7, <1>8 DEF IInv

LEMMA SetLevelStep ==
    ASSUME IInv, SetLevel
    PROVE  IInv'
<1>1. TypeOK /\ Locked /\ Stages /\ Changes /\ LevelsAreKept /\ Agreed
  BY DEF IInv
<1>2. TypeOK'
  BY <1>1, LevelsAssumption DEF TypeOK, SetLevel, Chosen, At, legacy, printing, locals
<1>a. UNCHANGED <<lock, printerLock, defaultPrinter, log, saved, bridges, loggees, switch, pc, arg,
                  left, due, size>>
  BY DEF SetLevel, legacy, printing, locals
<1>3. Locked' /\ Stages' /\ Changes' /\ Agreed'
  <2>1. Changes'
    BY <1>1, <1>a DEF Changes
  <2> QED
    BY <1>1, <1>a, <2>1 DEF Locked, Stages, Settled, Agreed, Coming, Fresh, Grown
<1>4. LevelsAreKept'
  BY <1>1, ChosenIsKept, LevelsAssumption DEF SetLevel, legacy, locals
<1> QED
  BY <1>2, <1>3, <1>4 DEF IInv

LEMMA NextIsSound == IInv /\ [Next]_vars => IInv'
<1> SUFFICES ASSUME IInv, [Next]_vars
             PROVE  IInv'
  OBVIOUS
<1>1. ASSUME NEW t \in Threads, SetLogger(t) \/ RegisterLoggee(t) \/ NewDebug(t)
      PROVE  IInv'
  BY <1>1, SetLoggerStep, RegisterLoggeeStep, NewDebugStep
<1>2. ASSUME NEW t \in Threads, Step(t)
      PROVE  IInv'
  BY <1>2, ReadLogStep, AcquireStep, UnbridgeStep, RestoreStep, SetLogStep, RaiseLevelStep,
     ChangeLevelStep, BridgeStep, AttachStep, LoopStep, UpdateLoggeeStep, ReturnStep, TakePrinterStep, BuildPrinterStep,
     DropPrinterStep DEF Step
<1>3. CASE SetLevel
  BY <1>3, SetLevelStep
<1>4. CASE UNCHANGED vars
  <2>1. TypeOK' /\ Locked' /\ Stages' /\ Changes' /\ Agreed'
    <3>1. TypeOK'
      BY <1>4 DEF vars, IInv, TypeOK
    <3>2. Changes'
      BY <1>4 DEF vars, IInv, Changes
    <3> QED
      BY <1>4, <3>1, <3>2 DEF vars, IInv, Locked, Stages, Settled, Agreed, Coming, Fresh, Grown
  <2>2. LevelsAreKept'
    BY <1>4, Unmoved DEF vars, IInv
  <2> QED
    BY <2>1, <2>2 DEF IInv
<1> QED
  BY <1>1, <1>2, <1>3, <1>4 DEF Next

\* The invariant holds whatever threads call in whatever order.
THEOREM Invariant == Spec => []IInv
<1>1. Init => IInv
  BY InitIsSound
<1>2. IInv /\ [Next]_vars => IInv'
  BY NextIsSound
<1> QED
  BY <1>1, <1>2, PTL DEF Spec

\* No level that setLogger() installed is ever restored as the application's.
THEOREM ApplicationsLevels == Spec => []LevelsAreKept
<1>1. IInv => LevelsAreKept
  BY DEF IInv
<1> QED
  BY <1>1, Invariant, PTL

\* When no call is in progress, switches, bridge and overridden loggers are
\* those of _LOG, loops that raised notwithstanding.
THEOREM QuietMeansAgreed == Spec => []SwitchesAgree
<1>1. ASSUME IInv
      PROVE  SwitchesAgree
  <2> SUFFICES ASSUME Quiet
               PROVE  /\ \A m \in DOMAIN loggees : switch[m] = SwitchFor(log, loggees[m])
                      /\ Settled
    BY DEF SwitchesAgree, Settled
  <2>1. \A t \in Threads : pc[t] = "idle"
    BY DEF Quiet, At
  <2>2. lock = Free
    BY <1>1, <2>1 DEF IInv, Locked, Critical
  <2>3. Settled
    BY <1>1, <2>2 DEF IInv, Stages
  <2>4. \A m \in DOMAIN loggees : switch[m] = SwitchFor(log, loggees[m])
    BY <1>1, <2>1 DEF IInv, Agreed, Coming, Fresh
  <2> QED
    BY <2>3, <2>4
<1> QED
  BY <1>1, Invariant, PTL

\* However many threads race for the first default printer, one is built.
THEOREM OnePrinter == Spec => []OneDefaultHandler
<1>1. IInv => OneDefaultHandler
  BY DEF IInv, Locked, OneDefaultHandler
<1> QED
  BY <1>1, Invariant, PTL
=============================================================================
