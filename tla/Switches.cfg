\* Three calls in two threads, one setLevel() by the application.
CONSTANTS
    Threads = {t1, t2}
    Codecs = {"ber.encoder", "ber.decoder"}
    Flags = {"encoder", "decoder"}
    FlagOf <- MCFlagOf
    Debugs <- MCDebugs
    Modules = {"m1", "m2"}
    Registrations <- MCRegistrations
    Levels = {"NOTSET", "DEBUG", "INFO", "WARNING"}
    AppLevels = {"WARNING"}
    MaxCalls = 3
    MaxSettings = 1
SPECIFICATION Spec
CHECK_DEADLOCK FALSE
INVARIANT LevelsAreKept
INVARIANT SwitchesAgree
INVARIANT OneDefaultHandler
PROPERTY CallsReturn
