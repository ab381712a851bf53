CONSTANTS
    None = None
    Namespaces = {sensmos, mesh}
    PrefsKeys = {privkey, pubkey}
    PrefsValues = {v1, v2}
SPECIFICATION CutSpec
INVARIANT CrashSafe
CHECK_DEADLOCK FALSE
