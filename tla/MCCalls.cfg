CONSTANTS
    Env = Env
    None = None
    sql = sql
    Tabs <- OneTab
    MaxSockets = 6
    MaxCalls = 2
    MaxDrops = 2
SPECIFICATION CallsSpec
CHECK_DEADLOCK FALSE
INVARIANTS
    CallsTypeOK
    CallsAreMadeOnce
    OneSessionForAPlace
    CallsAreAnswered
    EnvComesBack
