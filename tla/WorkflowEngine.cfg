SPECIFICATION FairSpec
CONSTANTS
    r1 = r1
    r2 = r2
    t1 = t1
    t2 = t2
    k1 = k1
    clerk = clerk
    system = system
    Requests = {r1, r2}
    Entities = {t1, t2}
    Keys = {k1}
    Actors = {clerk, system}
    NoKey = NoKey
    None = None
    InitState = "PENDING_PAYMENT"
    WithAgency = {clerk}
    States <- MCStates
    Actions <- MCActions
    Perms <- MCPerms
    Config <- MCConfig
    Granted <- MCGranted
    AgencyPerms <- MCAgencyPerms
INVARIANTS
    TypeOK
    HistoryChained
    KeyAppliedOnce
    AcknowledgedIsLogged
    SameKeySameReply
PROPERTIES
    ImplementsHistory
    EveryRequestAnswered
