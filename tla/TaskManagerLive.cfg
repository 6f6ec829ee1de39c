SPECIFICATION FairSpec
CONSTANTS
    l1 = l1
    l2 = l2
    l3 = l3
    delete = delete
    extract = extract
    other = other
    None = None
    Launches = {l1, l2, l3}
    Keys <- UnknownKeys
    Registered = {delete}
    Cancelable = {delete}
    NumWorkers = 1
    TTL = 3
    Delay <- UnknownDelay
    Backends = {"memory", "redis"}
    Prompt = TRUE
    MayStop = FALSE
PROPERTIES EventSettles LaunchTakesEffect
