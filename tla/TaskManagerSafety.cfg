SPECIFICATION Spec
CONSTANTS
    l1 = l1
    l2 = l2
    l3 = l3
    delete = delete
    extract = extract
    other = other
    None = None
    Launches = {l1, l2, l3}
    Keys <- MCKeys
    Registered = {delete, extract}
    Cancelable = {delete}
    NumWorkers = 1
    TTL = 3
    Delay <- MCDelay
    Backends = {"memory", "redis"}
    Prompt = FALSE
    MayStop = TRUE
SYMMETRY Symmetry
INVARIANTS UndoIsFinal 
PROPERTIES DelayRespected ContractSpec
