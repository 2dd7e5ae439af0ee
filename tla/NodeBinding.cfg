CONSTANTS
    http = http
    dispatcher = dispatcher
    lock = lock
    observer = observer
    response = response
    api = api
    handle = handle
    list = list
    Proxies = {http, dispatcher, lock, observer, response}
    Wrappers = {api, handle, list}
    Class <- MCClass
    MaxRefs = 1
    MaxBlocks = 2
    MaxBreaches = 2
SPECIFICATION Spec
INVARIANTS
    BInv
    DanglingOnlyIfSharedOrWeak
    UndefinedOnlyAfterBreach
    WrappersLive
CHECK_DEADLOCK FALSE
