SPECIFICATION WebSpec
CONSTANTS
    Parts = {"gateserver", "gate", "long", "msg", "late", "login", "visit", "kick", "back", "front", "priority", "map"}
    None = None
    MaxPiece = 4
    MsgSession = {1, 2}
    MsgLinks = {1, 2, 3}
    KeptMsg = 4
    KeptLate = 1
    MaxAsked = 6
    Session = {1, 2, 3}
    MaxReq = 4
    Links = {1, 2}
    MaxRun = 5
    Visitor = {d1, d2, d3}
    User = {v1, v2}
    instance = 2
    multilogin = FALSE
    IP = {a, b}
    Slaves = 2
    kMCountPerIpPerSecond = 1
    kMCountPerIpPerMinute = 2
    MaxDelta = 1
    SecondsPerMinute = 2
    MaxVisits = 5
    MaxSeconds = 4
    KickVisits = 4
    KickSeconds = 1
    Key = {k1, k2}
    Value = {x, y}
    Obj = {1, 2, 3}
    Timeout = {1, 3}
    kMDoSaveInterval = 1
    kMTmpSaveIntervel = 2
    kMMaxCacheCap = 9
    MaxTime = 4
    MaxCalls = 3
    Caller = {d1}
    Saver = {s1}
    Reader = {d1, d2}
    Lifetime = 9
    kMCacheInterval = 1
    MaxCount = 1
    MaxReads = 4
    Elem = {1, 2, 3, 4, 5, 6, 7}
    Removable = {1, 2, 3, 4, 5, 6}
INVARIANTS Reassembled  Accounts CachesTrue FirstPolled
CHECK_DEADLOCK FALSE
