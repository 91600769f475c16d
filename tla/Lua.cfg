SPECIFICATION LuaSpec
CONSTANTS
    Parts = {"section", "calls", "waits", "kills", "order", "numbered", "dns", "send", "launch"}
    Thread = {t1, t2, t3, t4}
    MaxNest = 2
    CanKill = FALSE
    None = None
    c1 = c1
    c2 = c2
    c3 = c3
    Break = Break
    Blank = Blank
    User = {u1, u2}
    MaxOps = 4
    MaxConn = 3
    Disp = Disp
    CloseSignal = CloseSignal
    Pusher = {s1, s2, s3}
    MaxSends = 6
    Asker = Asker
    Resolver = {1, 2}
    Name = {n1}
    MaxTid = 3
    TIMEOUT = 2
    RETIRE = 3
    MaxTime = 10
    BUFFER_LIMIT = 2
    MaxBytes = 6
    Newline = {2, 5}
    Sizes = {0, 1, 4}
    Client = {x1, x2}
    ServiceName = {na, nb}
    Dependent = {nb}
    MaxInst = 4
    MaxAsks = 5
    MaxEnds = 2
INVARIANTS AnsweredOnce Connected OwnAnswer SameService SendsInOrder
PROPERTIES HandedOnInOrder
CHECK_DEADLOCK FALSE
