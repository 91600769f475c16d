SPECIFICATION CoreFairSpec
CONSTANTS
    Parts = {"lock", "pool", "stream", "server"}
    Msg = {m1, m2}
    None = None
    Garbage = Garbage
    DefaultQueueSize = 2
    MQOverload = 1
    MaxLength = 6
    C11 = FALSE
    Thread = {t1, t2, t3}
    Worker = {w1, w2}
    Writer = {x1}
    Service = {s1, s2}
    NearShift = 1
    LevelShift = 1
    Delay = {1, 2, 3, 6, 11, 15}
    MaxTimers = 2
    MaxTicks = 40
    MaxJobs = 3
    MaxMessages = 3
    Ops = {"send", "low", "close"}
    Size = 2
    MaxPackage = 3
    MaxId = 1
    MaxSending = 1
    Slots = 1
    MaxSocket = 1
    Cmds = {"O", "K", "R", "S", "D"}
    Budget = 2
    Inbox = 1
PROPERTIES WriterEnters WorkIsTaken SocketsEnd
CHECK_DEADLOCK FALSE
