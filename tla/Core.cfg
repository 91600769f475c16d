SPECIFICATION CoreSpec
CONSTANTS
    Parts = {"queue", "wheel", "watch", "stream", "server"}
    Msg = {m1, m2}
    None = None
    Garbage = Garbage
    DefaultQueueSize = 2
    MQOverload = 1
    MaxLength = 6
    C11 = FALSE
    Thread = {t1}
    Worker = {w1, w2}
    Writer = {x1, x2}
    Service = {s1, s2}
    NearShift = 1
    LevelShift = 1
    Delay = {1, 2, 3, 6, 11, 15}
    MaxTimers = 2
    MaxTicks = 40
    MaxJobs = 0
    MaxMessages = 3
    Ops = {"send", "low", "close", "late"}
    Size = 2
    MaxPackage = 2
    MaxId = 1
    MaxSending = 2
    Slots = 1
    MaxSocket = 2
    Cmds = {"O", "L", "K", "X", "R"}
    Budget = 3
    Inbox = 1
INVARIANTS NoStrandedMessage TimersFire  CloseOnce
PROPERTIES FifoSpec 
CHECK_DEADLOCK FALSE
