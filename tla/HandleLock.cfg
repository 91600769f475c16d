SPECIFICATION Spec
CONSTANTS
    Thread = {t1, t2, t3}
    Launcher = {t1, t2, t3}
    Context = {c1, c2}
    Name = {}
    None = None
    C11 = TRUE
    HandleMask = 7
    DefaultSlotSize = 2
    StartIndex = 1
    MaxNames = 1
INVARIANTS
    QueueMatchesContext
CHECK_DEADLOCK FALSE
