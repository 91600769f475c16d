SPECIFICATION Spec
CONSTANTS
    Thread = {t1, t2}
    Launcher = {t1}
    Context = {c1, c2, c3}
    Name = {1, 2}
    None = None
    C11 = FALSE
    HandleMask = 7
    DefaultSlotSize = 2
    StartIndex = 6
    MaxNames = 2
INVARIANTS QueueMatchesContext MutualExclusion
PROPERTIES HandlesKept
