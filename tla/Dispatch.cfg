SPECIFICATION Spec
CONSTANTS
    a = a
    b = b
    c = c
    w1 = w1
    w2 = w2
    t1 = t1
    None = None
    Service = {a, b}
    Worker = {w1, w2}
    Thread = {w1, w2, t1}
    Weight <- MCWeight
    Boot <- MCBoot1
    MaxMsg = 3
INVARIANTS RefCountExact NoUseAfterFree OnePlace NothingForgotten InitBeforeDispatch
PROPERTIES ActorSpec InOrder
CHECK_DEADLOCK FALSE
