SPECIFICATION ServicesFairSpec
CONSTANTS
    Parts = {"node", "name", "named", "linked", "obj"}
    None = None
    Nil = Nil
    Table = Table
    Waiter = {x1, x2}
    Scalar = {"v", "w"}
    MaxUpdates = 1
    n1 = n1
    n2 = n2
    n3 = n3
    c1 = c1
    c2 = c2
    c3 = c3
    Request = {q1, q2}
    Fork = {f1, f2}
    Address = {a1}
    MaxReloads = 2
    Absent = Absent
    NoAddress = NoAddress
    Asker = {r1, r2}
    Name = {m1, m2}
    Registered = {s1, s2}
    MaxRegister = 2
    MaxAsks = 2
    Registrar = {2}
    MaxSends = 1
    Reader = {l1, l2}
    First = l1
    Addr = {1, 2, 3, 4}
    MaxVersion = 4
    Sharer = {1}
    MaxObj = 3
    MaxBox = 2
    MaxCall = 2
    Deletes = FALSE
PROPERTIES RequestsEnd
CHECK_DEADLOCK FALSE
