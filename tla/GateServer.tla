------------------------------ MODULE GateServer -------------------------------
\* A gate in Lua (lualib/snax/gateserver.lua with lualib-src/lua-netpack.c):
\* packets are put together from the pieces in which bytes arrive, queued, and
\* handed to the handler; connections are counted against a limit.
\* A byte is its position in the stream of its connection.
EXTENDS Integers, Sequences, FiniteSets, SequencesExt, Folds

CONSTANTS
    Conn,               \* connections (fd)
    Packets,            \* of each connection the sizes of the packets that are sent
    MaxClient,          \* conf.maxclient
    QueueSize,          \* QUEUESIZE
    MaxMore,            \* bound on the bytes of one piece
    BytesAfterError,    \* whether bytes arrive after an error of the connection
    None

GateServerAssumption ==
    /\ Packets \in [Conn -> Seq(Nat)] /\ QueueSize \in Nat \ {0} /\ MaxClient \in Nat /\ BytesAfterError \in BOOLEAN

VARIABLES
    sock,               \* the connection in the socket server
    at,                 \* bytes of it that have arrived
    uncomplete,         \* netpack: of each connection nothing, a byte, or a part
    queue,              \* ... the ring of packets
    piece, phase,       \* ... what is left of the message that is filtered
    connection, client_number,
    got                 \* what the handler has been given

pack == <<uncomplete, queue, piece, phase>>
gate == <<connection, client_number, got>>
vars == <<sock, at, pack, gate>>

\* Of each connection the bytes: the size of a packet in two, and its data (0).
Byte == [fd \in Conn |-> FlattenSeq([k \in DOMAIN Packets[fd] |->
            <<0, Packets[fd][k]>> \o [x \in 1..Packets[fd][k] |-> 0]])]
read_size(fd, p) == Byte[fd][p] * 256 + Byte[fd][p + 1]
Slice(p, n) == [k \in 1..n |-> p + k - 1]

Init ==
    /\ sock = [fd \in Conn |-> "none"] /\ at = [fd \in Conn |-> 0]
    /\ uncomplete = [fd \in Conn |-> None]
    /\ queue = [cap |-> QueueSize, head |-> 0, tail |-> 0, data |-> [k \in 0..QueueSize - 1 |-> None]]
    /\ piece = None /\ phase = "idle"
    /\ connection = [fd \in Conn |-> "nil"] /\ client_number = 0
    /\ got = [fd \in Conn |-> <<>>]

------------------------------------------------------------------------------
\* The ring.

\* Mutant: the ring is copied as it lies.
ExpandUnrotated(q) ==
    [cap |-> q.cap + QueueSize, head |-> 0, tail |-> q.cap,
     data |-> [k \in 0..q.cap + QueueSize - 1 |-> IF k < q.cap THEN q.data[k] ELSE None]]
\* expand_queue.
Expand(q) ==
    [cap |-> q.cap + QueueSize, head |-> 0, tail |-> q.cap,
     data |-> [k \in 0..q.cap + QueueSize - 1 |->
                 IF k < q.cap THEN q.data[(q.head + k) % q.cap] ELSE None]]

push_data(q, p) ==
    LET t == IF q.tail + 1 >= q.cap THEN q.tail + 1 - q.cap ELSE q.tail + 1
        n == [q EXCEPT !.data[q.tail] = p, !.tail = t]
    IN IF n.head = n.tail THEN Expand(n) ELSE n
Pop(q) == [q EXCEPT !.head = IF q.head + 1 >= q.cap THEN 0 ELSE q.head + 1]

------------------------------------------------------------------------------
\* netpack.filter: a message with bytes is taken in.

\* dispatch_msg.
Dispatch(p) ==
    got' = IF connection[p.fd] = "yes" THEN [got EXCEPT ![p.fd] = Append(@, p.data)] ELSE got

Receive(fd, n) ==
    /\ phase = "idle" /\ sock[fd] \in {"open", "closing"} \cup (IF BytesAfterError THEN {"failed"} ELSE {})
    /\ at[fd] + n <= Len(Byte[fd])
    /\ at' = [at EXCEPT ![fd] = @ + n]
    /\ piece' = [fd |-> fd, data |-> Slice(at[fd] + 1, n)] /\ phase' = "filter"
    /\ UNCHANGED <<sock, uncomplete, queue, gate>>

\* The bytes s start with a packet: what is kept of it, or the packet and the rest.
Take(fd, s) ==
    IF Len(s) = 1 THEN [part |-> [size |-> -1, data |-> s], rest |-> <<>>]
    ELSE LET size == read_size(fd, s[1])
             have == Len(s) - 2
         IN IF have < size THEN [part |-> [size |-> size, data |-> SubSeq(s, 3, Len(s))], rest |-> <<>>]
            ELSE [part |-> None, data |-> SubSeq(s, 3, 2 + size), rest |-> SubSeq(s, 3 + size, Len(s))]

\* The same with what was kept (uncomplete) before it.
Fill(fd, uc, s) ==
    LET size == IF uc.size < 0 THEN read_size(fd, uc.data[1]) ELSE uc.size
        b == IF uc.size < 0 THEN Tail(s) ELSE uc.data \o s
    IN IF Len(b) < size THEN [part |-> [size |-> size, data |-> b], rest |-> <<>>]
       ELSE [part |-> None, data |-> SubSeq(b, 1, size), rest |-> SubSeq(b, size + 1, Len(b))]

\* filter_data_ looks at what was kept, push_more goes on.  One packet that ends
\* the message, and came first, is not queued.
Filter ==
    /\ phase \in {"filter", "more"}
    /\ LET fd == piece.fd
           uc == uncomplete[fd]
           t == IF phase = "filter" /\ uc # None THEN Fill(fd, uc, piece.data) ELSE Take(fd, piece.data)
       IN \/ /\ t.part # None /\ uncomplete' = [uncomplete EXCEPT ![fd] = t.part]
             /\ phase' = IF phase = "more" THEN "drain" ELSE "idle"
             /\ piece' = None /\ UNCHANGED <<queue, got>>
          \/ /\ t.part = None /\ uncomplete' = [uncomplete EXCEPT ![fd] = None]
             /\ IF phase = "filter" /\ t.rest = <<>>
                THEN Dispatch([fd |-> fd, data |-> t.data]) /\ UNCHANGED queue
                ELSE queue' = push_data(queue, [fd |-> fd, data |-> t.data]) /\ UNCHANGED got
             /\ phase' = IF t.rest # <<>> THEN "more" ELSE IF phase = "more" THEN "drain" ELSE "idle"
             /\ piece' = IF t.rest # <<>> THEN [fd |-> fd, data |-> t.rest] ELSE None
    /\ UNCHANGED <<sock, at, connection, client_number>>

\* dispatch_queue: all packets start to be handled before the next message.
DispatchQueue ==
    /\ phase = "drain"
    /\ IF queue.head = queue.tail THEN phase' = "idle" /\ UNCHANGED <<queue, got>>
       ELSE Dispatch(queue.data[queue.head]) /\ queue' = Pop(queue) /\ UNCHANGED phase
    /\ UNCHANGED <<sock, at, uncomplete, piece, connection, client_number>>

------------------------------------------------------------------------------
\* Other messages of the socket server, and calls of the handler.

\* MSG.open.
Open(fd) ==
    IF client_number >= MaxClient THEN sock' = [sock EXCEPT ![fd] = "closing"] /\ UNCHANGED gate
    ELSE /\ sock' = [sock EXCEPT ![fd] = "accepted"]
         /\ connection' = [connection EXCEPT ![fd] = "yes"]
         /\ client_number' = client_number + 1 /\ UNCHANGED got

Accept(fd) == phase = "idle" /\ sock[fd] = "none" /\ Open(fd) /\ UNCHANGED <<at, pack>>

\* gateserver.openclient, gateserver.closeclient.
OpenClient(fd) ==
    /\ phase = "idle" /\ sock[fd] = "accepted" /\ connection[fd] = "yes"
    /\ sock' = [sock EXCEPT ![fd] = "open"] /\ UNCHANGED <<at, pack, gate>>
CloseClient(fd) ==
    /\ phase = "idle" /\ connection[fd] = "yes" /\ sock[fd] \in {"accepted", "open"}
    /\ connection' = [connection EXCEPT ![fd] = "nil"] /\ sock' = [sock EXCEPT ![fd] = "closing"]
    /\ UNCHANGED <<at, pack, client_number, got>>

\* MSG.error: the socket is shut down, and its end is told after that.
Error(fd) ==
    /\ phase = "idle" /\ sock[fd] = "open" /\ sock' = [sock EXCEPT ![fd] = "failed"]
    /\ uncomplete' = [uncomplete EXCEPT ![fd] = None]
    /\ UNCHANGED <<at, queue, piece, phase, gate>>

\* MSG.close, by the other side or after a shutdown.
Close(fd) ==
    /\ phase = "idle" /\ sock[fd] \in {"open", "closing", "failed"} /\ sock' = [sock EXCEPT ![fd] = "closed"]
    /\ uncomplete' = [uncomplete EXCEPT ![fd] = None]
    /\ client_number' = client_number - 1
    /\ connection' = IF connection[fd] = "yes" THEN [connection EXCEPT ![fd] = "no"] ELSE connection
    /\ UNCHANGED <<at, queue, piece, phase, got>>

Next ==
    \/ Filter \/ DispatchQueue
    \/ \E fd \in Conn :
        \/ Accept(fd) \/ OpenClient(fd) \/ CloseClient(fd) \/ Error(fd) \/ Close(fd)
        \/ \E n \in 1..MaxMore : Receive(fd, n)
Spec == Init /\ [][Next]_vars

------------------------------------------------------------------------------
\* Properties.

\* Where in the stream packet k is, and the packets whose last byte has arrived.
Start(fd, k) == FoldSeq(+, 0, SubSeq(Packets[fd], 1, k - 1)) + 2 * k
Whole(fd) == {k \in DOMAIN Packets[fd] : Start(fd, k) + Packets[fd][k] <= at[fd]}

\* The handler is given the packets as they were sent, every one that is whole
\* while the connection is open and nothing is in work, and none twice.
Reassembled ==
    \A fd \in Conn :
        /\ \A k \in DOMAIN got[fd] : k \in DOMAIN Packets[fd] /\ got[fd][k] = Slice(Start(fd, k) + 1, Packets[fd][k])
        /\ phase = "idle" /\ sock[fd] = "open" => Len(got[fd]) = Cardinality(Whole(fd))

\* Nothing of a packet is kept for a connection that is closed, and something
\* for an open one exactly when a packet has begun to arrive.
NothingKept ==
    phase = "idle" =>
        /\ queue.head = queue.tail
        /\ \A fd \in Conn : sock[fd] = "closed" => uncomplete[fd] = None
        /\ \A fd \in Conn : sock[fd] = "open" =>
              (uncomplete[fd] = None <=> \E k \in 0..Len(Packets[fd]) : at[fd] = Start(fd, k + 1) - 2)

\* There are at most as many clients as the limit says.
Clients == {fd \in Conn : connection[fd] = "yes"}
Limited == Cardinality(Clients) <= MaxClient
================================================================================
