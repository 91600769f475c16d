---------------------------------- MODULE Gate ----------------------------------
\* The gate in C (service-src/service_gate.c, with databuffer.h and hashid.h):
\* connections have slots that are found by a hash of their id, bytes are kept in
\* the pieces they came in, packets go to the agent, the broker or the watchdog.
\* A byte is its position in the stream of its connection.
EXTENDS Integers, Sequences, FiniteSets, SequencesExt, Folds

CONSTANTS
    Conn,               \* ids of connections
    Packets,            \* of each the sizes of the packets that are sent
    max_connection,     \* slots
    HashCap,            \* size of the hash: 16 or more in the code
    header_size,        \* bytes of the size of a packet
    MaxMore,            \* bound on the bytes of one piece
    None

GateAssumption ==
    /\ Conn \subseteq Nat /\ Packets \in [Conn -> Seq(Nat)] /\ max_connection \in Nat \ {0}
    /\ HashCap >= max_connection /\ header_size \in {2, 4}

VARIABLES
    sock, at,           \* the connection in the socket server, its bytes that have arrived
    id, hash,           \* hashid: of each slot the id or -1, of each hash a list of slots
    conn, busy,         \* of each slot its connection; the slot whose bytes are read
    broker,
    out, reports,       \* of each connection what was sent and where, and what was reported
    forwarded           \* connections the watchdog has forwarded

hashid == <<id, hash>>
told == <<out, reports, forwarded>>
vars == <<sock, at, hashid, conn, busy, broker, told>>

Slot == 0..max_connection - 1
Empty == [agent |-> FALSE, header |-> 0, offset |-> 0, pieces |-> <<>>]

Byte == [c \in Conn |-> FlattenSeq([k \in DOMAIN Packets[c] |->
            [x \in 1..header_size |-> IF x = header_size THEN Packets[c][k] ELSE 0]
            \o [x \in 1..Packets[c][k] |-> 0]])]
Slice(p, n) == [k \in 1..n |-> p + k - 1]

Init ==
    /\ sock = [c \in Conn |-> "none"] /\ at = [c \in Conn |-> 0]
    /\ id = [s \in Slot |-> -1] /\ hash = [h \in 0..HashCap - 1 |-> <<>>]
    /\ conn = [s \in Slot |-> Empty] /\ busy = None /\ broker = FALSE
    /\ out = [c \in Conn |-> <<>>] /\ reports = [c \in Conn |-> <<>>] /\ forwarded = {}

------------------------------------------------------------------------------
\* hashid.

hashid_lookup(c) ==
    LET l == SelectSeq(hash[c % HashCap], LAMBDA s : id[s] = c)
    IN IF l = <<>> THEN -1 ELSE l[1]
hashid_full == \A s \in Slot : id[s] # -1

hashid_insert(c) ==
    LET i == CHOOSE i \in Slot : /\ id[(i + c) % max_connection] = -1
                                 /\ \A j \in 0..i - 1 : id[(j + c) % max_connection] # -1
        s == (i + c) % max_connection
    IN /\ id' = [id EXCEPT ![s] = c]
       /\ hash' = [hash EXCEPT ![c % HashCap] = <<s>> \o @]
hashid_remove(c) ==
    LET s == hashid_lookup(c)
    IN /\ id' = [id EXCEPT ![s] = -1]
       /\ hash' = [hash EXCEPT ![c % HashCap] = SelectSeq(@, LAMBDA x : x # s)]

------------------------------------------------------------------------------
\* databuffer.

Total(p) == FoldSeq(LAMBDA x, n : n + Len(x), 0, p)
Size(d) == Total(d.pieces) - d.offset
Data(d) == LET b == FlattenSeq(d.pieces) IN SubSeq(b, d.offset + 1, Len(b))

\* databuffer_read: pieces that are used up are given back.
Read(d, n) ==
    LET used == {k \in 0..Len(d.pieces) : Total(SubSeq(d.pieces, 1, k)) <= d.offset + n}
        k == CHOOSE k \in used : \A l \in used : l <= k
    IN [d EXCEPT !.pieces = SubSeq(@, k + 1, Len(@)),
                 !.offset = @ + n - Total(SubSeq(d.pieces, 1, k))]

HeaderOf(c, d) == FoldLeft(LAMBDA n, p : n * 256 + Byte[c][p], 0, SubSeq(Data(d), 1, header_size))

------------------------------------------------------------------------------
\* Messages of the socket server.

Accept(c) ==
    /\ busy = None /\ sock[c] = "none"
    /\ IF hashid_full
       THEN sock' = [sock EXCEPT ![c] = "closing"] /\ UNCHANGED <<hashid, reports>>
       ELSE /\ hashid_insert(c) /\ sock' = [sock EXCEPT ![c] = "accepted"]
            /\ reports' = [reports EXCEPT ![c] = Append(@, "open")]
    /\ UNCHANGED <<at, conn, busy, broker, out, forwarded>>

\* CLOSE, and ERROR, after which the socket server may still have the socket.
Close(c, s) ==
    /\ busy = None /\ sock[c] \in {"open", "closing", "failed"} \ {s}
    /\ sock' = [sock EXCEPT ![c] = s]
    /\ IF hashid_lookup(c) >= 0
       THEN /\ hashid_remove(c) /\ conn' = [conn EXCEPT ![hashid_lookup(c)] = Empty]
            /\ reports' = [reports EXCEPT ![c] = Append(@, "close")]
       ELSE UNCHANGED <<hashid, conn, reports>>
    /\ UNCHANGED <<at, busy, broker, out, forwarded>>

\* DATA: bytes of a connection that has a slot are kept, then read.
Receive(c, n) ==
    /\ busy = None /\ sock[c] \in {"open", "closing", "failed"} /\ at[c] + n <= Len(Byte[c])
    /\ at' = [at EXCEPT ![c] = @ + n]
    /\ LET s == hashid_lookup(c)
       IN IF s >= 0 THEN /\ conn' = [conn EXCEPT ![s].pieces = Append(@, Slice(at[c] + 1, n))]
                         /\ busy' = s /\ UNCHANGED sock
          ELSE sock' = [sock EXCEPT ![c] = "closing"] /\ UNCHANGED <<conn, busy>>
    /\ UNCHANGED <<hashid, broker, told>>

\* One turn of dispatch_message: the header, the packet if it is whole.
Dispatch ==
    /\ busy # None
    /\ LET d == conn[busy]
           c == id[busy]
           h == IF d.header = 0 /\ Size(d) >= header_size
                THEN [Read(d, header_size) EXCEPT !.header = HeaderOf(c, d)] ELSE d
       IN IF (d.header = 0 /\ Size(d) < header_size) \/ Size(h) < h.header
          THEN conn' = [conn EXCEPT ![busy] = h] /\ busy' = None /\ UNCHANGED out
          ELSE /\ conn' = [conn EXCEPT ![busy] = IF h.header = 0 THEN h
                                                 ELSE [Read(h, h.header) EXCEPT !.header = 0]]
               /\ out' = IF h.header = 0 THEN out
                         ELSE [out EXCEPT ![c] = Append(@,
                                 [to |-> IF broker THEN "broker" ELSE IF h.agent THEN "agent" ELSE "watchdog",
                                  data |-> SubSeq(Data(h), 1, h.header)])]
               /\ UNCHANGED busy
    /\ UNCHANGED <<sock, at, hashid, broker, reports, forwarded>>

------------------------------------------------------------------------------
\* Commands of the watchdog; they may come when the connection is gone.

Known(c) == busy = None /\ hashid_lookup(c) >= 0
Start(c) ==
    /\ Known(c) /\ sock[c] = "accepted" /\ sock' = [sock EXCEPT ![c] = "open"]
    /\ UNCHANGED <<at, hashid, conn, busy, broker, told>>
Forward(c) ==
    /\ Known(c) /\ conn' = [conn EXCEPT ![hashid_lookup(c)].agent = TRUE]
    /\ forwarded' = forwarded \cup {c}
    /\ UNCHANGED <<sock, at, hashid, busy, broker, out, reports>>
Kick(c) ==
    /\ Known(c) /\ sock[c] \in {"accepted", "open"} /\ sock' = [sock EXCEPT ![c] = "closing"]
    /\ UNCHANGED <<at, hashid, conn, busy, broker, told>>
Broker == busy = None /\ ~broker /\ broker' = TRUE /\ UNCHANGED <<sock, at, hashid, conn, busy, told>>

Next ==
    \/ Dispatch \/ Broker
    \/ \E c \in Conn : \/ Accept(c) \/ Close(c, "closed") \/ Close(c, "failed") \/ Start(c) \/ Forward(c) \/ Kick(c)
                       \/ \E n \in 1..MaxMore : Receive(c, n)
Spec == Init /\ [][Next]_vars

------------------------------------------------------------------------------
\* Properties.

\* The packets with data, each with where its data begins.
Begin(c, k) == FoldSeq(+, 0, SubSeq(Packets[c], 1, k - 1)) + header_size * k + 1
Full(c) == SelectSeq([k \in DOMAIN Packets[c] |-> k], LAMBDA k : Packets[c][k] > 0)
Whole(c) == {k \in ToSet(Full(c)) : Begin(c, k) + Packets[c][k] - 1 <= at[c]}

\* The packets of a connection are sent on as they came, all that are whole, once.
Reassembled ==
    \A c \in Conn :
        /\ \A k \in DOMAIN out[c] : k \in DOMAIN Full(c)
              /\ out[c][k].data = Slice(Begin(c, Full(c)[k]), Packets[c][Full(c)[k]])
        /\ busy = None /\ sock[c] = "open" => Len(out[c]) = Cardinality(Whole(c))

\* A slot has exactly the connections between their open and their close, each
\* is found, and nobody who is not there.
Found ==
    \A c \in Conn : LET s == hashid_lookup(c) IN
        /\ s >= 0 => id[s] = c
        /\ s >= 0 <=> reports[c] = <<"open">>

\* A packet goes to an agent only if this connection was forwarded to it.
OwnAgent == \A c \in Conn : (\E k \in DOMAIN out[c] : out[c][k].to = "agent") => c \in forwarded
================================================================================
