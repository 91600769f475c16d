---------------------------- MODULE SocketWrite ----------------------------
\* Sending on a TCP socket (skynet-src/socket_server.c).  A worker writes to the
\* socket itself when nothing waits to be sent, under a lock that it only tries;
\* otherwise it counts the request in `sending` and hands it to the socket
\* thread through a pipe.  One slot, whose socket is closed and opened again
\* under another id while workers still hold the old one.
EXTENDS Integers, Sequences, FiniteSets, SequencesExt

CONSTANTS
    Worker,      \* worker threads, each running one service
    Ops,         \* what services do: "send", "low", "close", "shutdown"; "late":
                 \* send after a close; "early": send before the socket is open
    Size,        \* bytes of a package
    MaxPackage,  \* bound on the packages of a worker
    MaxId,       \* bound on the ids of the slot
    MaxSending,  \* 0xffff: the largest count that `sending` holds
    None

SocketWriteAssumption ==
    /\ Size \in Nat \ {0} /\ MaxPackage \in Nat /\ MaxId \in Nat /\ MaxSending \in Nat \ {0}
    /\ None \notin Worker

VARIABLES
    type, id, protocol, fd, closing, writing,  \* struct socket
    sending,     \* the count, with the tag of the id it is for
    high, low,   \* write buffers: a package and how much of it is written
    dw,          \* dw_buffer and dw_offset: what a direct write left over
    lock,        \* dw_lock
    pipe,        \* requests to the socket thread
    freeing,     \* the socket thread is in force_close, before the lock
    pc, job,     \* what a worker does
    wire,        \* bytes written to each connection
    broken,      \* connections that refuse to be written
    last,        \* last id of the slot
    sent,        \* packages of a worker
    accepted,    \* packages for which the send has returned 0
    due, ended   \* packages accepted before the first close; ids shut down or lost

socket == <<type, id, protocol, fd, closing, writing>>
buffers == <<high, low, dw>>
history == <<wire, accepted, due, ended>>
vars == <<socket, sending, buffers, lock, pipe, freeing, pc, job, broken, last,
          sent, history>>

Ids == 1 .. MaxId
NoJob == [id |-> 0, pkg |-> None]

Init ==
    /\ type = "INVALID" /\ id = 0 /\ protocol = "UNKNOWN" /\ fd = 0
    /\ closing = FALSE /\ writing = FALSE
    /\ sending = [tag |-> 0, n |-> 0]
    /\ high = <<>> /\ low = <<>> /\ dw = <<>>
    /\ lock = None /\ pipe = <<>> /\ freeing = FALSE
    /\ pc = [w \in Worker |-> "idle"] /\ job = [w \in Worker |-> NoJob]
    /\ broken = {} /\ last = 0 /\ sent = [w \in Worker |-> 0]
    /\ wire = [i \in Ids |-> <<>>] /\ accepted = [i \in Ids |-> {}]
    /\ due = [i \in Ids |-> {}] /\ ended = {}

------------------------------------------------------------------------------
\* Workers.

Request(cmd, i, pkg) == pipe' = Append(pipe, [cmd |-> cmd, id |-> i, pkg |-> pkg])

\* socket_server_connect: reserve_id takes the slot.
Connect ==
    /\ type = "INVALID" /\ last < MaxId
    /\ last' = last + 1
    /\ type' = "RESERVE" /\ id' = last' /\ protocol' = "UNKNOWN" /\ fd' = 0
    /\ Request("O", last', None)
    /\ UNCHANGED <<closing, writing, sending, buffers, lock, freeing, pc, job,
                   broken, sent, history>>

socket_invalid(i) == id # i \/ type = "INVALID"

\* Ids that a service may use: those that were reported open, or all ("early").
Known == {i \in 1 .. last : i = last /\ type = "RESERVE" => "early" \in Ops}

\* socket_server_send and socket_server_send_lowpriority.
Begin(w, i, op) ==
    /\ pc[w] = "idle" /\ op \in Ops /\ sent[w] < MaxPackage
    /\ i \in ended => "late" \in Ops
    /\ sent' = [sent EXCEPT ![w] = @ + 1]
    /\ IF socket_invalid(i) \/ (op = "send" /\ closing) THEN UNCHANGED <<pc, job>>
       ELSE /\ pc' = [pc EXCEPT ![w] = IF op = "low" THEN "incP" ELSE "try"]
            /\ job' = [job EXCEPT ![w] = [id |-> i, pkg |-> <<w, sent'[w], i, op>>]]
    /\ UNCHANGED <<socket, sending, buffers, lock, pipe, freeing, broken, last,
                   history>>

nomore_sending_data ==
    \/ high = <<>> /\ low = <<>> /\ dw = <<>> /\ sending.n = 0
    \/ type = "HALFCLOSE_WRITE"

can_direct_write(i) == id = i /\ nomore_sending_data /\ type = "CONNECTED"

MayWrite(w) ==
    /\ pc[w] = "try"
    /\ pc' = [pc EXCEPT ![w] = IF can_direct_write(job[w].id) THEN "lock" ELSE "incD"]
    /\ UNCHANGED <<socket, sending, buffers, lock, pipe, freeing, job, broken, last,
                   sent, history>>

TryLock(w) ==
    /\ pc[w] = "lock"
    /\ IF lock = None THEN lock' = w /\ pc' = [pc EXCEPT ![w] = "check"]
       ELSE pc' = [pc EXCEPT ![w] = "incD"] /\ UNCHANGED lock
    /\ UNCHANGED <<socket, sending, buffers, pipe, freeing, job, broken, last,
                   sent, history>>

\* Mutant: the condition is not looked at again under the lock.
CheckOnce(w) ==
    /\ pc[w] = "check"
    /\ pc' = [pc EXCEPT ![w] = "write"]
    /\ UNCHANGED <<socket, sending, buffers, lock, pipe, freeing, job, broken,
                   last, sent, history>>

\* "may be we can send directly, double check"
DoubleCheck(w) ==
    /\ pc[w] = "check"
    /\ IF can_direct_write(job[w].id)
       THEN pc' = [pc EXCEPT ![w] = "write"] /\ UNCHANGED lock
       ELSE pc' = [pc EXCEPT ![w] = "incD"] /\ lock' = None
    /\ UNCHANGED <<socket, sending, buffers, pipe, freeing, job, broken, last,
                   sent, history>>

Bytes(pkg, n) == [k \in 1 .. n |-> pkg]

Accept(w) ==
    /\ pc' = [pc EXCEPT ![w] = "idle"]
    /\ job' = [job EXCEPT ![w] = NoJob]
    /\ accepted' = [accepted EXCEPT ![job[w].id] = @ \cup {job[w].pkg}]

\* The write to the file of the slot; what is left over waits in dw_buffer.
DirectWrite(w) ==
    /\ pc[w] = "write"
    /\ lock' = None
    /\ \E n \in IF fd \in broken \cup {0} THEN {0} ELSE 0 .. Size :
          /\ wire' = IF fd = 0 THEN wire
                     ELSE [wire EXCEPT ![fd] = @ \o Bytes(job[w].pkg, n)]
          /\ IF n = Size THEN Accept(w) /\ UNCHANGED dw
             ELSE /\ dw' = <<[pkg |-> job[w].pkg, off |-> n]>>
                  /\ pc' = [pc EXCEPT ![w] = "trigger"]
                  /\ UNCHANGED <<job, accepted>>
    /\ UNCHANGED <<socket, sending, high, low, pipe, freeing, broken, last, sent,
                   due, ended>>

\* "let socket thread enable write event"
Trigger(w) ==
    /\ pc[w] = "trigger"
    /\ Request("W", job[w].id, None)
    /\ Accept(w)
    /\ UNCHANGED <<socket, sending, buffers, lock, freeing, broken, last, sent,
                   wire, due, ended>>

\* inc_sending_ref, which waits while the count is at its limit.
inc_sending_ref(w) ==
    /\ \/ pc[w] = "incD" /\ pc' = [pc EXCEPT ![w] = "D"]
       \/ pc[w] = "incP" /\ pc' = [pc EXCEPT ![w] = "P"]
    /\ IF protocol = "TCP" /\ sending.tag = job[w].id
       THEN sending.n < MaxSending /\ sending' = [sending EXCEPT !.n = @ + 1]
       ELSE UNCHANGED sending
    /\ UNCHANGED <<socket, buffers, lock, pipe, freeing, job, broken, last, sent,
                   history>>

PushSend(w) ==
    /\ pc[w] \in {"D", "P"}
    /\ Request(pc[w], job[w].id, job[w].pkg)
    /\ Accept(w)
    /\ UNCHANGED <<socket, sending, buffers, lock, freeing, broken, last, sent,
                   wire, due, ended>>

\* socket_server_close and socket_server_shutdown.  What was accepted before
\* the first close of an id is due.
Close(w, i, op) ==
    /\ pc[w] = "idle" /\ op \in Ops /\ i \notin ended
    /\ Request("K", i, <<op>>)
    /\ ended' = ended \cup {i}
    /\ due' = [due EXCEPT ![i] = IF op = "close" THEN accepted[i] ELSE {}]
    /\ UNCHANGED <<socket, sending, buffers, lock, freeing, pc, job, broken,
                   last, sent, wire, accepted>>

WorkerStep(w) ==
    \/ MayWrite(w) \/ TryLock(w) \/ DoubleCheck(w) \/ DirectWrite(w)
    \/ Trigger(w) \/ inc_sending_ref(w) \/ PushSend(w)

------------------------------------------------------------------------------
\* The socket thread: requests.

Command(cmds) == /\ ~freeing /\ pipe # <<>> /\ Head(pipe).cmd \in cmds
                 /\ pipe' = Tail(pipe)

\* open_socket: new_fd sets up the slot, or the connection fails at once.
Open ==
    LET i == Head(pipe).id
    IN /\ Command({"O"})
       /\ \/ /\ type' = "CONNECTED" /\ fd' = i /\ protocol' = "TCP"
             /\ closing' = FALSE /\ writing' = FALSE
             /\ sending' = [tag |-> i, n |-> 0]
             /\ dw' = <<>>
          \/ type' = "INVALID" /\ UNCHANGED <<protocol, fd, closing, writing,
                                              sending, dw>>
       /\ UNCHANGED <<id, high, low, lock, freeing, pc, job, broken, last, sent,
                      history>>

\* Mutant: the write event is not enabled.
TriggerNothing ==
    /\ Command({"W"})
    /\ UNCHANGED <<socket, sending, buffers, lock, freeing, pc, job, broken, last,
                   sent, history>>

\* trigger_write.
TriggerWrite ==
    /\ Command({"W"})
    /\ writing' = (writing \/ ~socket_invalid(Head(pipe).id))
    /\ UNCHANGED <<type, id, protocol, fd, closing, sending, buffers, lock,
                   freeing, pc, job, broken, last, sent, history>>

\* send_socket and dec_sending_ref with its assertion.
Counted(r) == id = r.id /\ protocol = "TCP"
SendSocket ==
    LET r == Head(pipe)
        buf == [pkg |-> r.pkg, off |-> 0]
    IN /\ Command({"D", "P"})
       /\ IF type \in {"INVALID", "HALFCLOSE_WRITE"} \/ id # r.id \/ closing
          THEN UNCHANGED <<high, low, writing>>
          ELSE IF high = <<>> /\ low = <<>>
          THEN high' = <<buf>> /\ writing' = TRUE /\ UNCHANGED low
          ELSE /\ IF r.cmd = "P" THEN low' = Append(low, buf) /\ UNCHANGED high
                  ELSE high' = Append(high, buf) /\ UNCHANGED low
               /\ UNCHANGED writing
       /\ IF Counted(r) THEN /\ sending.n # 0
                             /\ sending' = [sending EXCEPT !.n = @ - 1]
          ELSE UNCHANGED sending
       /\ UNCHANGED <<type, id, protocol, fd, closing, dw, lock, freeing, pc, job,
                      broken, last, sent, history>>

\* The first part of force_close; the second waits for the lock.
ForceClose == high' = <<>> /\ low' = <<>> /\ freeing' = TRUE

\* close_socket: at once, or when everything has been sent.
CloseWhen(nomore) ==
    LET r == Head(pipe)
    IN /\ Command({"K"})
       /\ IF socket_invalid(r.id) THEN UNCHANGED <<socket, high, low, freeing>>
          ELSE IF r.pkg = <<"shutdown">> \/ nomore THEN ForceClose /\ UNCHANGED socket
          ELSE /\ closing' = TRUE
               /\ type' = "HALFCLOSE_READ"
               /\ UNCHANGED <<id, protocol, fd, writing, high, low, freeing>>
       /\ UNCHANGED <<sending, dw, lock, pc, job, broken, last, sent, history>>

CloseSocket == CloseWhen(nomore_sending_data)

------------------------------------------------------------------------------
\* The socket thread: events.

\* The second part of force_close, under the lock.
Free ==
    /\ freeing /\ lock = None
    /\ type' = "INVALID" /\ dw' = <<>> /\ fd' = 0
    /\ freeing' = FALSE
    /\ UNCHANGED <<id, protocol, closing, writing, sending, high, low, lock, pipe,
                   pc, job, broken, last, sent, history>>

\* The bytes of a list, and the list after n of them have been written.
Left(b) == Size - b.off
ListBytes(list) == FlattenSeq([i \in DOMAIN list |-> Bytes(list[i].pkg, Left(list[i]))])
After(list, n) ==
    LET took(acc, b) == IF acc.n >= Left(b) THEN [acc EXCEPT !.n = @ - Left(b)]
                        ELSE [n |-> 0, rest |-> Append(acc.rest, [b EXCEPT !.off = @ + acc.n])]
    IN FoldLeft(took, [n |-> n, rest |-> <<>>], list).rest

\* "add direct write buffer before high.head"
Queued == dw \o high

Writable == /\ ~freeing /\ writing /\ lock = None
            /\ type \in {"CONNECTED", "HALFCLOSE_READ", "HALFCLOSE_WRITE"}

\* send_buffer: the kernel takes n bytes of the high list, then of the low list;
\* a package of the low list that is written in part is raised to the high list.
Waiting == ListBytes(Queued \o low)
SendBytes(n) ==
    LET l == Len(ListBytes(Queued))
        rest == After(low, IF n > l THEN n - l ELSE 0)
        raise == n > l /\ rest # <<>> /\ rest[1].off > 0
    IN /\ Writable /\ (fd \in broken => Waiting = <<>>)
       /\ wire' = [wire EXCEPT ![fd] = @ \o SubSeq(Waiting, 1, n)]
       /\ high' = IF n < l THEN After(Queued, n) ELSE IF raise THEN <<rest[1]>> ELSE <<>>
       /\ low' = IF raise THEN Tail(rest) ELSE rest
       /\ writing' = (n < Len(Waiting))
       /\ IF n = Len(Waiting) /\ closing
          THEN type' = "INVALID" /\ fd' = 0 ELSE UNCHANGED <<type, fd>>
       /\ dw' = <<>>
       /\ UNCHANGED <<id, protocol, closing, sending, lock, pipe, freeing, pc,
                      job, broken, last, sent, accepted, due, ended>>
SendBuffer == \E n \in 0 .. Len(Waiting) : SendBytes(n)

\* close_write: the write fails.
SendFails ==
    /\ Writable /\ fd \in broken /\ Queued \o low # <<>>
    /\ IF closing \/ type = "HALFCLOSE_READ"
       THEN /\ type' = "INVALID" /\ fd' = 0 /\ high' = <<>> /\ low' = <<>>
            /\ UNCHANGED writing
       ELSE /\ type' = "HALFCLOSE_WRITE" /\ high' = Queued /\ UNCHANGED <<fd, low>>
            /\ writing' = (writing /\ type = "HALFCLOSE_WRITE")
    /\ dw' = <<>>
    /\ UNCHANGED <<id, protocol, closing, sending, lock, pipe, freeing, pc, job,
                   broken, last, sent, history>>

\* The peer has closed: forward_message_tcp reads nothing.
ReadEnd ==
    /\ ~freeing
    /\ \/ /\ type = "CONNECTED" /\ type' = "HALFCLOSE_READ"
          /\ UNCHANGED <<high, low, freeing>>
       \/ type = "HALFCLOSE_WRITE" /\ ForceClose /\ UNCHANGED type
    /\ UNCHANGED <<id, protocol, fd, closing, writing, sending, dw, lock, pipe, pc,
                   job, broken, last, sent, history>>

\* The poll reports a hang-up until the socket is closed.
HangUp ==
    /\ ~freeing /\ fd \in broken /\ ForceClose
    /\ UNCHANGED <<socket, sending, dw, lock, pipe, pc, job, broken, last, sent,
                   history>>

\* The connection is lost: writes fail from now on.
Lose ==
    /\ fd # 0 /\ broken' = broken \cup {fd}
    /\ UNCHANGED <<socket, sending, buffers, lock, pipe, freeing, pc, job, last,
                   sent, history>>

SocketThread ==
    \/ Open \/ TriggerWrite \/ SendSocket \/ CloseSocket \/ Free \/ SendBuffer
    \/ SendFails \/ HangUp

Next ==
    \/ Connect \/ SocketThread \/ ReadEnd \/ Lose
    \/ \E w \in Worker :
          \/ WorkerStep(w)
          \/ \E i \in Known : \/ \E op \in {"send", "low"} : Begin(w, i, op)
                              \/ \E op \in {"close", "shutdown"} : Close(w, i, op)

\* The threads go on, and a connection that is not lost takes bytes.
Fairness ==
    /\ WF_vars(SocketThread)
    /\ WF_vars(SendBytes(Len(Waiting)))
    /\ \A w \in Worker : WF_vars(WorkerStep(w))

Spec == Init /\ [][Next]_vars
FairSpec == Spec /\ Fairness

------------------------------------------------------------------------------
\* Properties.

Package == Worker \X (1 .. MaxPackage) \X Ids \X {"send", "low"}
Whole(i) == {p \in accepted[i] : Len(SelectSeq(wire[i], LAMBDA b : b = p)) = Size}

\* Packages are written whole, one after the other, and to the connection they
\* were sent to: a direct write never falls between the parts of another
\* package, nor on the connection that took over the slot.
PackagesWhole ==
    \A i \in Ids : \A j, k \in DOMAIN wire[i] :
        /\ wire[i][k][3] = i
        /\ wire[i][j] = wire[i][k] <=> (j - 1) \div Size = (k - 1) \div Size

\* Packages of a worker with the same priority are written in the order sent.
WireInOrder ==
    \A i \in Ids : \A j, k \in DOMAIN wire[i] :
        /\ j < k
        /\ wire[i][j][1] = wire[i][k][1] /\ wire[i][j][4] = wire[i][k][4]
        => wire[i][j][2] <= wire[i][k][2]

\* The file that a worker is about to write is that of its own socket and open.
OwnFile == \A w \in Worker : pc[w] = "write" => fd = job[w].id

\* The count is exact: it is never taken below zero (the assertion of
\* dec_sending_ref), and it is zero only if no request of the socket is on its way.
SendingExact ==
    id # 0 /\ protocol = "TCP" /\ sending.tag = id =>
        sending.n =
            Cardinality({k \in DOMAIN pipe : pipe[k].cmd \in {"D", "P"} /\ pipe[k].id = id})
            + Cardinality({w \in Worker : pc[w] \in {"D", "P"} /\ job[w].id = id})
DecIsSafe ==
    pipe # <<>> /\ Head(pipe).cmd \in {"D", "P"} /\ Counted(Head(pipe)) => sending.n # 0

\* close sends first what was accepted before it, unless the connection is lost.
GracefulClose ==
    \A i \in Ids : i \notin broken /\ (i < id \/ (i = id /\ type = "INVALID")) =>
        due[i] \subseteq Whole(i)

\* A socket that is being closed is closed in the end ("waiting for sending data out"),
ClosesInTheEnd == closing ~> type \in {"INVALID", "RESERVE"} \/ ~closing

============================================================================
