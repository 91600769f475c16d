---------------------------- MODULE SocketServer ----------------------------
\* The life of sockets (skynet-src/socket_server.c).  Services reserve slots and
\* send commands through a pipe; the socket thread carries them out before it
\* handles a batch of events, and reports to the services what has happened.
\* What a connection still has to send is a flag here (SocketWrite has the rest).
EXTENDS Integers, Sequences, FiniteSets, SequencesExt

CONSTANTS
    Slots,     \* number of slots; MAX_SOCKET
    MaxId,     \* bound on the ids that are given out
    Cmds,      \* the commands that services use
    Budget,    \* bound on the commands after a socket was reserved
    Inbox      \* bound on what a peer sends

SocketServerAssumption == Slots \in Nat \ {0} /\ MaxId \in Nat

VARIABLES
    sock,       \* the slots
    alloc,      \* alloc_id
    reserving,  \* a worker in reserve_id: it has the slot but not set the id
    pipe,       \* commands to the socket thread
    ctrl,       \* checkctrl
    events,     \* the events of a batch that wait, each with its slot
    closed,     \* id for which clear_closed_event is called next, or 0
    given,      \* history: the ids that were given out
    log,        \* what was reported for an id
    budget

issued == <<alloc, given>>
vars == <<sock, issued, reserving, pipe, ctrl, events, closed, log, budget>>

Slot == 0 .. Slots - 1
HASH_ID(i) == i % Slots
Ids == 1 .. MaxId
Free == [id |-> 0, type |-> "INVALID", tcp |-> FALSE, closing |-> FALSE,
         reading |-> FALSE, writing |-> FALSE, unsent |-> FALSE,
         peer |-> "none", inbox |-> 0]
NULL == Slots  \* no slot
NoReserve == [slot |-> 0, id |-> 0, cmd |-> "none"]

Init ==
    /\ sock = [x \in Slot |-> Free]
    /\ alloc = 0 /\ given = {} /\ reserving = NoReserve
    /\ pipe = <<>> /\ ctrl = TRUE /\ events = <<>> /\ closed = 0
    /\ log = [i \in Ids |-> <<>>] /\ budget = Budget

socket_invalid(i) == sock[HASH_ID(i)].id # i \/ sock[HASH_ID(i)].type = "INVALID"
Registered(x) == sock[x].type \notin {"INVALID", "RESERVE"}

------------------------------------------------------------------------------
\* Services.

\* reserve_id: the next id whose slot is free.
NextId == {i \in alloc + 1 .. MaxId :
              /\ sock[HASH_ID(i)].type = "INVALID"
              /\ \A j \in alloc + 1 .. i - 1 : sock[HASH_ID(j)].type # "INVALID"}

\* The slot is taken in one step and gets its id in another.
Reserve(cmd) ==
    /\ reserving = NoReserve /\ cmd \in Cmds
    /\ \E i \in NextId :
          /\ alloc' = i /\ given' = given \cup {i}
          /\ reserving' = [slot |-> HASH_ID(i), id |-> i, cmd |-> cmd]
          /\ sock' = [sock EXCEPT ![HASH_ID(i)].type = "RESERVE"]
    /\ UNCHANGED <<pipe, ctrl, events, closed, log, budget>>

\* socket_server_connect and socket_server_listen.
Reserved ==
    /\ reserving # NoReserve
    /\ sock' = [sock EXCEPT ![reserving.slot] =
                   [@ EXCEPT !.id = reserving.id, !.tcp = FALSE]]
    /\ pipe' = Append(pipe, <<reserving.cmd, reserving.id>>)
    /\ reserving' = NoReserve
    /\ UNCHANGED <<issued, ctrl, events, closed, log, budget>>

\* socket_server_close, shutdown, start, pause and send: K, X, R, S and D.
Command(cmd, i) ==
    /\ budget > 0 /\ cmd \in Cmds
    /\ i <= alloc /\ i # reserving.id
    /\ cmd = "D" => ~socket_invalid(i) /\ Registered(HASH_ID(i)) /\ ~sock[HASH_ID(i)].closing
    /\ pipe' = Append(pipe, <<cmd, i>>)
    /\ budget' = budget - 1
    /\ UNCHANGED <<sock, issued, reserving, ctrl, events, closed, log>>

------------------------------------------------------------------------------
\* Peers and the kernel.

PeerStep(x) ==
    /\ \/ /\ sock[x].peer = "pending"
          /\ \E p \in {"up", "refused"} : sock' = [sock EXCEPT ![x].peer = p]
       \/ /\ sock[x].peer = "up" /\ sock[x].inbox < Inbox
          /\ sock' = [sock EXCEPT ![x].inbox = @ + 1]
       \/ /\ sock[x].peer = "up" /\ sock' = [sock EXCEPT ![x].peer = "fin"]
       \/ /\ sock[x].peer \in {"up", "fin"}
          /\ \E p \in {"hup", "reset"} : sock' = [sock EXCEPT ![x].peer = p]
       \/ /\ sock[x].peer = "quiet" /\ sock' = [sock EXCEPT ![x].peer = "backlog"]
    /\ UNCHANGED <<issued, reserving, pipe, ctrl, events, closed, log, budget>>

\* What epoll reports of a slot.
EventOf(x) ==
    LET s == sock[x]
    IN [slot |-> x, id |-> s.id,
        read |-> s.reading /\ (s.inbox > 0 \/ s.peer \in {"fin", "hup", "reset", "refused", "backlog"}),
        write |-> s.writing /\ s.peer \in {"up", "fin", "hup", "reset", "refused"},
        error |-> s.peer \in {"reset", "refused"},
        eof |-> \/ s.peer \in {"hup", "reset", "refused"}
                \/ s.peer = "fin" /\ s.type = "HALFCLOSE_WRITE"]
Ready == {x \in Slot : LET e == EventOf(x)
                       IN Registered(x) /\ (e.read \/ e.write \/ e.error \/ e.eof)}

------------------------------------------------------------------------------
\* The socket thread: commands.

\* Data in a row is one entry of the log.
Report(i, r) ==
    log' = [log EXCEPT ![i] = IF r = "DATA" /\ @ # <<>> /\ Last(@) = r THEN @ ELSE Append(@, r)]
ForceClose(x) == sock' = [sock EXCEPT ![x] =
    [@ EXCEPT !.type = "INVALID", !.unsent = FALSE, !.peer = "none", !.inbox = 0]]

nomore_sending_data(x) ==
    \/ ~sock[x].unsent /\ \A k \in DOMAIN pipe : pipe[k] # <<"D", sock[x].id>>
    \/ sock[x].type = "HALFCLOSE_WRITE"

\* ctrl_cmd: a command is taken from the pipe.
Take(cmds) ==
    /\ ctrl /\ closed = 0
    /\ pipe # <<>> /\ Head(pipe)[1] \in cmds
    /\ pipe' = Tail(pipe)
    /\ UNCHANGED <<issued, reserving, ctrl, events, budget>>
Arg == Head(pipe)[2]
ArgSlot == HASH_ID(Arg)

SlotReserved == sock[ArgSlot].type = "RESERVE"  \* the assertion of new_fd
NewFd(i, type, peer, reading, writing) ==
    [Free EXCEPT !.id = i, !.type = type, !.tcp = TRUE, !.peer = peer,
                 !.reading = reading, !.writing = writing]

\* open_socket: connected at once, on the way, or failed.
Open ==
    /\ Take({"O"})
    /\ \/ /\ SlotReserved
          /\ sock' = [sock EXCEPT ![ArgSlot] = NewFd(Arg, "CONNECTED", "up", TRUE, FALSE)]
          /\ Report(Arg, "OPEN") /\ UNCHANGED closed
       \/ /\ SlotReserved
          /\ sock' = [sock EXCEPT ![ArgSlot] = NewFd(Arg, "CONNECTING", "pending", TRUE, TRUE)]
          /\ UNCHANGED <<log, closed>>
       \/ /\ sock' = [sock EXCEPT ![ArgSlot].type = "INVALID"]
          /\ Report(Arg, "ERR") /\ closed' = Arg

\* listen_socket.
Listen ==
    /\ Take({"L"}) /\ SlotReserved
    /\ sock' = [sock EXCEPT ![ArgSlot] = NewFd(Arg, "PLISTEN", "quiet", FALSE, FALSE)]
    /\ UNCHANGED <<log, closed>>

\* close_socket.
Close ==
    LET x == ArgSlot
        told == sock[x].type = "HALFCLOSE_READ"
    IN /\ Take({"K", "X"})
       /\ IF socket_invalid(Arg) THEN UNCHANGED <<sock, log, closed>>
          ELSE /\ sock[x].type # "RESERVE"  \* the assertion of force_close
               /\ IF Head(pipe)[1] = "X" \/ nomore_sending_data(x) THEN ForceClose(x)
                  ELSE sock' = [sock EXCEPT ![x] =
                           [@ EXCEPT !.closing = TRUE, !.type = "HALFCLOSE_READ", !.reading = FALSE]]
               /\ IF told THEN UNCHANGED <<log, closed>>
                  ELSE Report(Arg, "CLOSE") /\ closed' = Arg

\* resume_socket.
Resume ==
    LET x == ArgSlot
        type == sock[x].type
    IN /\ Take({"R"})
       /\ IF socket_invalid(Arg) \/ type = "HALFCLOSE_READ"
          THEN Report(Arg, "ERR") /\ closed' = Arg /\ UNCHANGED sock
          ELSE /\ sock' = [sock EXCEPT ![x] =
                       [@ EXCEPT !.reading = TRUE,
                                 !.type = CASE type = "PACCEPT" -> "CONNECTED"
                                            [] type = "PLISTEN" -> "LISTEN"
                                            [] OTHER -> type]]
               /\ IF type \in {"PACCEPT", "PLISTEN", "CONNECTED"}
                  THEN Report(Arg, "OPEN") ELSE UNCHANGED log
               /\ UNCHANGED closed

\* pause_socket.
Pause ==
    /\ Take({"S"})
    /\ sock' = IF socket_invalid(Arg) THEN sock ELSE [sock EXCEPT ![ArgSlot].reading = FALSE]
    /\ UNCHANGED <<log, closed>>

\* send_socket.
Send ==
    /\ Take({"D"})
    /\ sock' = IF \/ socket_invalid(Arg) \/ sock[ArgSlot].closing
                  \/ sock[ArgSlot].type \in {"HALFCLOSE_WRITE", "PACCEPT", "PLISTEN", "LISTEN"}
               THEN sock ELSE [sock EXCEPT ![ArgSlot] = [@ EXCEPT !.unsent = TRUE, !.writing = TRUE]]
    /\ UNCHANGED <<log, closed>>

\* clear_closed_event: an event of the socket that was just closed is dropped.
Clear ==
    /\ closed # 0
    /\ events' = [k \in DOMAIN events |->
           IF /\ events[k].slot # NULL /\ sock[events[k].slot].type = "INVALID"
              /\ sock[events[k].slot].id = closed
           THEN [events[k] EXCEPT !.slot = NULL] ELSE events[k]]
    /\ closed' = 0
    /\ UNCHANGED <<sock, issued, reserving, pipe, ctrl, log, budget>>

\* The pipe is empty: on with the events.
CtrlDone ==
    /\ ctrl /\ closed = 0 /\ pipe = <<>>
    /\ ctrl' = FALSE
    /\ UNCHANGED <<sock, issued, reserving, pipe, events, closed, log, budget>>

\* sp_wait.
Fetch ==
    /\ ~ctrl /\ events = <<>>
    /\ pipe # <<>> \/ Ready # {}
    /\ \E n \in 0 .. Slots : \E order \in Bijection(1 .. n, Ready) :
          events' = [k \in DOMAIN order |-> EventOf(order[k])]
    /\ ctrl' = TRUE
    /\ UNCHANGED <<sock, issued, reserving, pipe, closed, log, budget>>

------------------------------------------------------------------------------
\* The socket thread: events.

Event(types) ==
    /\ ~ctrl /\ events # <<>> /\ Head(events).slot # NULL
    /\ sock[Head(events).slot].type \in types
    /\ UNCHANGED <<reserving, pipe, ctrl, closed, budget>>
E == Head(events)
X == E.slot
S == sock[X]
Handled == events' = Tail(events)
AfterRead == IF E.write THEN events' = <<[E EXCEPT !.read = FALSE]>> \o Tail(events) ELSE Handled

EventNull ==
    /\ ~ctrl /\ events # <<>> /\ E.slot = NULL /\ Handled
    /\ UNCHANGED <<sock, issued, reserving, pipe, ctrl, closed, log, budget>>

EventInvalid == Event({"INVALID"}) /\ Handled /\ UNCHANGED <<sock, issued, log>>

\* report_connect.
EventConnecting ==
    /\ Event({"CONNECTING"}) /\ Handled /\ UNCHANGED issued
    /\ IF S.peer = "refused" THEN ForceClose(X) /\ Report(S.id, "ERR")
       ELSE /\ sock' = [sock EXCEPT ![X] =
                    [S EXCEPT !.type = "CONNECTED", !.writing = S.writing /\ ~nomore_sending_data(X)]]
            /\ Report(S.id, "OPEN")

\* report_accept, with reserve_id and new_fd.
EventListen ==
    /\ Event({"LISTEN"}) /\ Handled
    /\ IF S.peer = "backlog" /\ NextId # {}
       THEN \E i \in NextId :
               /\ alloc' = i /\ given' = given \cup {i}
               /\ sock' = [sock EXCEPT ![X].peer = "quiet",
                              ![HASH_ID(i)] = NewFd(i, "PACCEPT", "up", FALSE, FALSE)]
               /\ Report(S.id, "ACCEPT")
       ELSE sock' = [sock EXCEPT ![X].peer = "quiet"] /\ UNCHANGED <<issued, log>>

Stream == {"CONNECTED", "PACCEPT", "PLISTEN", "HALFCLOSE_READ", "HALFCLOSE_WRITE"}

\* forward_message_tcp: data, the end, an error, or nothing to read.
ReadData ==
    /\ Event(Stream) /\ E.read /\ S.inbox > 0 /\ S.peer # "reset" /\ UNCHANGED issued
    /\ sock' = [sock EXCEPT ![X].inbox = @ - 1]
    /\ IF S.type = "HALFCLOSE_READ" THEN UNCHANGED log ELSE Report(S.id, "DATA")
    /\ AfterRead

ReadEnd ==
    /\ Event(Stream) /\ E.read /\ S.inbox = 0 /\ S.peer \in {"fin", "hup"} /\ UNCHANGED issued
    /\ IF S.closing \/ S.type = "HALFCLOSE_READ"
       THEN /\ IF S.closing /\ nomore_sending_data(X) THEN ForceClose(X) ELSE UNCHANGED sock
            /\ UNCHANGED log /\ AfterRead
       ELSE /\ IF S.type = "HALFCLOSE_WRITE" THEN ForceClose(X)
               ELSE sock' = [sock EXCEPT ![X] = [@ EXCEPT !.type = "HALFCLOSE_READ", !.reading = FALSE]]
            /\ Report(S.id, "CLOSE") /\ Handled

TakeError == sock' = [sock EXCEPT ![X] = [@ EXCEPT !.peer = "hup", !.inbox = 0]]
ReadError ==
    /\ Event(Stream) /\ E.read /\ S.peer \in {"reset", "refused"} /\ UNCHANGED issued
    /\ TakeError /\ Report(S.id, "ERR") /\ Handled

ReadNothing ==
    /\ Event(Stream) /\ E.read /\ UNCHANGED <<issued, sock, log>>
    /\ S.inbox = 0 /\ S.peer \in {"up", "pending", "quiet", "backlog"}
    /\ AfterRead

\* send_buffer: some, all or an error (close_write).
Writing == Event(Stream) /\ ~E.read /\ E.write /\ Handled /\ UNCHANGED issued
WriteAll ==
    /\ Writing /\ (S.unsent => S.peer \in {"up", "fin"})
    /\ IF S.closing THEN ForceClose(X)
       ELSE sock' = [sock EXCEPT ![X] = [@ EXCEPT !.unsent = FALSE, !.writing = FALSE]]
    /\ UNCHANGED log
WriteError ==
    /\ Writing /\ S.unsent /\ S.peer \notin {"up", "pending"}
    /\ IF S.closing \/ S.type = "HALFCLOSE_READ" THEN ForceClose(X) /\ UNCHANGED log
       ELSE IF S.type = "HALFCLOSE_WRITE" THEN UNCHANGED <<sock, log>>
       ELSE /\ sock' = [sock EXCEPT ![X] = [@ EXCEPT !.type = "HALFCLOSE_WRITE", !.writing = FALSE]]
            /\ Report(S.id, "ERR")
WriteSome == Writing /\ S.unsent /\ S.peer \in {"up", "fin", "pending"} /\ UNCHANGED <<sock, log>>

\* The error and the hang-up flags.
EventError ==
    /\ Event(Stream) /\ ~E.read /\ ~E.write /\ E.error /\ UNCHANGED issued
    /\ Report(S.id, "ERR") /\ Handled
    /\ IF S.peer \in {"reset", "refused"} THEN TakeError ELSE UNCHANGED sock

\* An event that clear_closed_event has missed, of a slot that is reserved again:
\* the files are closed.  To close it fails the assertion of force_close.
EventReserved ==
    /\ Event({"RESERVE"}) /\ Handled /\ UNCHANGED issued
    /\ \/ E.read /\ S.tcp /\ Report(S.id, "ERR") /\ UNCHANGED sock
       \/ /\ ~E.read /\ E.write /\ ~S.closing
          /\ sock' = [sock EXCEPT ![X] =
                [S EXCEPT !.writing = FALSE, !.type = IF S.unsent THEN "HALFCLOSE_WRITE" ELSE S.type]]
          /\ IF S.writing \/ S.unsent THEN Report(S.id, "ERR") ELSE UNCHANGED log
       \/ ~E.read /\ ~E.write /\ E.error /\ Report(S.id, "ERR") /\ UNCHANGED sock

\* Mutant: a socket that hangs up is closed quietly.
EventEofQuiet ==
    /\ Event(Stream) /\ ~E.read /\ ~E.write /\ ~E.error /\ E.eof /\ UNCHANGED <<issued, log>>
    /\ ForceClose(X) /\ Handled

EventEof ==
    /\ Event(Stream) /\ ~E.read /\ ~E.write /\ ~E.error /\ E.eof /\ UNCHANGED issued
    /\ ForceClose(X) /\ Handled
    /\ IF S.type = "HALFCLOSE_READ" THEN UNCHANGED log ELSE Report(S.id, "CLOSE")

------------------------------------------------------------------------------
SocketThread ==
    \/ Open \/ Listen \/ Close \/ Resume \/ Pause \/ Send \/ Clear \/ CtrlDone \/ Fetch
    \/ EventNull \/ EventInvalid \/ EventConnecting \/ EventListen \/ EventReserved
    \/ ReadData \/ ReadEnd \/ ReadError \/ ReadNothing
    \/ WriteAll \/ WriteError \/ WriteSome \/ EventError \/ EventEof

Next ==
    \/ SocketThread \/ Reserved
    \/ \E x \in Slot : PeerStep(x)
    \/ \E cmd \in {"O", "L"} : Reserve(cmd)
    \/ \E cmd \in {"K", "X", "R", "S", "D"}, i \in Ids : Command(cmd, i)

\* The socket thread goes on, and a connection attempt ends.
Connected(x) == sock[x].peer = "pending" /\ PeerStep(x)
Fairness == WF_vars(SocketThread) /\ \A x \in Slot : WF_vars(Connected(x))
Spec == Init /\ [][Next]_vars
FairSpec == Spec /\ Fairness

------------------------------------------------------------------------------
\* Properties.

Reported(i, r) == \E k \in DOMAIN log[i] : log[i][k] = r

\* "SOCKET_CLOSE can be raised (only once)", and nothing is opened, read or
\* accepted after it.
CloseOnce ==
    \A i \in Ids : \A j, k \in DOMAIN log[i] :
        j < k /\ log[i][j] = "CLOSE" => log[i][k] = "ERR"

\* A service is told of the end of every socket: a close if the socket was
\* opened, and a close or an error if it was not.
EndTold ==
    \A i \in given \ {reserving.id} : socket_invalid(i) =>
        \/ Reported(i, "CLOSE")
        \/ Reported(i, "ERR") /\ ~Reported(i, "OPEN")

\* "check all the events already read after socket close": an event that waits
\* is for the socket that has the slot, unless the slot is free.
OwnEvent == \A k \in DOMAIN events :
    events[k].slot = NULL \/ sock[events[k].slot].type = "INVALID" \/ sock[events[k].slot].id = events[k].id

\* The assertion of force_close: a slot is not closed while it is reserved.
CloseIsSafe ==
    pipe # <<>> /\ Head(pipe)[1] \in {"K", "X"} /\ ~socket_invalid(Arg) =>
        sock[ArgSlot].type # "RESERVE"

\* A connection that hangs up is closed in the end: the slot is not lost.
GoneIsClosed ==
    \A i \in Ids : LET s == sock[HASH_ID(i)]
                   IN s.id = i /\ s.peer \in {"hup", "reset", "refused"} ~> socket_invalid(i)

\* A connect is answered in the end.
ConnectAnswered ==
    \A i \in Ids : sock[HASH_ID(i)].id = i /\ sock[HASH_ID(i)].type = "CONNECTING"
        ~> Reported(i, "OPEN") \/ Reported(i, "ERR") \/ Reported(i, "CLOSE")
============================================================================
