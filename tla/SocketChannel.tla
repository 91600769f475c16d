---------------------------- MODULE SocketChannel ----------------------------
\* lualib/skynet/socketchannel.lua on top of lualib/skynet/socket.lua: coroutines
\* of a service share a connection that is made again when it is lost, and one
\* more coroutine, the dispatch thread, hands the answers out: in the order of
\* the requests, or by session.
\*
\* A coroutine runs until it waits.  The ones it has woken run next, then what
\* it has forked, and only then the next message (lualib/skynet.lua).
EXTENDS Integers, Sequences, FiniteSets, SequencesExt

CONSTANTS
    User,       \* coroutines that use the channel
    Session,    \* __response is set: session mode
    Ops,        \* what they do: "request", "connect", "close", "changehost"
    MaxOps,     \* bound on the operations
    MaxConn,    \* bound on the connections
    Disp, None, CloseSignal

SocketChannelAssumption ==
    /\ Session \in BOOLEAN /\ MaxOps \in Nat /\ MaxConn \in Nat
    /\ {Disp, None, CloseSignal} \cap User = {}

VARIABLES
    sock, closed,      \* __sock, __closed
    queue,             \* __request and __thread
    result,            \* __result and __result_data
    wait_response,     \* __wait_response is set
    connecting,        \* __connecting
    pc, cont, on,      \* where a coroutine is, goes on, and with which connection
    turn, wake, forked, \* the coroutine that runs, those woken, the dispatch thread
    pool, co, closing, \* socket_pool: the state, s.co and s.closing of a connection
    wire, arrived, taken, \* its requests, the answers that came and were read
    gone, leaving,     \* connections that are closed; those to be closed
    mail, onclose,     \* messages of the socket server; connections with a callback
    asked,             \* requests of a coroutine
    last, ops          \* the last connection, operations so far

channel == <<sock, closed, queue, result, wait_response, connecting>>
threads == <<pc, cont, on, turn, wake, forked>>
sockets == <<pool, co, closing>>
net == <<wire, arrived, taken, gone, leaving, mail, onclose, asked, last>>
vars == <<channel, threads, sockets, net, ops>>

Conn == 1 .. MaxConn
Coroutine == User \cup {Disp}

\* Requests and their answers, and what a coroutine finds as its result.
Mine(u) == [of |-> u, n |-> asked[u]]
Nothing == [of |-> None, n |-> 0]
Failed == [of |-> "error", n |-> 0]

Init ==
    /\ sock = 0 /\ closed = FALSE /\ queue = <<>> /\ wait_response = FALSE
    /\ result = [u \in User |-> Nothing] /\ asked = [u \in User |-> 0] /\ connecting = <<>>
    /\ pc = [t \in Coroutine |-> IF t = Disp THEN "none" ELSE "idle"]
    /\ cont = [t \in Coroutine |-> "idle"] /\ on = [t \in Coroutine |-> 0]
    /\ turn = None /\ wake = <<>> /\ forked = FALSE
    /\ pool = [c \in Conn |-> "none"]
    /\ co = [c \in Conn |-> None] /\ closing = [c \in Conn |-> None]
    /\ wire = [c \in Conn |-> <<>>] /\ arrived = [c \in Conn |-> 0]
    /\ taken = [c \in Conn |-> 0]
    /\ gone = {} /\ leaving = {} /\ mail = <<>> /\ onclose = {} /\ last = 0 /\ ops = 0

------------------------------------------------------------------------------
\* Coroutines.

Goto(t, p) == pc' = [pc EXCEPT ![t] = p]
Go(t, p) == Goto(t, p) /\ UNCHANGED <<cont, on, turn>>      \* and run on
Halt(t, p) == Goto(t, p) /\ turn' = None /\ UNCHANGED <<cont, on>> \* and wait
Runs(t, p) == turn = t /\ pc[t] = p
Wake(ts) == wake' = wake \o SelectSeq(ts, LAMBDA t : t # None)

Quiet == turn = None /\ wake = <<>> /\ ~forked

Schedule ==
    /\ turn = None
    /\ IF wake # <<>> THEN turn' = Head(wake) /\ wake' = Tail(wake) /\ UNCHANGED <<forked, pc>>
       ELSE /\ forked /\ forked' = FALSE /\ turn' = Disp
            /\ Goto(Disp, "start") /\ UNCHANGED wake
    /\ UNCHANGED <<channel, cont, on, sockets, net, ops>>

\* A coroutine is done for this message, or goes on with its next operation.
Rest(u) ==
    /\ Runs(u, "idle") /\ turn' = None
    /\ UNCHANGED <<channel, pc, cont, on, wake, forked, sockets, net, ops>>
Start(u, op) ==
    /\ pc[u] = "idle" /\ (turn = u \/ Quiet)
    /\ op \in Ops /\ ops < MaxOps /\ ops' = ops + 1
    /\ turn' = u
    /\ Goto(u, IF op = "connect" THEN "check" ELSE op)
    /\ cont' = [cont EXCEPT ![u] = op]
    /\ closed' = IF op = "connect" THEN FALSE ELSE closed
    /\ UNCHANGED <<sock, queue, result, wait_response, connecting, on, wake, forked,
                   sockets, net>>

------------------------------------------------------------------------------
\* socket.close, called by close_channel_socket, which has taken __sock away.
\* A connection that lives is waited for, behind the coroutine that reads it.
CloseChannelSocket(t, p) ==
    /\ sock' = 0
    /\ IF sock = 0 THEN Go(t, p) /\ UNCHANGED <<sockets, leaving>>
       ELSE /\ leaving' = leaving \cup ({sock} \ gone)
            /\ IF pool[sock] # "connected"
               THEN /\ pool' = [pool EXCEPT ![sock] = "none"] /\ Go(t, p)
                    /\ UNCHANGED <<co, closing>>
               ELSE /\ Goto(t, "closing") /\ turn' = None
                    /\ cont' = [cont EXCEPT ![t] = p] /\ on' = [on EXCEPT ![t] = sock]
                    /\ IF co[sock] # None THEN closing' = [closing EXCEPT ![sock] = t] /\ UNCHANGED co
                       ELSE co' = [co EXCEPT ![sock] = t] /\ UNCHANGED closing
                    /\ UNCHANGED pool

\* The wait is over; a coroutine that was woken as s.co wakes s.closing.
Closed(t) ==
    /\ Runs(t, "closing")
    /\ pool' = [pool EXCEPT ![on[t]] = "none"]
    /\ Wake(<<IF closing[on[t]] = t THEN None ELSE closing[on[t]]>>)
    /\ closing' = [closing EXCEPT ![on[t]] = None]
    /\ Go(t, cont[t])
    /\ UNCHANGED <<channel, forked, co, net, ops>>

\* wakeup_all: everyone who waits for an answer gets an error.
WakeupAll(first) ==
    LET waiting == SelectSeq(queue, LAMBDA q : q # CloseSignal)
        all == first \o waiting
    IN /\ queue' = <<>>
       /\ result' = [u \in User |-> IF \E k \in DOMAIN all : all[k] = u THEN Failed ELSE result[u]]
       /\ Wake(all)

\* push_response, which wakes the dispatch thread when it waits for requests.
PushResponse(q) ==
    /\ queue' = Append(queue, q)
    /\ Wake(<<IF wait_response THEN Disp ELSE None>>)
    /\ wait_response' = FALSE

------------------------------------------------------------------------------
\* request and connect: block_connect.

RequestBegins(u) ==
    /\ Runs(u, "request") /\ Go(u, "check")
    /\ UNCHANGED <<channel, wake, forked, sockets, net, ops>>

\* check_connection before connecting.
Live == sock # 0 /\ pool[sock] = "connected"
Check(u) ==
    /\ Runs(u, "check")
    /\ IF Live THEN Go(u, "connected") /\ UNCHANGED <<sock, sockets, leaving>>
       ELSE IF sock = 0 /\ closed THEN Go(u, "idle") /\ UNCHANGED <<sock, sockets, leaving>>
       ELSE CloseChannelSocket(u, "connect")
    /\ UNCHANGED <<closed, queue, result, wait_response, connecting, wake, forked,
                   wire, arrived, taken, gone, mail, onclose, asked, last, ops>>

\* One coroutine connects and the others wait for it.
Connect(u) ==
    /\ Runs(u, "connect")
    /\ connecting' = Append(connecting, u)
    /\ IF connecting # <<>>
       THEN Halt(u, "recheck") /\ UNCHANGED <<pool, co, last>>
       ELSE IF closed THEN Go(u, "release") /\ UNCHANGED <<pool, co, last>>
       ELSE /\ last < MaxConn /\ last' = last + 1    \* socket.open
            /\ pool' = [pool EXCEPT ![last'] = "opening"]
            /\ co' = [co EXCEPT ![last'] = u]
            /\ Goto(u, "open") /\ on' = [on EXCEPT ![u] = last'] /\ turn' = None
            /\ UNCHANGED cont
    /\ UNCHANGED <<sock, closed, queue, result, wait_response, wake, forked, closing,
                   wire, arrived, taken, gone, leaving, mail, onclose, asked, ops>>

\* socket.open returns; the old dispatch thread gets the close signal.
Open(u) ==
    /\ Runs(u, "open")
    /\ IF pool[on[u]] # "connected"
       THEN /\ pool' = [pool EXCEPT ![on[u]] = "none"] /\ Go(u, "release")
            /\ UNCHANGED <<queue, wake, wait_response>>
       ELSE /\ IF ~Session /\ pc[Disp] # "none" THEN PushResponse(CloseSignal)
               ELSE UNCHANGED <<queue, wake, wait_response>>
            /\ IF pc[Disp] # "none" THEN Halt(u, "yield") ELSE Go(u, "install")
            /\ UNCHANGED pool
    /\ UNCHANGED <<sock, closed, result, connecting, forked, co, closing, net, ops>>

\* "wait for dispatch thread exit"
Yield(u) ==
    /\ Quiet /\ pc[u] = "yield" /\ pc[Disp] = "none"
    /\ turn' = u /\ Goto(u, "install")
    /\ UNCHANGED <<channel, cont, on, wake, forked, sockets, net, ops>>

Install(u) ==
    /\ Runs(u, "install")
    /\ sock' = on[u]
    /\ forked' = TRUE
    /\ pc' = [pc EXCEPT ![u] = "release", ![Disp] = "forked"]
    /\ UNCHANGED <<closed, queue, result, wait_response, connecting, cont, on, turn,
                   wake, sockets, net, ops>>

Release(u) ==
    /\ Runs(u, "release")
    /\ Wake(Remove(connecting, u)) /\ connecting' = <<>>
    /\ Go(u, "recheck")
    /\ UNCHANGED <<sock, closed, queue, result, wait_response, forked, sockets, net, ops>>

\* check_connection after connecting: connected, or an error is raised.
Recheck(u) ==
    /\ Runs(u, "recheck")
    /\ IF Live THEN Go(u, "connected") /\ UNCHANGED <<sock, sockets, leaving>>
       ELSE IF sock = 0 THEN Go(u, "idle") /\ UNCHANGED <<sock, sockets, leaving>>
       ELSE CloseChannelSocket(u, "idle")
    /\ UNCHANGED <<closed, queue, result, wait_response, connecting, wake, forked,
                   wire, arrived, taken, gone, mail, onclose, asked, last, ops>>

\* The request is written, which may fail when the connection is closed
\* (sock_err), and its answer is waited for.
Write(u) ==
    /\ Runs(u, "connected")
    /\ \/ /\ cont[u] = "connect" /\ Go(u, "idle")
          /\ UNCHANGED <<sock, queue, result, wait_response, wake, sockets, wire, asked, leaving>>
       \/ /\ cont[u] = "request"
          /\ asked' = [asked EXCEPT ![u] = @ + 1]
          /\ wire' = [wire EXCEPT ![sock] = Append(@, [of |-> u, n |-> asked'[u]])]
          /\ result' = [result EXCEPT ![u] = Nothing]
          /\ PushResponse(u)
          /\ Halt(u, "answer")
          /\ UNCHANGED <<sock, sockets, leaving>>
       \/ /\ cont[u] = "request" /\ sock \in gone
          /\ CloseChannelSocket(u, "sock_err")
          /\ UNCHANGED <<queue, result, wait_response, wake, wire, asked>>
    /\ UNCHANGED <<closed, connecting, forked, arrived, taken, gone, mail, onclose, last, ops>>

SockErr(u) ==
    /\ Runs(u, "sock_err")
    /\ WakeupAll(<<>>) /\ Go(u, "idle")
    /\ UNCHANGED <<sock, closed, wait_response, connecting, forked, sockets, net, ops>>

\* wait_for_response returns.
Answered(u) ==
    /\ Runs(u, "answer") /\ Go(u, "idle")
    /\ result' = [result EXCEPT ![u] = Nothing]
    /\ UNCHANGED <<sock, closed, queue, wait_response, connecting, wake, forked,
                   sockets, net, ops>>

------------------------------------------------------------------------------
\* close and changehost.

Close(u) ==
    /\ Runs(u, "close")
    /\ IF closed THEN /\ Go(u, "idle")
                      /\ UNCHANGED <<sock, closed, queue, wake, wait_response, sockets, leaving>>
       ELSE /\ closed' = TRUE
            /\ IF ~Session /\ pc[Disp] # "none" THEN PushResponse(CloseSignal)
               ELSE UNCHANGED <<queue, wake, wait_response>>
            /\ CloseChannelSocket(u, "idle")
    /\ UNCHANGED <<result, connecting, forked, wire, arrived, taken, gone, mail, onclose, asked, last, ops>>

ChangeHost(u) ==
    /\ Runs(u, "changehost")
    /\ IF closed THEN Go(u, "idle") /\ UNCHANGED <<sock, sockets, leaving>>
       ELSE CloseChannelSocket(u, "idle")
    /\ UNCHANGED <<closed, queue, result, wait_response, connecting, wake, forked,
                   wire, arrived, taken, gone, mail, onclose, asked, last, ops>>

------------------------------------------------------------------------------
\* The dispatch thread.

DispExit == pc' = [pc EXCEPT ![Disp] = "none"] /\ turn' = None /\ UNCHANGED <<cont, on>>

\* "self.__sock can be false (socket closed) if error during connecting"
DispStart ==
    /\ Runs(Disp, "start")
    /\ IF sock = 0 THEN DispExit /\ UNCHANGED onclose
       ELSE Go(Disp, "loop") /\ onclose' = IF Session THEN onclose ELSE onclose \cup {sock}
    /\ UNCHANGED <<channel, wake, forked, sockets, wire, arrived, taken, gone, leaving, mail,
                   asked, last, ops>>

\* Read the next answer of the connection; cont holds the coroutine it is for.
Read(u) ==
    /\ on' = [on EXCEPT ![Disp] = sock] /\ cont' = [cont EXCEPT ![Disp] = u]
    /\ IF arrived[sock] > taken[sock] \/ pool[sock] # "connected"
       THEN Goto(Disp, "read") /\ UNCHANGED <<turn, co>>
       ELSE Goto(Disp, "reading") /\ turn' = None /\ co' = [co EXCEPT ![sock] = Disp]
    /\ UNCHANGED <<pool, closing>>

\* dispatch_by_order and dispatch_by_session, up to the next answer.
DispLoop ==
    /\ Runs(Disp, "loop")
    /\ IF sock = 0 THEN DispExit /\ UNCHANGED <<queue, wait_response, sockets>>
       ELSE IF Session THEN Read(None) /\ UNCHANGED <<queue, wait_response>>
       ELSE IF queue = <<>>
       THEN /\ wait_response' = TRUE /\ Halt(Disp, "waiting") /\ UNCHANGED <<queue, sockets>>
       ELSE IF Head(queue) = CloseSignal
       THEN Go(Disp, "signal") /\ UNCHANGED <<queue, wait_response, sockets>>
       ELSE /\ queue' = Tail(queue) /\ Read(Head(queue)) /\ UNCHANGED wait_response
    /\ UNCHANGED <<sock, closed, result, connecting, wake, forked, net, ops>>

DispSignal ==
    /\ Runs(Disp, "signal")
    /\ WakeupAll(<<>>) /\ DispExit
    /\ UNCHANGED <<sock, closed, wait_response, connecting, forked, sockets, net, ops>>

\* pop_response goes on after its wait.
DispWoken ==
    /\ Runs(Disp, "waiting")
    /\ IF sock # 0 \/ queue = <<>> \/ Head(queue) = CloseSignal
       THEN /\ Go(Disp, IF queue # <<>> /\ Head(queue) = CloseSignal THEN "signal" ELSE "loop")
            /\ UNCHANGED <<queue, result, wake>>
       ELSE WakeupAll(<<>>) /\ DispExit
    /\ UNCHANGED <<sock, closed, wait_response, connecting, forked, sockets, net, ops>>

\* socket.read goes on after its wait, and wakes a coroutine that closes.
DispResumed ==
    /\ Runs(Disp, "reading")
    /\ Wake(<<closing[on[Disp]]>>)
    /\ closing' = [closing EXCEPT ![on[Disp]] = None]
    /\ Go(Disp, "read")
    /\ UNCHANGED <<channel, forked, pool, co, net, ops>>

\* The answer is handed out, or the connection is lost.
DispAnswer ==
    LET c == on[Disp]
        for == wire[c][taken[c] + 1]
        u == IF Session THEN for.of ELSE cont[Disp]
    IN /\ Runs(Disp, "read") /\ arrived[c] > taken[c]
       /\ taken' = [taken EXCEPT ![c] = @ + 1]
       /\ IF Session /\ (for # Mine(u) \/ \A k \in DOMAIN queue : queue[k] # u)
          THEN UNCHANGED <<queue, result, wake>>
          ELSE /\ queue' = IF Session THEN Remove(queue, u) ELSE queue
               /\ result' = [result EXCEPT ![u] = for]
               /\ Wake(<<u>>)
       /\ Go(Disp, "loop")
       /\ UNCHANGED <<sock, closed, wait_response, connecting, forked, sockets, wire,
                      arrived, gone, leaving, mail, onclose, asked, last, ops>>
DispLost ==
    /\ Runs(Disp, "read") /\ arrived[on[Disp]] = taken[on[Disp]]
    /\ sock' = 0
    /\ IF sock = 0 THEN UNCHANGED <<pool, leaving>>
       ELSE pool' = [pool EXCEPT ![sock] = "none"] /\ leaving' = leaving \cup ({sock} \ gone)
    /\ Go(Disp, "lost")
    /\ UNCHANGED <<closed, queue, result, wait_response, connecting, wake, forked,
                   co, closing, wire, arrived, taken, gone, mail, onclose, asked, last, ops>>

\* Mutant: only the coroutine whose answer was read gets the error.
DispFailsOne ==
    /\ Runs(Disp, "lost")
    /\ result' = IF cont[Disp] = None THEN result ELSE [result EXCEPT ![cont[Disp]] = Failed]
    /\ Wake(<<cont[Disp]>>)
    /\ Go(Disp, "loop")
    /\ UNCHANGED <<sock, closed, queue, wait_response, connecting, forked, sockets, net, ops>>

DispFails ==
    /\ Runs(Disp, "lost")
    /\ WakeupAll(IF Session THEN <<>> ELSE <<cont[Disp]>>)
    /\ Go(Disp, "loop")
    /\ UNCHANGED <<sock, closed, wait_response, connecting, forked, sockets, net, ops>>

------------------------------------------------------------------------------
\* The socket server and the peer; their messages come in the order of events.

Post(m) == mail' = Append(mail, m)
ServerStep == UNCHANGED <<channel, threads, sockets, wire, arrived, taken, onclose, asked,
                          last, ops>>
Answers(c) == arrived[c] + Len(SelectSeq(mail, LAMBDA m : m = <<"data", c>>))

\* An open is handled after the closes that were asked for before.
NetOpen(c) ==
    /\ pool[c] = "opening" /\ c \notin gone \cup leaving
    /\ leaving = {} /\ \A k \in DOMAIN mail : mail[k] \notin {<<"open", c>>, <<"error", c>>}
    /\ \E m \in {"open", "error"} : Post(<<m, c>>)
    /\ ServerStep /\ UNCHANGED <<gone, leaving>>
NetData(c) ==
    /\ c \notin gone /\ Answers(c) < Len(wire[c])
    /\ Post(<<"data", c>>)
    /\ ServerStep /\ UNCHANGED <<gone, leaving>>
NetClose(c) ==
    /\ c \notin gone /\ (c \in leaving \/ pool[c] = "connected")
    /\ gone' = gone \cup {c} /\ leaving' = leaving \ {c}
    /\ Post(<<"close", c>>)
    /\ ServerStep

\* socket_message: a message is handled.
Wakeup(c) == Wake(<<co[c]>>) /\ co' = [co EXCEPT ![c] = None]
Deliver(types) ==
    /\ Quiet /\ mail # <<>> /\ Head(mail)[1] \in types
    /\ mail' = Tail(mail)
    /\ UNCHANGED <<closed, queue, result, wait_response, connecting, pc, cont, on,
                   turn, forked, closing, wire, taken, gone, leaving, asked, last, ops>>
Of == Head(mail)[2]

DeliverOpen ==
    /\ Deliver({"open", "error"})
    /\ pool' = [pool EXCEPT ![Of] = IF Head(mail)[1] = "open" THEN "connected" ELSE "lost"]
    /\ Wakeup(Of)
    /\ UNCHANGED <<sock, arrived, onclose>>
DeliverData ==
    /\ Deliver({"data"})
    /\ IF pool[Of] = "none" THEN UNCHANGED arrived
       ELSE arrived' = [arrived EXCEPT ![Of] = @ + 1]
    /\ IF pool[Of] # "none" /\ co[Of] = Disp THEN Wakeup(Of) ELSE UNCHANGED <<wake, co>>
    /\ UNCHANGED <<sock, pool, onclose>>

\* SKYNET_SOCKET_TYPE_CLOSE, with autoclose_cb.
DeliverClose ==
    /\ Deliver({"close"})
    /\ IF pool[Of] = "none" THEN UNCHANGED <<wake, co>> ELSE Wakeup(Of)
    /\ onclose' = onclose \ {Of}
    /\ IF Of \in onclose /\ wait_response /\ sock = Of
       THEN sock' = 0 /\ pool' = [pool EXCEPT ![Of] = "none"]
       ELSE /\ pool' = [pool EXCEPT ![Of] = IF @ = "none" THEN @ ELSE "lost"]
            /\ UNCHANGED sock
    /\ UNCHANGED arrived

------------------------------------------------------------------------------
UserStep(u) ==
    \/ Rest(u) \/ RequestBegins(u) \/ Check(u) \/ Connect(u) \/ Open(u) \/ Yield(u)
    \/ Install(u) \/ Release(u) \/ Recheck(u) \/ Write(u) \/ SockErr(u)
    \/ Answered(u) \/ Close(u) \/ ChangeHost(u) \/ Closed(u)
DispStep ==
    \/ DispStart \/ DispLoop \/ DispSignal \/ DispWoken \/ DispResumed
    \/ DispAnswer \/ DispLost \/ DispFails
Message == DeliverOpen \/ DeliverData \/ DeliverClose

Next ==
    \/ Schedule \/ DispStep
    \/ \E u \in User : UserStep(u) \/ \E op \in Ops : Start(u, op)
    \/ Message \/ \E c \in Conn : NetOpen(c) \/ NetData(c) \/ NetClose(c)

\* Coroutines run, connects and closes are carried out, and every request is
\* answered or the connection is closed.
Fairness ==
    /\ WF_vars(Schedule) /\ WF_vars(DispStep)
    /\ \A u \in User : WF_vars(UserStep(u))
    /\ WF_vars(Message)
    /\ \A c \in Conn : /\ WF_vars(NetOpen(c)) /\ WF_vars(c \in leaving /\ NetClose(c))
                       /\ WF_vars(Answers(c) < Len(wire[c]) /\ (NetData(c) \/ NetClose(c)))
Spec == Init /\ [][Next]_vars
FairSpec == Spec /\ Fairness

------------------------------------------------------------------------------
\* Properties.

\* An answer goes to the coroutine that asked.
OwnAnswer == \A u \in User : result[u] \in {Nothing, Failed, Mine(u)}

\* Whoever waits for an answer has a dispatch thread that will hand it out.
Served == Quiet => \A u \in User : pc[u] = "answer" =>
    \/ pc[Disp] = "reading" /\ cont[Disp] = u
    \/ /\ \E k \in DOMAIN queue : queue[k] = u
       /\ \/ pc[Disp] # "none"
          \/ \E v \in User : pc[v] = "closing" /\ cont[v] = "sock_err"

\* A new connection never takes the place of one that is still in use: the
\* assertions of socketchannel.lua:283, which would leak it, and of socket.lua:296,
\* where a second coroutine would close one connection.
OneConnection ==
    /\ \A u \in User : Runs(u, "open") /\ pool[on[u]] = "connected" => sock = 0
    /\ \A u \in User : Runs(u, "install") => sock = 0 /\ pc[Disp] = "none"
    /\ sock # 0 => closing[sock] = None /\ pool[sock] # "none"

\* Every operation ends.
OperationsEnd == \A u \in User : pc[u] # "idle" ~> pc[u] = "idle"
==============================================================================
