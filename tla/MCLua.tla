-------------------------------- MODULE MCLua --------------------------------
\* The Lua scheduler and the libraries on top of it, for TLC.  Each runs in a
\* service of its own: the first state picks one, and in that behaviour only its
\* steps are taken.
EXTENDS CriticalSection, FiniteSets

CONSTANTS
    Parts,              \* the components of a run
    c1, c2, c3,         \* coroutines
    Break, Blank,
    User, MaxOps, MaxConn, Disp, CloseSignal,
    Pusher, MaxSends, Asker,
    Resolver, Name, MaxTid, TIMEOUT, RETIRE, MaxTime,
    BUFFER_LIMIT, MaxBytes, Newline, Sizes,
    Client, ServiceName, Dependent, MaxInst, MaxAsks, MaxEnds

VARIABLE part

VARIABLES up, mail, phase, running, state, on, last, session_timer, session_id_coroutine,
          watching_session, session_coroutine_id, session_coroutine_address, unresponse,
          sleep_session, wakeup_queue, error_queue, fork_queue, answers, forgotten, broken
session_vars == <<up, mail, phase, running, state, on, last, session_timer, session_id_coroutine,
                  watching_session, session_coroutine_id, session_coroutine_address, unresponse,
                  sleep_session, wakeup_queue, error_queue, fork_queue, answers, forgotten, broken>>

VARIABLES sock, closed, queue, result, wait_response, connecting, channel_pc, cont, channel_on,
          turn, channel_wake, forked, pool, co, closing, channel_wire, arrived, taken, gone,
          leaving, channel_mail, onclose, asked, channel_last, channel_ops
channel_vars == <<sock, closed, queue, result, wait_response, connecting, channel_pc, cont,
                  channel_on, turn, channel_wake, forked, pool, co, closing, channel_wire,
                  arrived, taken, gone, leaving, channel_mail, onclose, asked, channel_last,
                  channel_ops>>

VARIABLES sent, kernel, mqueue, buffer, got, socket, reader, read_op, resumed, closer, ready, ended
read_vars == <<sent, kernel, mqueue, buffer, got, socket, reader, read_op, resumed, closer,
               ready, ended>>

VARIABLES now, next_tid, request_pool, req, cache, fd, retire, alive, net
dns_vars == <<now, next_tid, request_pool, req, cache, fd, retire, alive, net>>

VARIABLES sender, task_queue, queued, q_sender, send_pc, send_op, send_wake, wire, failed, sends
send_vars == <<sender, task_queue, queued, q_sender, send_pc, send_op, send_wake, wire, failed,
               sends>>

VARIABLES service, waitfor, launcher, instance, launch_state, is, needs, launch_pc, launch_op,
          answer, asks, ends
launch_vars == <<service, waitfor, launcher, instance, launch_state, is, needs, launch_pc,
                 launch_op, answer, asks, ends>>

lua == <<part, vars, session_vars, channel_vars, read_vars, dns_vars, send_vars, launch_vars>>

------------------------------------------------------------------------------
\* What the code of the services does, and the instances.

Ends == {"finish", "fail"}
CallOps == Ends \cup {"call", "ret", "response", "refuse", "exit"}
WaitOps == Ends \cup {"call", "send", "ret", "sleep", "wait", "wakeup", "fork", "timeout"}

\* Calls in all directions, answered now, later or never, and exits.
Calls == INSTANCE Session WITH
    Service <- {"a", "b"}, Co <- {c1, c2}, Wrap <- FALSE, MaxSession <- 3, MaxMail <- 1, MaxWake <- 1,
    Ops <- [s \in {"a", "b"} |-> CallOps], timer <- session_timer
\* One service that calls itself, sleeps, waits, forks and wakes up.
Waits == INSTANCE Session WITH
    Service <- {"a"}, Co <- {c1, c2, c3}, Wrap <- FALSE, MaxSession <- 3, MaxMail <- 1, MaxWake <- 1,
    Ops <- [s \in {"a"} |-> WaitOps], timer <- session_timer
\* One service whose callee may exit kills its own coroutines.
Kills == INSTANCE Session WITH
    Service <- {"a", "b"}, Co <- {c1, c2}, Wrap <- FALSE, MaxSession <- 3, MaxMail <- 1, MaxWake <- 1,
    Ops <- [s \in {"a", "b"} |-> IF s = "a" THEN Ends \cup {"call", "sleep", "fork", "kill"}
                                 ELSE {"finish", "exit"}], timer <- session_timer
\* Every call is answered in the end by a handler that ends, or by its exit.
Live == INSTANCE Session WITH
    Service <- {"a", "b"}, Co <- {c1, c2, c3}, Wrap <- FALSE, MaxSession <- 2, MaxMail <- 1, MaxWake <- 1,
    Ops <- [s \in {"a", "b"} |-> Ends \cup {"call", "ret", "sleep", "exit"}], timer <- session_timer

\* A channel whose answers come in order, and one whose answers carry sessions.
Order == INSTANCE SocketChannel WITH
    Session <- FALSE, Ops <- {"request", "close", "changehost"}, pc <- channel_pc,
    on <- channel_on, wake <- channel_wake, wire <- channel_wire, mail <- channel_mail,
    last <- channel_last, ops <- channel_ops
Numbered == INSTANCE SocketChannel WITH
    Session <- TRUE, Ops <- {"request", "connect", "close", "changehost"}, pc <- channel_pc,
    on <- channel_on, wake <- channel_wake, wire <- channel_wire, mail <- channel_mail,
    last <- channel_last, ops <- channel_ops

Read == INSTANCE SocketRead WITH
    MaxChunk <- 2, Lines <- TRUE, All <- FALSE, s <- socket, op <- read_op
Resolve == INSTANCE Dns WITH Request <- Resolver
Send == INSTANCE ClusterSend WITH
    User <- Pusher, MaxOps <- MaxSends, pc <- send_pc, op <- send_op, wake <- send_wake, ops <- sends
\* The services of some names ask for those of the others.
Launch == INSTANCE UniqueService WITH
    Name <- ServiceName, Inst <- 1 .. MaxInst,
    Needs <- [n \in ServiceName |-> IF n \in Dependent THEN ServiceName \ Dependent ELSE {}],
    state <- launch_state, pc <- launch_pc, op <- launch_op

ASSUME SessionAssumptions ==
    Calls!SessionAssumption /\ Waits!SessionAssumption /\ Kills!SessionAssumption
ASSUME Order!SocketChannelAssumption /\ Read!SocketReadAssumption
ASSUME Resolve!DnsAssumption /\ Resolve!DnsRequests
ASSUME SendAssumption == Send!ClusterSendAssumption
ASSUME LaunchAssumption == Launch!UniqueServiceAssumption

------------------------------------------------------------------------------
LuaInit ==
    /\ part \in Parts
    /\ Init /\ Read!Init /\ Resolve!Init /\ Send!Init /\ Launch!Init
    /\ CASE part = "calls" -> Calls!Init [] part = "waits" -> Waits!Init
         [] part = "kills" -> Kills!Init [] OTHER -> Live!Init
    /\ IF part = "numbered" THEN Numbered!Init ELSE Order!Init

\* A step of component p, in which the others stay.
In(p) ==
    /\ part = p /\ UNCHANGED part
    /\ p # "section" => UNCHANGED vars
    /\ p \notin {"calls", "waits", "kills", "live"} => UNCHANGED session_vars
    /\ p \notin {"order", "numbered"} => UNCHANGED channel_vars
    /\ p # "read" => UNCHANGED read_vars
    /\ p # "dns" => UNCHANGED dns_vars
    /\ p # "send" => UNCHANGED send_vars
    /\ p # "launch" => UNCHANGED launch_vars

LuaNext ==
    \/ In("section") /\ Next
    \/ In("calls") /\ Calls!Next
    \/ In("waits") /\ Waits!Next
    \/ In("kills") /\ Kills!Next
    \/ In("live") /\ Live!Next
    \/ In("order") /\ Order!Next
    \/ In("numbered") /\ Numbered!Next
    \/ In("read") /\ Read!Next
    \/ In("dns") /\ Resolve!Next
    \/ In("send") /\ Send!Next
    \/ In("launch") /\ Launch!Next

LuaSpec == LuaInit /\ [][LuaNext]_lua

\* The fairness of each component (see there).
LuaFairSpec ==
    /\ LuaSpec
    /\ \A s \in {"a", "b"} :
          /\ WF_lua(In("live") /\ Live!Scheduler(s))
          /\ WF_lua(In("live") /\ \E c \in {c1, c2, c3} : Live!Finish(s, c))
          /\ WF_lua(In("live") /\ Live!DropMessage(s))
          /\ WF_lua(In("live") /\ \E k \in session_timer[s] : Live!Expire(s, k))
    /\ WF_lua(In("order") /\ Order!Schedule) /\ WF_lua(In("order") /\ Order!DispStep)
    /\ \A u \in User : WF_lua(In("order") /\ Order!UserStep(u))
    /\ WF_lua(In("order") /\ Order!Message)
    /\ \A c \in 1 .. MaxConn :
          /\ WF_lua(In("order") /\ Order!NetOpen(c))
          /\ WF_lua(In("order") /\ c \in leaving /\ Order!NetClose(c))
          /\ WF_lua(/\ In("order") /\ Order!Answers(c) < Len(channel_wire[c])
                    /\ (Order!NetData(c) \/ Order!NetClose(c)))
    /\ WF_lua(In("read") /\ Read!Dispatch) /\ WF_lua(In("read") /\ Read!Resume)
    /\ WF_lua(In("read") /\ Read!Closed) /\ WF_lua(In("read") /\ kernel = "open" /\ Read!PeerClose)

------------------------------------------------------------------------------
\* Properties; HandedOnInOrder is CriticalSection's own.

\* A request is answered once at most, and not left behind by all who could
\* answer it (skynet.ret, skynet.response, skynet.exit, dispatch_error_queue).
AnsweredOnce == part = "calls" => Calls!AnsweredOnce /\ Calls!NoOrphan

\* The tables of sessions agree with where the coroutines are, so that answers,
\* errors and wake-ups reach whom they are for, all before the next message
\* (session_id_coroutine, watching_session, sleep_session, wakeup_queue).
Connected ==
    /\ part = "calls" => Calls!TypeOK /\ Calls!Connected /\ Calls!Drain /\ Calls!Expected
    /\ part = "waits" => Waits!TypeOK /\ Waits!Connected /\ Waits!Drain /\ Waits!Expected /\ Waits!BreakCleared
    /\ part = "kills" => Kills!TypeOK /\ Kills!Connected /\ Kills!Drain

\* A coroutine that asks over a channel gets the answer to its request or an
\* error, and there is always somebody to hand it out; a name is not given up
\* before its time-out (socketchannel.lua, dns.lua).
OwnAnswer ==
    /\ part = "order" => Order!OwnAnswer /\ Order!Served /\ Order!OneConnection
    /\ part = "numbered" => Numbered!OwnAnswer /\ Numbered!OneConnection
    /\ part = "dns" => Resolve!PoolOfWaiting /\ Resolve!NotBeforeTimeout /\ Resolve!OpenWhileWaiting

\* Whoever launches or queries a unique service gets the same one, and it is the
\* only one (service_mgr.lua, launcher.lua).
SameService == Launch!TypeOK /\ Launch!SameService /\ Launch!Unique

\* Calls and sends to another node go out in the order they were made, each once
\* or to an error (cluster.lua).
SendsInOrder == Send!InOrder /\ Send!NoneLost

\* Every call returns, unless a handler forgets to answer.
CallReturns == Live!CallReturns

\* Every operation on a channel ends, however connections end; a coroutine that
\* reads or closes a socket goes on, over pauses and the end of the connection,
\* and is not told of an end that is none (socketchannel.lua, socket.lua).
OperationsEnd ==
    /\ Order!OperationsEnd
    /\ Read!ReaderServed /\ Read!CloseReturns
    /\ [](Read!EndIsTrue /\ Read!PauseKnown /\ Read!FullIsPaused)
===============================================================================
