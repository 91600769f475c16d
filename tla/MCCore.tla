------------------------------ MODULE MCCore ------------------------------
\* The components of the C core under and beside the dispatcher, for TLC.  They
\* share no state here; the first state picks one, and in that behaviour only
\* its steps are taken.
EXTENDS MessageQueue, Sequences

CONSTANTS
    Parts,              \* the components of a run
    MaxLength,          \* bound of the model: the longest backlog of the queue
    C11,
    Thread, Worker, Writer, Service,
    NearShift, LevelShift, Delay, MaxTimers, MaxTicks, MaxJobs, MaxMessages,
    Ops, Size, MaxPackage, MaxId, MaxSending,
    Slots, MaxSocket, Cmds, Budget, Inbox

VARIABLE part

VARIABLES write, read, lpc, clear
lock_vars == <<write, read, lpc, clear>>

VARIABLES time, near, level, timer_pc, batch, pending, ticks, timer_due, fired
wheel_vars == <<time, near, level, timer_pc, batch, pending, ticks, timer_due, fired>>

VARIABLES jobs, pushed, total, quit, sleep, mutex, waiting, worker_pc, timer, socket, exitPipe
pool_vars == <<jobs, pushed, total, quit, sleep, mutex, waiting, worker_pc, timer, socket, exitPipe>>

VARIABLES version, checkVersion, destination, monitor_pc, msg, endless, looked, age, quiet
watch_vars == <<version, checkVersion, destination, monitor_pc, msg, endless, looked, age, quiet>>

VARIABLES type, id, protocol, fd, closing, writing, sending, high, low, dw, lock, write_pipe,
          freeing, write_pc, job, wire, broken, last, sent, accepted, due, ended
stream_vars == <<type, id, protocol, fd, closing, writing, sending, high, low, dw, lock, write_pipe,
            freeing, write_pc, job, wire, broken, last, sent, accepted, due, ended>>

VARIABLES sock, alloc, given, reserving, pipe, ctrl, events, closed, log, budget
server_vars == <<sock, alloc, given, reserving, pipe, ctrl, events, closed, log, budget>>

Lock == INSTANCE RWLock
Wheel == INSTANCE Timer WITH pc <- timer_pc, due <- timer_due
Pool == INSTANCE WorkerPool WITH pc <- worker_pc
Watch == INSTANCE Monitor WITH pc <- monitor_pc
Stream == INSTANCE SocketWrite WITH Worker <- Writer, pc <- write_pc, pipe <- write_pipe
Server == INSTANCE SocketServer WITH MaxId <- MaxSocket

ASSUME CoreAssumption == Wheel!TimerAssumption /\ Pool!PoolAssumption /\ Watch!MonitorAssumption
ASSUME SocketAssumption == Stream!SocketWriteAssumption /\ Server!SocketServerAssumption

core == <<part, vars, lock_vars, wheel_vars, pool_vars, watch_vars, stream_vars, server_vars>>

CoreInit ==
    /\ part \in Parts
    /\ Init /\ Lock!LockInit /\ Wheel!Init /\ Pool!Init /\ Watch!Init /\ Stream!Init /\ Server!Init

\* A step of component p, in which the others stay.
In(p) ==
    /\ part = p /\ UNCHANGED part
    /\ p # "queue" => UNCHANGED vars
    /\ p # "lock" => UNCHANGED lock_vars
    /\ p # "wheel" => UNCHANGED wheel_vars
    /\ p # "pool" => UNCHANGED pool_vars
    /\ p # "watch" => UNCHANGED watch_vars
    /\ p # "stream" => UNCHANGED stream_vars
    /\ p # "server" => UNCHANGED server_vars

CoreNext ==
    \/ In("queue") /\ Next /\ Length' <= MaxLength
    \/ In("lock") /\ Lock!LockNext
    \/ In("wheel") /\ Wheel!Next
    \/ In("pool") /\ Pool!Next
    \/ In("watch") /\ Watch!Next
    \/ In("stream") /\ Stream!Next
    \/ In("server") /\ Server!Next

CoreSpec == CoreInit /\ [][CoreNext]_core

\* The fairness of each component (see there).
CoreFairSpec ==
    /\ CoreSpec
    /\ \A t \in Thread :
          WF_core(In("lock") /\ (Lock!LockStep(t) \/ Lock!ReadUnlock(t) \/ Lock!WriteUnlock(t)))
    /\ \A w \in Worker : SF_core(In("pool") /\ Pool!WorkerStep(w))
    /\ SF_core(In("pool") /\ Pool!TimerStep)
    /\ WF_core(In("pool") /\ Pool!SocketStep)
    /\ WF_core(In("stream") /\ Stream!SocketThread)
    /\ WF_core(In("stream") /\ Stream!SendBytes(Len(Stream!Waiting)))
    /\ \A w \in Writer : WF_core(In("stream") /\ Stream!WorkerStep(w))
    /\ WF_core(In("server") /\ Server!SocketThread)
    /\ \A x \in Server!Slot : WF_core(In("server") /\ Server!Connected(x))

------------------------------------------------------------------------------
\* Properties; those of the queue are MessageQueue's own.

\* A timer fires in the tick it asked for, none is left behind, and those due at
\* the same time fire in the order in which they were added (skynet_timer.c).
TimersFire == Wheel!TypeOK /\ Wheel!OnTime /\ Wheel!NoneLate /\ Wheel!InOrderAdded

\* The monitor reports a handler that still runs at its second look, and accuses
\* nobody who has finished a message since its last (skynet_monitor_check).
EndlessReported == []Watch!RecordOK /\ Watch!EndlessSeen /\ Watch!BusyNotAccused

\* A connection carries whole packages of its own, each worker's in the order
\* sent, and a close knows whether there is something left to send (send_buffer,
\* the direct write of socket_server_send, inc_sending_ref, nomore_sending_data).
PackagesWhole ==
    /\ Stream!PackagesWhole /\ Stream!WireInOrder /\ Stream!OwnFile
    /\ Stream!SendingExact /\ Stream!GracefulClose

\* Every socket's end is told, and its close once, as the last there is to say
\* (report_message and the events of socket_server_poll).
CloseOnce == Server!CloseOnce /\ Server!EndTold

\* A writer that has announced itself gets in (rwlock_wlock).
WriterEnters == Lock!WriterEnters

\* A queue that is pushed is taken while a worker can take it, whoever sleeps
\* (wakeup, thread_worker); and after the last service every thread ends, but for
\* handlers that do not.
WorkIsTaken == []Pool!TypeOK /\ []Pool!SleepCount /\ (part = "pool" => Pool!WorkIsTaken) /\ Pool!Shutdown

\* A socket that is being closed is closed in the end, one that has hung up too,
\* and a connect is answered (close_socket, report_connect).
SocketsEnd == Stream!ClosesInTheEnd /\ Server!GoneIsClosed /\ Server!ConnectAnswered
==============================================================================
