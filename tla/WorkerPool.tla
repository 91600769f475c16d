----------------------------- MODULE WorkerPool -----------------------------
(***************************************************************************)
(* The threads of skynet-src/skynet_start.c: workers that go to sleep on a *)
(* condition variable when the global queue is empty, the socket and timer *)
(* threads that wake them, and the shutdown when no service is left.       *)
(*                                                                         *)
(* What a worker dispatches is the subject of module Dispatch; here it is  *)
(* a number of queues that wait in the global queue.  A worker that pushes *)
(* a queue wakes nobody: a sleeping worker learns of it from the timer     *)
(* thread, which looks every 2.5 milliseconds.                             *)
(***************************************************************************)
EXTENDS Integers, FiniteSets

CONSTANTS Worker,     \* the worker threads; m->count is their number
          MaxJobs     \* bound of the model: queues ever pushed

PoolAssumption == IsFiniteSet(Worker) /\ MaxJobs \in Nat

VARIABLES jobs,       \* queues in the global queue
          pushed,     \* queues pushed so far
          total,      \* a service is alive: skynet_context_total() # 0
          quit,       \* m->quit
          sleep,      \* m->sleep
          mutex,      \* the thread that holds m->mutex, or "nobody"
          waiting,    \* the workers inside pthread_cond_wait
          pc,         \* the workers
          timer,      \* the timer thread
          socket,     \* the socket thread
          exitPipe    \* skynet_socket_exit has been called

vars == <<jobs, pushed, total, quit, sleep, mutex, waiting, pc, timer, socket,
          exitPipe>>

Init == /\ jobs = 1           \* the bootstrap service
        /\ pushed = 1
        /\ total = TRUE
        /\ quit = FALSE
        /\ sleep = 0
        /\ mutex = "nobody"
        /\ waiting = {}
        /\ pc = [w \in Worker |-> "loop"]
        /\ timer = "update"
        /\ socket = "poll"
        /\ exitPipe = FALSE

Goto(w, from, to) == pc[w] = from /\ pc' = [pc EXCEPT ![w] = to]

-----------------------------------------------------------------------------
(***************************************************************************)
(* thread_worker.                                                          *)
(***************************************************************************)

\* while (!m->quit), read without the mutex.
Loop(w) ==
    /\ Goto(w, "loop", IF quit THEN "end" ELSE "dispatch")
    /\ UNCHANGED <<jobs, pushed, total, quit, sleep, mutex, waiting, timer, socket,
                   exitPipe>>

\* skynet_context_message_dispatch has a queue: its handlers run.
Dispatch(w) ==
    /\ jobs > 0
    /\ jobs' = jobs - 1
    /\ Goto(w, "dispatch", "handle")
    /\ UNCHANGED <<pushed, total, quit, sleep, mutex, waiting, timer, socket,
                   exitPipe>>

\* A handler sends to an idle service, whose queue is pushed.
HandlerPush(w) ==
    /\ pc[w] = "handle"
    /\ total
    /\ pushed < MaxJobs
    /\ jobs' = jobs + 1
    /\ pushed' = pushed + 1
    /\ UNCHANGED <<total, quit, sleep, mutex, waiting, pc, timer, socket, exitPipe>>

\* The last service exits (or ABORT retires all of them).
LastExit(w) ==
    /\ pc[w] = "handle"
    /\ total
    /\ total' = FALSE
    /\ UNCHANGED <<jobs, pushed, quit, sleep, mutex, waiting, pc, timer, socket,
                   exitPipe>>

HandlerReturns(w) ==
    /\ Goto(w, "handle", "loop")
    /\ UNCHANGED <<jobs, pushed, total, quit, sleep, mutex, waiting, timer, socket,
                   exitPipe>>

\* Nothing to dispatch: q == NULL.
NothingToDo(w) ==
    /\ jobs = 0
    /\ Goto(w, "dispatch", "lock")
    /\ UNCHANGED <<jobs, pushed, total, quit, sleep, mutex, waiting, timer, socket,
                   exitPipe>>

\* pthread_mutex_lock, ++ m->sleep.
Lock(w) ==
    /\ mutex = "nobody"
    /\ mutex' = w
    /\ sleep' = sleep + 1
    /\ Goto(w, "lock", "locked")
    /\ UNCHANGED <<jobs, pushed, total, quit, waiting, timer, socket, exitPipe>>

\* if (!m->quit) pthread_cond_wait, which gives the mutex back while it waits.
Wait(w) ==
    /\ IF quit THEN Goto(w, "locked", "wake") /\ UNCHANGED <<waiting, mutex>>
       ELSE /\ Goto(w, "locked", "waiting")
            /\ waiting' = waiting \cup {w}
            /\ mutex' = "nobody"
    /\ UNCHANGED <<jobs, pushed, total, quit, sleep, timer, socket, exitPipe>>

\* Signalled, the worker takes the mutex again.
Relock(w) ==
    /\ w \notin waiting
    /\ mutex = "nobody"
    /\ mutex' = w
    /\ Goto(w, "waiting", "wake")
    /\ UNCHANGED <<jobs, pushed, total, quit, sleep, waiting, timer, socket,
                   exitPipe>>

\* -- m->sleep, pthread_mutex_unlock.
Wake(w) ==
    /\ sleep' = sleep - 1
    /\ mutex' = "nobody"
    /\ Goto(w, "wake", "loop")
    /\ UNCHANGED <<jobs, pushed, total, quit, waiting, timer, socket, exitPipe>>

-----------------------------------------------------------------------------
(***************************************************************************)
(* wakeup(m, busy): the number of sleepers is read without the mutex, and  *)
(* then, when it is at least count - busy, the condition is signalled.  A  *)
(* signal wakes at least one waiter, if there is one.                      *)
(***************************************************************************)
EnoughSleep(busy) == sleep >= Cardinality(Worker) - busy

Signal == IF waiting = {} THEN UNCHANGED waiting
          ELSE \E W \in SUBSET waiting : W # {} /\ waiting' = waiting \ W

\* thread_timer: skynet_updatetime, whose expired timers push queues.
TimerUpdate ==
    /\ timer = "update"
    /\ \/ UNCHANGED <<jobs, pushed>>
       \/ /\ total /\ pushed < MaxJobs
          /\ jobs' = jobs + 1 /\ pushed' = pushed + 1
    /\ timer' = "check"
    /\ UNCHANGED <<total, quit, sleep, mutex, waiting, pc, socket, exitPipe>>

\* Mutant: the timer thread wakes workers only when all of them sleep.
TimerBusy0 == 0

\* wakeup(m, m->count - 1): one sleeper is enough.
TimerBusy == Cardinality(Worker) - 1

\* CHECK_ABORT, else wakeup and usleep(2500).
TimerCheck ==
    /\ timer = "check"
    /\ IF total THEN /\ timer' = IF EnoughSleep(TimerBusy) THEN "signal" ELSE "update"
                    /\ UNCHANGED exitPipe
       ELSE /\ timer' = "quit"
            /\ exitPipe' = TRUE          \* skynet_socket_exit
    /\ UNCHANGED <<jobs, pushed, total, quit, sleep, mutex, waiting, pc, socket>>

TimerSignal ==
    /\ timer = "signal"
    /\ Signal
    /\ timer' = "update"
    /\ UNCHANGED <<jobs, pushed, total, quit, sleep, mutex, pc, socket, exitPipe>>

\* lock, m->quit = 1, broadcast, unlock.
TimerQuit ==
    /\ timer = "quit"
    /\ mutex = "nobody"
    /\ quit' = TRUE
    /\ waiting' = {}
    /\ timer' = "end"
    /\ UNCHANGED <<jobs, pushed, total, sleep, mutex, pc, socket, exitPipe>>

\* thread_socket: an event pushes a queue, then wakeup(m, 0).
SocketEvent ==
    /\ socket = "poll"
    /\ total /\ pushed < MaxJobs
    /\ jobs' = jobs + 1 /\ pushed' = pushed + 1
    /\ socket' = "wakeup"
    /\ UNCHANGED <<total, quit, sleep, mutex, waiting, pc, timer, exitPipe>>

SocketWakeup ==
    /\ socket = "wakeup"
    /\ socket' = IF EnoughSleep(0) THEN "signal" ELSE "poll"
    /\ UNCHANGED <<jobs, pushed, total, quit, sleep, mutex, waiting, pc, timer,
                   exitPipe>>

SocketSignal ==
    /\ socket = "signal"
    /\ Signal
    /\ socket' = "poll"
    /\ UNCHANGED <<jobs, pushed, total, quit, sleep, mutex, pc, timer, exitPipe>>

\* The exit request ends the poll with 0.
SocketExit ==
    /\ socket = "poll"
    /\ exitPipe
    /\ socket' = "end"
    /\ UNCHANGED <<jobs, pushed, total, quit, sleep, mutex, waiting, pc, timer,
                   exitPipe>>

-----------------------------------------------------------------------------
WorkerStep(w) == \/ Loop(w) \/ Dispatch(w)
                 \/ NothingToDo(w) \/ Lock(w) \/ Wait(w) \/ Relock(w) \/ Wake(w)

TimerStep == TimerUpdate \/ TimerCheck \/ TimerSignal \/ TimerQuit

SocketStep == SocketWakeup \/ SocketSignal \/ SocketExit

Next == \/ \E w \in Worker : \/ WorkerStep(w)
                           \/ HandlerPush(w) \/ LastExit(w) \/ HandlerReturns(w)
        \/ TimerStep
        \/ SocketStep \/ SocketEvent

\* Every thread runs and a worker that keeps asking for the mutex gets it.  A
\* handler may run for ever, and nothing obliges handlers or the network to
\* produce work.
Spec == /\ Init /\ [][Next]_vars
        /\ \A w \in Worker : SF_vars(WorkerStep(w))
        /\ SF_vars(TimerStep)
        /\ WF_vars(SocketStep)

-----------------------------------------------------------------------------
Asleep == {w \in Worker : pc[w] \in {"locked", "waiting", "wake"}}

TypeOK == /\ jobs \in 0 .. MaxJobs
          /\ pushed \in 0 .. MaxJobs
          /\ total \in BOOLEAN /\ quit \in BOOLEAN /\ exitPipe \in BOOLEAN
          /\ mutex \in Worker \cup {"nobody"}
          /\ waiting \subseteq Worker
          /\ pc \in [Worker -> {"loop", "dispatch", "handle", "lock", "locked",
                                "waiting", "wake", "end"}]
          /\ timer \in {"update", "check", "signal", "quit", "end"}
          /\ socket \in {"poll", "wakeup", "signal", "end"}
          /\ sleep \in 0 .. Cardinality(Worker)

\* m->sleep counts the sleepers exactly, so that wakeup, which reads it
\* without the mutex, never takes a sleeping worker for a busy one for good.
SleepCount == sleep = Cardinality(Asleep)

\* A queue pushed to the global queue is taken while any worker can take it,
\* even if it was pushed between a worker's look at the queue and its wait, or
\* by a worker that wakes nobody and whose handler never returns.
WorkIsTaken ==
    jobs > 0 ~> (jobs = 0 \/ ~total \/ \A w \in Worker : pc[w] = "handle")

\* When the last service is gone, every thread ends and skynet_start returns,
\* unless a handler never does: no worker sleeps through the broadcast of quit.
Shutdown == ~total ~> (/\ \A w \in Worker : pc[w] \in {"end", "handle"}
                       /\ timer = "end" /\ socket = "end")
=============================================================================
