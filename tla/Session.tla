------------------------------ MODULE Session ------------------------------
\* Sessions and coroutines of Lua services (lualib/skynet.lua).  A service
\* handles one message at a time: a coroutine runs until it waits for a session
\* (call, sleep, wait) and the answer with that session resumes it.  The tables
\* that connect sessions and coroutines are variables with the names of the
\* code; the queues of the services are those of module Actor.
EXTENDS Integers, Sequences, FiniteSets, SequencesExt

CONSTANTS
    Service,     \* Lua services
    Co,          \* coroutines of a service, the pool included
    MaxSession,  \* the largest session number: 2^31 - 1 in the code
    Wrap,        \* the counter may pass it; if not, MaxSession is a bound
    MaxMail,     \* bound on the sends without session that wait in a queue
    MaxWake,     \* bound on the tokens in wakeup_queue
    Ops,         \* what the code of a service does: its operations
    None, Break, \* nil, and "BREAK" of session_id_coroutine
    Blank        \* the empty function that suspend forks on an error

SessionAssumption ==
    /\ MaxSession \in Nat \ {0} /\ MaxMail \in Nat /\ MaxWake \in Nat
    /\ Wrap \in BOOLEAN /\ Co # {}
    /\ {None, Break, Blank} \cap (Service \cup Co) = {}
    /\ Break # None /\ None \notin 0 .. MaxSession

VARIABLES
    up,                        \* the handle is registered
    mail,                      \* the message queue
    phase,                     \* where dispatch_message is
    running,                   \* running_thread
    state,                     \* what a coroutine does
    on,                        \* the session it is suspended on
    last,                      \* session_id of the context
    timer,                     \* sessions the timer holds
    session_id_coroutine,
    watching_session,
    session_coroutine_id,      \* None, 0 for a send, or the caller's session
    session_coroutine_address,
    unresponse,                \* closures of skynet.response not yet called
    sleep_session,             \* the token of a sleep is its coroutine
    wakeup_queue, error_queue, fork_queue,
    answers,                   \* answers sent to a session (history)
    forgotten,                 \* requests whose handler ended without an answer
    broken                     \* dispatch_error_queue met no coroutine

context == <<up, last, timer>>
threads == <<state, on, session_id_coroutine, watching_session, sleep_session>>
duties == <<session_coroutine_id, session_coroutine_address, unresponse>>
pending == <<wakeup_queue, error_queue, fork_queue>>
history == <<answers, forgotten, broken>>
vars == <<context, mail, phase, running, threads, duties, pending, history>>

Sessions == 1 .. MaxSession
Message == [type : {"request", "response", "error"},
            session : 0 .. MaxSession, source : Service \cup {None}]
Free(s) == {c \in Co : state[s][c] = "free"}

\* skynet.start: a timeout of 0 starts the main coroutine.
Init ==
    LET main == CHOOSE c \in Co : TRUE
    IN /\ up = [s \in Service |-> TRUE]
       /\ mail = [s \in Service |-> <<>>]
       /\ phase = [s \in Service |-> "idle"]
       /\ running = [s \in Service |-> None]
       /\ state = [s \in Service |->
                     [c \in Co |-> IF c = main THEN "ready" ELSE "free"]]
       /\ on = [s \in Service |-> [c \in Co |-> IF c = main THEN 1 ELSE 0]]
       /\ last = [s \in Service |-> 1]
       /\ timer = [s \in Service |-> {1}]
       /\ session_id_coroutine = [s \in Service |->
                     [k \in Sessions |-> IF k = 1 THEN main ELSE None]]
       /\ watching_session = [s \in Service |-> [k \in Sessions |-> None]]
       /\ session_coroutine_id = [s \in Service |-> [c \in Co |-> None]]
       /\ session_coroutine_address = [s \in Service |-> [c \in Co |-> None]]
       /\ unresponse = [s \in Service |-> {}]
       /\ sleep_session = [s \in Service |-> [c \in Co |-> None]]
       /\ wakeup_queue = [s \in Service |-> <<>>]
       /\ error_queue = [s \in Service |-> <<>>]
       /\ fork_queue = [s \in Service |-> <<>>]
       /\ answers = [s \in Service |-> [k \in Sessions |-> 0]]
       /\ forgotten = {}
       /\ broken = [s \in Service |-> FALSE]

------------------------------------------------------------------------------
\* Messages.

\* skynet_context_newsession.
NewSession(s) ==
    /\ Wrap \/ last[s] < MaxSession
    /\ last' = [last EXCEPT ![s] = IF @ = MaxSession THEN 1 ELSE @ + 1]

\* skynet_send: to a handle that is retired nothing is queued.
Post(d, m) == mail' = IF up[d] THEN [mail EXCEPT ![d] = Append(@, m)] ELSE mail

\* An answer of s to session k of d.
Answer(s, d, type, k) ==
    /\ Post(d, [type |-> type, session |-> k, source |-> s])
    /\ answers' = IF k \in Sessions /\ up[d]
                  THEN [answers EXCEPT ![d][k] = @ + 1] ELSE answers

------------------------------------------------------------------------------
\* The scheduler of a service.

\* coroutine_resume(co): a call forgets its watch, a sleep its token.
Resume(s, c, k, rest) ==
    /\ running' = [running EXCEPT ![s] = c]
    /\ phase' = [phase EXCEPT ![s] = "run"]
    /\ state' = [state EXCEPT ![s][c] = "run"]
    /\ on' = [on EXCEPT ![s][c] = 0]
    /\ session_id_coroutine' = [session_id_coroutine EXCEPT ![s][k] = rest]
    /\ watching_session' = [watching_session EXCEPT ![s][k] = None]
    /\ sleep_session' = [sleep_session EXCEPT ![s][c] = None]

\* The coroutine yields "SUSPEND": dispatch_wakeup follows.
Suspend(s) == /\ running' = [running EXCEPT ![s] = None]
              /\ phase' = [phase EXCEPT ![s] = "wakeup"]

\* A Lua error: dispatch_message goes on with the fork queue.
Throw(s) == /\ running' = [running EXCEPT ![s] = None]
            /\ phase' = [phase EXCEPT ![s] = "fork"]

HeadIs(s, type) == /\ phase[s] = "idle" /\ mail[s] # <<>>
                  /\ Head(mail[s]).type = type

\* raw_dispatch_message of a PTYPE_RESPONSE, a timeout included.
DispatchResponse(s) ==
    LET k == Head(mail[s]).session
        co == session_id_coroutine[s][k]
    IN /\ HeadIs(s, "response")
       /\ mail' = [mail EXCEPT ![s] = Tail(@)]
       /\ \/ co \in Co /\ Resume(s, co, k, None)
          \/ /\ co \in {Break, None}
             /\ session_id_coroutine' = [session_id_coroutine EXCEPT ![s][k] = None]
             /\ Throw(s)
             /\ UNCHANGED <<state, on, watching_session, sleep_session>>
       /\ UNCHANGED <<context, duties, pending, history>>

\* A request, or a send (session 0), starts a coroutine of the pool.
DispatchRequest(s) ==
    /\ HeadIs(s, "request")
    /\ \E c \in Free(s) :
          /\ state' = [state EXCEPT ![s][c] = "run"]
          /\ running' = [running EXCEPT ![s] = c]
          /\ session_coroutine_id' =
                [session_coroutine_id EXCEPT ![s][c] = Head(mail[s]).session]
          /\ session_coroutine_address' =
                [session_coroutine_address EXCEPT ![s][c] = Head(mail[s]).source]
    /\ phase' = [phase EXCEPT ![s] = "run"]
    /\ mail' = [mail EXCEPT ![s] = Tail(@)]
    /\ UNCHANGED <<context, on, session_id_coroutine, watching_session,
                   sleep_session, unresponse, pending, history>>

\* A message of a protocol without a dispatch function: the caller gets an
\* error, a send raises one here.
RefuseRequest(s) ==
    LET m == Head(mail[s])
    IN /\ HeadIs(s, "request") /\ "refuse" \in Ops[s]
       /\ LET left == [mail EXCEPT ![s] = Tail(@)] IN
            IF m.session = 0 \/ ~up[m.source]
            THEN mail' = left /\ UNCHANGED answers
            ELSE /\ mail' = [left EXCEPT ![m.source] = Append(@,
                       [type |-> "error", session |-> m.session, source |-> s])]
                 /\ answers' = [answers EXCEPT ![m.source][m.session] = @ + 1]
       /\ Throw(s)
       /\ UNCHANGED <<context, threads, duties, pending, forgotten, broken>>

\* Mutant: an error whose session is 0 is taken for that session alone.
DispatchErrorOne(s) ==
    LET m == Head(mail[s])
    IN /\ HeadIs(s, "error")
       /\ mail' = [mail EXCEPT ![s] = Tail(@)]
       /\ error_queue' = IF m.session # 0 /\ watching_session[s][m.session] # None
                         THEN [error_queue EXCEPT ![s] = Append(@, m.session)]
                         ELSE error_queue
       /\ Suspend(s)
       /\ UNCHANGED <<context, threads, duties, wakeup_queue, fork_queue, history>>

\* _error_dispatch: error 0 says that its source is down.
DispatchError(s) ==
    LET m == Head(mail[s])
        lost == {k \in Sessions : IF m.session = 0
                                  THEN watching_session[s][k] = m.source
                                  ELSE k = m.session /\ watching_session[s][k] # None}
    IN /\ HeadIs(s, "error")
       /\ mail' = [mail EXCEPT ![s] = Tail(@)]
       /\ \E order \in SetToSeqs(lost) :
             error_queue' = [error_queue EXCEPT ![s] = @ \o order]
       /\ unresponse' = IF m.session # 0 THEN unresponse
                        ELSE [unresponse EXCEPT ![s] = {r \in @ : r[1] # m.source}]
       /\ Suspend(s)
       /\ UNCHANGED <<context, threads, session_coroutine_id,
                      session_coroutine_address, wakeup_queue, fork_queue, history>>

\* Mutant: skynet.wait does not clear its session.
DispatchWakeupBreak(s) ==
    LET c == Head(wakeup_queue[s])
        k == sleep_session[s][c]
    IN /\ phase[s] = "wakeup" /\ wakeup_queue[s] # <<>>
       /\ wakeup_queue' = [wakeup_queue EXCEPT ![s] = Tail(@)]
       /\ \/ k = None /\ UNCHANGED <<phase, running, threads>>
          \/ k # None /\ Resume(s, session_id_coroutine[s][k], k, Break)
       /\ UNCHANGED <<context, mail, duties, error_queue, fork_queue, history>>

\* dispatch_wakeup: tokens that sleep no more are dropped; a wait clears its
\* session itself, that of a sleep waits for its timeout.
DispatchWakeup(s) ==
    LET c == Head(wakeup_queue[s])
        k == sleep_session[s][c]
    IN /\ phase[s] = "wakeup" /\ wakeup_queue[s] # <<>>
       /\ wakeup_queue' = [wakeup_queue EXCEPT ![s] = Tail(@)]
       /\ \/ k = None /\ UNCHANGED <<phase, running, threads>>
          \/ k # None /\ Resume(s, session_id_coroutine[s][k], k,
                                IF state[s][c] = "wait" THEN None ELSE Break)
       /\ UNCHANGED <<context, mail, duties, error_queue, fork_queue, history>>

\* dispatch_error_queue: the call of the session fails.
DispatchErrorQueue(s) ==
    LET k == Head(error_queue[s])
        co == session_id_coroutine[s][k]
    IN /\ phase[s] = "wakeup" /\ wakeup_queue[s] = <<>> /\ error_queue[s] # <<>>
       /\ error_queue' = [error_queue EXCEPT ![s] = Tail(@)]
       /\ \/ co \in Co /\ Resume(s, co, k, None) /\ UNCHANGED broken
          \/ /\ co \notin Co
             /\ session_id_coroutine' = [session_id_coroutine EXCEPT ![s][k] = None]
             /\ broken' = [broken EXCEPT ![s] = TRUE]
             /\ Throw(s)
             /\ UNCHANGED <<state, on, watching_session, sleep_session>>
       /\ UNCHANGED <<context, mail, duties, wakeup_queue, fork_queue, answers,
                      forgotten>>

Drained(s) ==
    /\ phase[s] = "wakeup" /\ wakeup_queue[s] = <<>> /\ error_queue[s] = <<>>
    /\ phase' = [phase EXCEPT ![s] = "fork"]
    /\ UNCHANGED <<context, mail, running, threads, duties, pending, history>>

\* dispatch_message: the forked coroutines start, one after the other.
StartFork(s) ==
    LET c == Head(fork_queue[s])
    IN /\ phase[s] = "fork" /\ fork_queue[s] # <<>>
       /\ fork_queue' = [fork_queue EXCEPT ![s] = Tail(@)]
       /\ \/ c = Blank /\ Suspend(s) /\ UNCHANGED state
          \/ /\ c # Blank
             /\ running' = [running EXCEPT ![s] = c]
             /\ phase' = [phase EXCEPT ![s] = "run"]
             /\ state' = [state EXCEPT ![s][c] = "run"]
       /\ UNCHANGED <<context, mail, on, session_id_coroutine, watching_session,
                      sleep_session, duties, wakeup_queue, error_queue, history>>

MessageDone(s) ==
    /\ phase[s] = "fork" /\ fork_queue[s] = <<>>
    /\ phase' = [phase EXCEPT ![s] = "idle"]
    /\ UNCHANGED <<context, mail, running, threads, duties, pending, history>>

Scheduler(s) ==
    \/ DispatchResponse(s) \/ DispatchRequest(s) \/ RefuseRequest(s)
    \/ DispatchError(s) \/ DispatchWakeup(s) \/ DispatchErrorQueue(s) \/ Drained(s)
    \/ StartFork(s) \/ MessageDone(s)

------------------------------------------------------------------------------
\* What a running coroutine c of s does.

Does(s, c, op) == op \in Ops[s] /\ phase[s] = "run" /\ running[s] = c

\* The coroutine waits on session last' of its service.
Park(s, c, how, watch, token) ==
    /\ Suspend(s)
    /\ state' = [state EXCEPT ![s][c] = how]
    /\ on' = [on EXCEPT ![s][c] = last'[s]]
    /\ session_id_coroutine' = [session_id_coroutine EXCEPT ![s][last'[s]] = c]
    /\ watching_session' = [watching_session EXCEPT ![s][last'[s]] = watch]
    /\ sleep_session' = [sleep_session EXCEPT ![s][c] =
                           IF token THEN last'[s] ELSE None]

\* skynet.call and rawcall; the call to a handle that is gone raises an error
\* that the caller may catch.
Call(s, c, d) ==
    /\ Does(s, c, "call")
    /\ NewSession(s)
    /\ Post(d, [type |-> "request", session |-> last'[s], source |-> s])
    /\ IF up[d] THEN Park(s, c, "call", d, FALSE)
                ELSE UNCHANGED <<running, phase, threads>>
    /\ UNCHANGED <<up, timer, duties, pending, history>>

Send(s, c, d) ==
    /\ Does(s, c, "send")
    /\ Len(mail[d]) < MaxMail
    /\ Post(d, [type |-> "request", session |-> 0, source |-> s])
    /\ UNCHANGED <<context, phase, running, threads, duties, pending, history>>

\* skynet.sleep and yield.
Sleep(s, c) ==
    /\ Does(s, c, "sleep")
    /\ NewSession(s)
    /\ timer' = [timer EXCEPT ![s] = @ \cup {last'[s]}]
    /\ Park(s, c, "sleep", None, TRUE)
    /\ UNCHANGED <<up, mail, duties, pending, history>>

Wait(s, c) ==
    /\ Does(s, c, "wait")
    /\ NewSession(s)
    /\ Park(s, c, "wait", None, TRUE)
    /\ UNCHANGED <<up, timer, mail, duties, pending, history>>

Wakeup(s, c, v) ==
    /\ Does(s, c, "wakeup")
    /\ sleep_session[s][v] # None
    /\ Len(wakeup_queue[s]) < MaxWake
    /\ wakeup_queue' = [wakeup_queue EXCEPT ![s] = Append(@, v)]
    /\ UNCHANGED <<context, mail, phase, running, threads, duties, error_queue,
                   fork_queue, history>>

Fork(s, c, v) ==
    /\ Does(s, c, "fork")
    /\ v \in Free(s)
    /\ Len(fork_queue[s]) < Cardinality(Co)
    /\ state' = [state EXCEPT ![s][v] = "ready"]
    /\ fork_queue' = [fork_queue EXCEPT ![s] = Append(@, v)]
    /\ UNCHANGED <<context, mail, phase, running, on, session_id_coroutine,
                   watching_session, sleep_session, duties, wakeup_queue,
                   error_queue, history>>

\* skynet.timeout.
Timeout(s, c, v) ==
    /\ Does(s, c, "timeout")
    /\ v \in Free(s)
    /\ NewSession(s)
    /\ timer' = [timer EXCEPT ![s] = @ \cup {last'[s]}]
    /\ state' = [state EXCEPT ![s][v] = "ready"]
    /\ on' = [on EXCEPT ![s][v] = last'[s]]
    /\ session_id_coroutine' = [session_id_coroutine EXCEPT ![s][last'[s]] = v]
    /\ UNCHANGED <<up, mail, phase, running, watching_session, sleep_session,
                   duties, pending, history>>

\* skynet.ret: an answer that is too large becomes an error.
Ret(s, c) ==
    /\ Does(s, c, "ret")
    /\ session_coroutine_id[s][c] # None
    /\ session_coroutine_id' = [session_coroutine_id EXCEPT ![s][c] = None]
    /\ IF session_coroutine_id[s][c] = 0 THEN UNCHANGED <<mail, answers>>
       ELSE \E type \in {"response", "error"} :
               Answer(s, session_coroutine_address[s][c], type,
                      session_coroutine_id[s][c])
    /\ UNCHANGED <<context, phase, running, threads, session_coroutine_address,
                   unresponse, pending, forgotten, broken>>

\* skynet.response: the closure owes the answer from here on.
Response(s, c) ==
    /\ Does(s, c, "response")
    /\ session_coroutine_id[s][c] # None
    /\ session_coroutine_id' = [session_coroutine_id EXCEPT ![s][c] = None]
    /\ unresponse' = IF session_coroutine_id[s][c] = 0 THEN unresponse
                     ELSE [unresponse EXCEPT ![s] = @ \cup
                        {<<session_coroutine_address[s][c],
                           session_coroutine_id[s][c]>>}]
    /\ UNCHANGED <<context, mail, phase, running, threads,
                   session_coroutine_address, pending, history>>

\* The closure is called, by any coroutine of the service.
Respond(s, c, r) ==
    /\ Does(s, c, "response")
    /\ r \in unresponse[s]
    /\ unresponse' = [unresponse EXCEPT ![s] = @ \ {r}]
    /\ \E type \in {"response", "error"} : Answer(s, r[1], type, r[2])
    /\ UNCHANGED <<context, phase, running, threads, session_coroutine_id,
                   session_coroutine_address, pending, forgotten, broken>>

\* What coroutine c owes: the request that nobody will answer if it goes.
Debt(s, c) == IF session_coroutine_id[s][c] \in Sessions
              THEN {<<session_coroutine_address[s][c], session_coroutine_id[s][c]>>}
              ELSE {}

Clear(s, c) ==
    /\ session_coroutine_id' = [session_coroutine_id EXCEPT ![s][c] = None]
    /\ session_coroutine_address' = [session_coroutine_address EXCEPT ![s][c] = None]
    /\ UNCHANGED unresponse

\* The function of the coroutine returns: it goes back to the pool.  A request
\* that it has not answered is forgotten, with a line in the log.
Finish(s, c) ==
    /\ Does(s, c, "finish")
    /\ Clear(s, c)
    /\ forgotten' = forgotten \cup Debt(s, c)
    /\ state' = [state EXCEPT ![s][c] = "free"]
    /\ Suspend(s)
    /\ UNCHANGED <<context, mail, on, session_id_coroutine, watching_session,
                   sleep_session, pending, answers, broken>>

\* The function raises an error: suspend reports it to the caller.
Fail(s, c) ==
    /\ Does(s, c, "fail")
    /\ Clear(s, c)
    /\ IF Debt(s, c) = {} THEN UNCHANGED <<mail, answers>>
       ELSE Answer(s, session_coroutine_address[s][c], "error",
                   session_coroutine_id[s][c])
    /\ fork_queue' = [fork_queue EXCEPT ![s] = Append(@, Blank)]
    /\ state' = [state EXCEPT ![s][c] = "free"]
    /\ Throw(s)
    /\ UNCHANGED <<context, on, session_id_coroutine, watching_session,
                   sleep_session, wakeup_queue, error_queue, forgotten, broken>>

\* skynet.killthread of a coroutine that waits to be started by fork.
KillForked(s, c, v) ==
    /\ Does(s, c, "kill")
    /\ \E i \in DOMAIN fork_queue[s] :
          /\ fork_queue[s][i] = v
          /\ fork_queue' = [fork_queue EXCEPT ![s] = RemoveAt(@, i)]
    /\ state' = [state EXCEPT ![s][v] = "free"]
    /\ UNCHANGED <<context, mail, phase, running, on, session_id_coroutine,
                   watching_session, sleep_session, duties, wakeup_queue,
                   error_queue, history>>

\* skynet.killthread of a coroutine that waits for a session.  The handler of a
\* message reports an error with what session_coroutine_id holds: the session,
\* 0 after a send, nil (a new session of this service) after an answer.
Kill(s, c, v) ==
    LET k == on[s][v]
        id == session_coroutine_id[s][v]
        to == session_coroutine_address[s][v]
    IN /\ Does(s, c, "kill")
       /\ k # 0 /\ session_id_coroutine[s][k] = v
       /\ \/ to = None /\ UNCHANGED <<mail, last, answers>>
          \/ to # None /\ id # None /\ Answer(s, to, "error", id) /\ UNCHANGED last
          \/ to # None /\ id = None /\ NewSession(s)
             /\ Answer(s, to, "error", last'[s])
       /\ session_id_coroutine' = [session_id_coroutine EXCEPT ![s][k] =
             IF watching_session[s][k] # None THEN Break ELSE None]
       /\ watching_session' = [watching_session EXCEPT ![s][k] = None]
       /\ sleep_session' = [sleep_session EXCEPT ![s][v] = None]
       /\ state' = [state EXCEPT ![s][v] = "free"]
       /\ on' = [on EXCEPT ![s][v] = 0]
       /\ Clear(s, v)
       /\ UNCHANGED <<up, timer, phase, running, pending, forgotten, broken>>

\* The errors that an exit sends to d: one for each request of d that a
\* coroutine or a closure of s has still to answer, in some order, and one for
\* all the calls of s to d.
Owed(s, d) == {k \in Sessions : \/ \E c \in Co : <<d, k>> \in Debt(s, c)
                                \/ <<d, k>> \in unresponse[s]}
Waits(s, d) == \E k \in Sessions : watching_session[s][k] = d
Farewell(s, d, ks) ==
    LET order == SetToSeq(ks)
    IN [i \in 1 .. Len(order) |->
          [type |-> "error", session |-> order[i], source |-> s]] \o
       IF Waits(s, d) THEN <<[type |-> "error", session |-> 0, source |-> s]>>
                      ELSE <<>>

Leave(s, c, owed) ==
    /\ Does(s, c, "exit")
    /\ up' = [up EXCEPT ![s] = FALSE]
    /\ mail' = [d \in Service |->
                  IF up[d] THEN mail[d] \o Farewell(s, d, owed[d]) ELSE mail[d]]
    /\ answers' = [d \in Service |-> [k \in Sessions |->
                     IF up[d] /\ k \in owed[d] THEN answers[d][k] + 1
                     ELSE answers[d][k]]]
    /\ phase' = [phase EXCEPT ![s] = "gone"]
    /\ running' = [running EXCEPT ![s] = None]
    /\ state' = [state EXCEPT ![s] = [v \in Co |-> "free"]]
    /\ on' = [on EXCEPT ![s] = [v \in Co |-> 0]]
    /\ timer' = [timer EXCEPT ![s] = {}]
    /\ session_id_coroutine' =
          [session_id_coroutine EXCEPT ![s] = [k \in Sessions |-> None]]
    /\ watching_session' =
          [watching_session EXCEPT ![s] = [k \in Sessions |-> None]]
    /\ session_coroutine_id' =
          [session_coroutine_id EXCEPT ![s] = [v \in Co |-> None]]
    /\ session_coroutine_address' =
          [session_coroutine_address EXCEPT ![s] = [v \in Co |-> None]]
    /\ unresponse' = [unresponse EXCEPT ![s] = {}]
    /\ sleep_session' = [sleep_session EXCEPT ![s] = [v \in Co |-> None]]
    /\ wakeup_queue' = [wakeup_queue EXCEPT ![s] = <<>>]
    /\ error_queue' = [error_queue EXCEPT ![s] = <<>>]
    /\ fork_queue' = [fork_queue EXCEPT ![s] = <<>>]
    /\ UNCHANGED <<last, forgotten, broken>>

\* Mutant: the closures of skynet.response are not called.
ExitUnanswered(s, c) ==
    Leave(s, c, [d \in Service |-> {k \in Sessions : \E v \in Co : <<d, k>> \in Debt(s, v)}])

\* skynet.exit: the handle is retired last, and the Lua state is closed.
Exit(s, c) == Leave(s, c, [d \in Service |-> Owed(s, d)])

Runs(s) ==
    \E c \in Co :
        \/ Sleep(s, c) \/ Wait(s, c) \/ Ret(s, c) \/ Response(s, c)
        \/ Finish(s, c) \/ Fail(s, c) \/ Exit(s, c)
        \/ \E d \in Service : Call(s, c, d) \/ Send(s, c, d)
        \/ \E r \in unresponse[s] : Respond(s, c, r)
        \/ \E v \in Co : \/ Wakeup(s, c, v) \/ Fork(s, c, v) \/ Timeout(s, c, v)
                         \/ KillForked(s, c, v) \/ Kill(s, c, v)

------------------------------------------------------------------------------
\* The rest of the node.

\* The timer answers a TIMEOUT with its session.
Expire(s, k) ==
    /\ k \in timer[s]
    /\ timer' = [timer EXCEPT ![s] = @ \ {k}]
    /\ Post(s, [type |-> "response", session |-> k, source |-> None])
    /\ UNCHANGED <<up, last, phase, running, threads, duties, pending, history>>

\* The queue of a service that is gone is dropped: drop_message sends error 0
\* to the source of each message.
DropMessage(s) ==
    LET m == Head(mail[s])
        left == [mail EXCEPT ![s] = Tail(@)]
    IN /\ phase[s] = "gone" /\ mail[s] # <<>>
       /\ mail' = IF m.source = None \/ ~up[m.source] THEN left
                  ELSE [left EXCEPT ![m.source] =
                          Append(@, [type |-> "error", session |-> 0, source |-> s])]
       /\ UNCHANGED <<context, phase, running, threads, duties, pending, history>>

Next ==
    \E s \in Service : \/ Scheduler(s) \/ Runs(s) \/ DropMessage(s)
                       \/ \E k \in timer[s] : Expire(s, k)

\* A coroutine does not run for ever, and the workers and the timer go on.
Fairness ==
    \A s \in Service : /\ WF_vars(Scheduler(s))
                       /\ WF_vars(\E c \in Co : Finish(s, c))
                       /\ WF_vars(DropMessage(s))
                       /\ WF_vars(\E k \in timer[s] : Expire(s, k))

Spec == Init /\ [][Next]_vars
FairSpec == Spec /\ Fairness

------------------------------------------------------------------------------
\* Properties.

TypeOK ==
    /\ up \in [Service -> BOOLEAN]
    /\ mail \in [Service -> Seq(Message)]
    /\ phase \in [Service -> {"idle", "run", "wakeup", "fork", "gone"}]
    /\ running \in [Service -> Co \cup {None}]
    /\ state \in [Service ->
                    [Co -> {"free", "ready", "run", "call", "sleep", "wait"}]]
    /\ on \in [Service -> [Co -> 0 .. MaxSession]]
    /\ last \in [Service -> Sessions]
    /\ timer \in [Service -> SUBSET Sessions]
    /\ session_id_coroutine \in [Service -> [Sessions -> Co \cup {None, Break}]]
    /\ watching_session \in [Service -> [Sessions -> Service \cup {None}]]
    /\ session_coroutine_id \in [Service -> [Co -> {None} \cup 0 .. MaxSession]]
    /\ session_coroutine_address \in [Service -> [Co -> Service \cup {None}]]
    /\ unresponse \in [Service -> SUBSET (Service \X Sessions)]
    /\ sleep_session \in [Service -> [Co -> Sessions \cup {None}]]
    /\ wakeup_queue \in [Service -> Seq(Co)]
    /\ error_queue \in [Service -> Seq(Sessions)]
    /\ fork_queue \in [Service -> Seq(Co \cup {Blank})]
    /\ answers \in [Service -> [Sessions -> Nat]]
    /\ forgotten \subseteq Service \X Sessions
    /\ broken \in [Service -> BOOLEAN]

\* The tables agree with each other and with where each coroutine really is:
\* whoever waits is found under its session and nobody else is, so that an
\* answer, an error or a wakeup resumes the coroutine that it is for.
Connected ==
    \A s \in Service :
        /\ \A c \in Co : LET k == on[s][c] IN
             /\ k # 0 => session_id_coroutine[s][k] = c
             /\ sleep_session[s][c] =
                  IF state[s][c] \in {"sleep", "wait"} THEN k ELSE None
             /\ state[s][c] \in {"call", "sleep", "wait"} => k # 0
             /\ state[s][c] = "free" => session_coroutine_address[s][c] = None
        /\ \A k \in Sessions : LET c == session_id_coroutine[s][k] IN
             /\ c \in Co => on[s][c] = k
             /\ watching_session[s][k] # None <=> c \in Co /\ state[s][c] = "call"

\* A request is answered once at most, whichever of ret, the closure of
\* response, an error, an exit and the death of the caller come together.
AnsweredOnce == \A s \in Service, k \in Sessions : answers[s][k] <= 1

\* What a call to d can still be answered by.
Carried(s, k, d) ==
    \/ \E i \in DOMAIN mail[d] :
          mail[d][i] = [type |-> "request", session |-> k, source |-> s]
    \/ \E c \in Co : <<s, k>> \in Debt(d, c)
    \/ <<s, k>> \in unresponse[d]
    \/ \E i \in DOMAIN mail[s] :
          /\ mail[s][i].source = d /\ mail[s][i].type # "request"
          /\ mail[s][i].session \in (IF mail[s][i].type = "error" THEN {0, k} ELSE {k})
    \/ Contains(error_queue[s], k)

\* No call waits for an answer that cannot come any more, unless the handler of
\* its request ended without an answer: exits, errors and dropped queues all
\* send one.
NoOrphan ==
    \A s \in Service, k \in Sessions :
        watching_session[s][k] # None =>
            <<s, k>> \in forgotten \/ Carried(s, k, watching_session[s][k])

\* A message is not done before every error and every wakeup it led to has
\* reached its coroutine, even when one of those coroutines fails.
Drain ==
    \A s \in Service : phase[s] = "idle" =>
        wakeup_queue[s] = <<>> /\ (error_queue[s] = <<>> \/ broken[s])

\* A response, or a timeout, always finds its session: raw_dispatch_message
\* never raises "Unknown session".
Expected ==
    \A s \in Service : HeadIs(s, "response") =>
        session_id_coroutine[s][Head(mail[s]).session] # None

\* A session that is marked BREAK is cleared by an answer that is still to come.
BreakCleared ==
    \A s \in Service, k \in Sessions : session_id_coroutine[s][k] = Break =>
        \/ k \in timer[s]
        \/ \E i \in DOMAIN mail[s] :
              mail[s][i].type = "response" /\ mail[s][i].session = k

\* Only skynet.call is answered with an error: PTYPE_ERROR with session 0 tells
\* that a service is down, and does not come from one that is up.
OnlyCallsFail ==
    \A s \in Service : \A i \in DOMAIN mail[s] :
        mail[s][i].type = "error" /\ mail[s][i].session = 0 => ~up[mail[s][i].source]

\* A session that is given out is not one that somebody waits for: the
\* assertion of skynet.timeout.
FreshSession ==
    [][\A s \in Service : last'[s] # last[s] =>
          session_id_coroutine[s][last'[s]] = None]_vars

\* Every call returns, with an answer or with an error, as long as no request is
\* forgotten; every sleep ends.
CallReturns ==
    \A s \in Service, k \in Sessions :
        watching_session[s][k] # None ~>
            watching_session[s][k] = None \/ forgotten # {}
============================================================================
