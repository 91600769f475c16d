------------------------------ MODULE Dispatch ------------------------------
(***************************************************************************)
(* The core of skynet: services, their message queues, the global queue of *)
(* queues that wait for a worker, and the threads that send to services,   *)
(* dispatch, launch and kill them (skynet-src/skynet_server.c, the         *)
(* in_global / release protocol of skynet_mq.c, and the handle table of    *)
(* skynet_handle.c as a map from handles to contexts).                     *)
(*                                                                         *)
(* One action is one critical section or one atomic operation of the code: *)
(* a grab of the handle table, an operation on a queue under its lock      *)
(* (which may nest the lock of the global queue), an atomic change of a    *)
(* reference count.  A thread runs nested calls, innermost first: the      *)
(* deletion of a context (del), a send or a kill in progress (op), the     *)
(* dropping of a dead queue (dropq), the launch of a service (launch), the *)
(* dispatch loop (pc).  A handle is never used twice here; the table that  *)
(* allocates handles is the subject of module HandleStorage, the ring      *)
(* buffer inside a queue that of MessageQueue.                             *)
(***************************************************************************)
EXTENDS Integers, Sequences, FiniteSets

CONSTANTS
    Service,   \* services: a handle, its context and its message queue
    Thread,    \* threads that may send (workers, timer, socket)
    Worker,    \* threads of Thread that run the dispatch loop
    Weight,    \* [Worker -> Int], the weight of each worker
    Boot,      \* services launched before the threads start, in order
    None,      \* no service; also the source 0 of timers and sockets
    MaxMsg     \* bound of the model: sends ever begun

ASSUME DispatchAssumption ==
    /\ IsFiniteSet(Thread)
    /\ Worker \subseteq Thread
    /\ Weight \in [Worker -> Int]
    /\ None \notin Service
    /\ MaxMsg \in Nat
    /\ Boot \in Seq(Service)
    /\ \A i, j \in 1 .. Len(Boot) : Boot[i] = Boot[j] => i = j

\* A shift by a weight divides by a power of two (a fact of arithmetic that the
\* provers do not know of the exponentiation of TLA+).
ASSUME ShiftAssumption ==
    \A w \in Worker : Weight[w] >= 0 => 2 ^ Weight[w] \in Nat \ {0}

VARIABLES
    slot,      \* slot[s]: the handle of s is in the handle table
    ref,       \* ref[s]: reference count of the context
    context,   \* context[s] \in {"none", "live", "freed"}
    init,      \* ctx->init
    mq,        \* mq[s]: the messages of the queue
    queue,     \* queue[s] \in {"none", "live", "freed"}
    inGlobal,  \* q->in_global
    release,   \* q->release
    globalQ,   \* the queues that wait for a worker
    pc,        \* the dispatch loop of each worker
    cur,       \* cur[w]: the queue w dispatches (q)
    nxt,       \* nxt[w]: the queue w has popped to go on with (nq)
    ctx,       \* ctx[w]: the context w has grabbed for the batch
    left,      \* left[w]: messages of the batch still to pop
    op,        \* op[t]: the send or kill thread t is in
    del,       \* del[t]: the context whose last reference t has given up
    dropq,     \* dropq[t]: the queue t is dropping
    launch,    \* launch[t]: the service t is launching
    lstep,     \* and how far it is
    sent,      \* number of sends begun: names the messages
    fate,      \* history: what became of each message
    seen       \* history: seen[s][d], the last message of s that d handled

service == <<slot, ref, context, init>>
queues  == <<mq, queue, inGlobal, release, globalQ>>
loop    == <<pc, cur, nxt, ctx, left>>
calls   == <<op, del, dropq, launch, lstep>>
history == <<sent, fate, seen>>
vars    == <<slot, ref, context, init, mq, queue, inGlobal, release, globalQ,
             pc, cur, nxt, ctx, left, op, del, dropq, launch, lstep,
             sent, fate, seen>>

MaybeService == Service \cup {None}

\* A message.  An error report carries the id of the message it is about.
Message == [id : 0 .. MaxMsg, src : MaybeService, err : BOOLEAN]

\* A send (grab the destination, push, put it back) or the end of a kill.
Call == [do : {"idle", "grab", "push", "put"}, svc : MaybeService, msg : Message]

NoMsg == [id |-> 0, src |-> None, err |-> FALSE]
NoOp  == [do |-> "idle", svc |-> None, msg |-> NoMsg]

Booted(s) == \E i \in 1 .. Len(Boot) : Boot[i] = s

\* skynet_start has launched the services of Boot and now starts the threads.
Init ==
    /\ slot = [s \in Service |-> Booted(s)]
    /\ ref = [s \in Service |-> IF Booted(s) THEN 1 ELSE 0]
    /\ context = [s \in Service |-> IF Booted(s) THEN "live" ELSE "none"]
    /\ init = [s \in Service |-> Booted(s)]
    /\ mq = [s \in Service |-> <<>>]
    /\ queue = [s \in Service |-> IF Booted(s) THEN "live" ELSE "none"]
    /\ inGlobal = [s \in Service |-> Booted(s)]
    /\ release = [s \in Service |-> FALSE]
    /\ globalQ = Boot
    /\ pc = [w \in Worker |-> "fetch"]
    /\ cur = [w \in Worker |-> None]
    /\ nxt = [w \in Worker |-> None]
    /\ ctx = [w \in Worker |-> None]
    /\ left = [w \in Worker |-> 0]
    /\ op = [t \in Thread |-> NoOp]
    /\ del = [t \in Thread |-> None]
    /\ dropq = [t \in Thread |-> None]
    /\ launch = [t \in Thread |-> None]
    /\ lstep = [t \in Thread |-> "idle"]
    /\ sent = 0
    /\ fate = [i \in 1 .. MaxMsg |-> "unsent"]
    /\ seen = [s \in Service |-> [d \in Service |-> 0]]

-----------------------------------------------------------------------------
(***************************************************************************)
(* References and queues: the operations the actions are made of.          *)
(***************************************************************************)

\* skynet_handle_grab, when it succeeds: the count goes up under the lock.
Grab(s) == ref' = [ref EXCEPT ![s] = @ + 1]

\* skynet_context_release: whoever takes the count to zero must delete.
Put(t, s) == /\ ref' = [ref EXCEPT ![s] = @ - 1]
             /\ del' = [del EXCEPT ![t] = IF ref[s] = 1 THEN s ELSE None]

\* Mutant: the queue is pushed to the global queue with every message.
EnqueueAlways(s, m) ==
    /\ mq' = [mq EXCEPT ![s] = Append(@, m)]
    /\ inGlobal' = [inGlobal EXCEPT ![s] = TRUE]
    /\ globalQ' = Append(globalQ, s)

\* skynet_mq_push on the queue of s, which is pushed to the global queue
\* when nobody is bound to look at it.
Enqueue(s, m) ==
    /\ mq' = [mq EXCEPT ![s] = Append(@, m)]
    /\ inGlobal' = [inGlobal EXCEPT ![s] = TRUE]
    /\ globalQ' = IF inGlobal[s] THEN globalQ ELSE Append(globalQ, s)

\* Mutant: the mark does not wake anybody to free the queue.
MarkReleaseQuiet(s) ==
    /\ release' = [release EXCEPT ![s] = TRUE]
    /\ UNCHANGED globalQ

\* skynet_mq_mark_release.
MarkRelease(s) ==
    /\ release' = [release EXCEPT ![s] = TRUE]
    /\ globalQ' = IF inGlobal[s] THEN globalQ ELSE Append(globalQ, s)

\* The thread is free to go on at the given level of nesting.
CallsDone(t) == del[t] = None /\ op[t].do = "idle"
Free(t) == CallsDone(t) /\ dropq[t] = None

\* The service on whose behalf thread t runs code of a service: the one whose
\* handler it is in, or the one whose init function it is in.
Running(t) == IF launch[t] # None THEN launch[t]
              ELSE IF t \in Worker THEN ctx[t] ELSE None

\* Service code runs: a handler, or the init function of a launch.
InService(t) == /\ Free(t)
                /\ t \in Worker
                /\ pc[t] = "call"
                /\ lstep[t] \in {"idle", "init"}

\* Threads other than workers only push messages, from source 0.
MaySend(t) == IF t \in Worker THEN InService(t) ELSE Free(t)

-----------------------------------------------------------------------------
(***************************************************************************)
(* Sending (skynet_send, skynet_context_push) and deleting a context.      *)
(***************************************************************************)

\* The send of thread t goes on to its next step.
Advance(t, step) ==
    op' = [op EXCEPT ![t] = [do |-> step, svc |-> @.svc, msg |-> @.msg]]

BeginSend(t, s) ==
    /\ MaySend(t)
    /\ queue[s] # "none"            \* the handle of s is known to somebody
    /\ sent < MaxMsg
    /\ sent' = sent + 1
    /\ fate' = [fate EXCEPT ![sent + 1] = "sending"]
    /\ op' = [op EXCEPT ![t] =
                [do |-> "grab", svc |-> s,
                 msg |-> [id |-> sent + 1, src |-> Running(t), err |-> FALSE]]]
    /\ UNCHANGED <<service, queues, loop, del, dropq, launch, lstep, seen>>

\* The destination is gone: skynet_send returns -1, or the report is lost.
SendRefused(t) ==
    /\ del[t] = None
    /\ op[t].do = "grab"
    /\ ~slot[op[t].svc]
    /\ op' = [op EXCEPT ![t] = NoOp]
    /\ fate' = [fate EXCEPT ![op[t].msg.id] =
                  CASE @ = "sending" -> "refused"
                    [] @ = "dropped" -> "orphaned"
                    [] OTHER -> @]
    /\ UNCHANGED <<service, queues, loop, del, dropq, launch, lstep, sent, seen>>

SendGrab(t) ==
    /\ del[t] = None
    /\ op[t].do = "grab"
    /\ slot[op[t].svc]
    /\ Grab(op[t].svc)
    /\ Advance(t, "push")
    /\ UNCHANGED <<slot, context, init, queues, loop, del, dropq, launch, lstep,
                   history>>

SendPush(t) ==
    /\ del[t] = None
    /\ op[t].do = "push"
    /\ Enqueue(op[t].svc, op[t].msg)
    /\ Advance(t, "put")
    /\ fate' = [fate EXCEPT ![op[t].msg.id] =
                  CASE @ = "sending" -> "queued"
                    [] @ = "dropped" -> "returned"
                    [] OTHER -> @]
    /\ UNCHANGED <<service, queue, release, loop, del, dropq, launch, lstep,
                   sent, seen>>

\* skynet_context_release at the end of a push or of skynet_handle_retire.
OpPut(t) ==
    /\ del[t] = None
    /\ op[t].do = "put"
    /\ Put(t, op[t].svc)
    /\ op' = [op EXCEPT ![t] = NoOp]
    /\ UNCHANGED <<slot, context, init, queues, loop, dropq, launch, lstep,
                   history>>

\* delete_context: the queue is marked, the context freed.
Delete(t) ==
    /\ del[t] # None
    /\ MarkRelease(del[t])
    /\ context' = [context EXCEPT ![del[t]] = "freed"]
    /\ del' = [del EXCEPT ![t] = None]
    /\ UNCHANGED <<slot, ref, init, mq, queue, inGlobal, loop, op, dropq, launch,
                   lstep, history>>

-----------------------------------------------------------------------------
(***************************************************************************)
(* Killing a service: skynet_handle_retire takes the handle out of the     *)
(* table under the write lock and then gives up the table's reference.     *)
(* skynet_handle_retireall (ABORT) is a sequence of these.                 *)
(***************************************************************************)
Retire(t, s) ==
    /\ slot' = [slot EXCEPT ![s] = FALSE]
    /\ op' = [op EXCEPT ![t] = [do |-> "put", svc |-> s, msg |-> NoMsg]]

Kill(t, s) ==
    /\ InService(t)
    /\ slot[s]
    /\ Retire(t, s)
    /\ UNCHANGED <<ref, context, init, queues, loop, del, dropq, launch, lstep,
                   history>>

-----------------------------------------------------------------------------
(***************************************************************************)
(* Launching a service: skynet_context_new.                                *)
(***************************************************************************)
\* Mutant: skynet_mq_create leaves in_global clear, so that a message sent
\* during the init function schedules the queue.
BeginLaunchIdle(t, s) ==
    /\ InService(t)
    /\ launch[t] = None
    /\ queue[s] = "none"
    /\ slot' = [slot EXCEPT ![s] = TRUE]
    /\ ref' = [ref EXCEPT ![s] = 2]
    /\ context' = [context EXCEPT ![s] = "live"]
    /\ queue' = [queue EXCEPT ![s] = "live"]
    /\ launch' = [launch EXCEPT ![t] = s]
    /\ lstep' = [lstep EXCEPT ![t] = "init"]
    /\ UNCHANGED <<init, mq, inGlobal, release, globalQ, loop, op, del, dropq,
                   history>>

BeginLaunch(t, s) ==
    /\ InService(t)
    /\ launch[t] = None
    /\ queue[s] = "none"
    /\ slot' = [slot EXCEPT ![s] = TRUE]
    /\ ref' = [ref EXCEPT ![s] = 2]         \* the table's and the caller's
    /\ context' = [context EXCEPT ![s] = "live"]
    /\ queue' = [queue EXCEPT ![s] = "live"]
    /\ inGlobal' = [inGlobal EXCEPT ![s] = TRUE]
    /\ launch' = [launch EXCEPT ![t] = s]
    /\ lstep' = [lstep EXCEPT ![t] = "init"]
    /\ UNCHANGED <<init, mq, release, globalQ, loop, op, del, dropq, history>>

\* The init function returns 0: the caller's reference is given up.
InitOk(t) ==
    /\ Free(t)
    /\ lstep[t] = "init"
    /\ Put(t, launch[t])
    /\ lstep' = [lstep EXCEPT ![t] =
                   IF ref[launch[t]] = 1 THEN "enqueue" ELSE "ready"]
    /\ UNCHANGED <<slot, context, init, queues, loop, op, dropq, launch, history>>

\* ctx->init = true
InitReady(t) ==
    /\ Free(t)
    /\ lstep[t] = "ready"
    /\ init' = [init EXCEPT ![launch[t]] = TRUE]
    /\ lstep' = [lstep EXCEPT ![t] = "enqueue"]
    /\ UNCHANGED <<slot, ref, context, queues, loop, op, del, dropq, launch,
                   history>>

LaunchDone(t) == /\ launch' = [launch EXCEPT ![t] = None]
                 /\ lstep' = [lstep EXCEPT ![t] = "idle"]

\* skynet_globalmq_push(queue): from now on workers dispatch to the service.
LaunchEnqueue(t) ==
    /\ Free(t)
    /\ lstep[t] = "enqueue"
    /\ globalQ' = Append(globalQ, launch[t])
    /\ LaunchDone(t)
    /\ UNCHANGED <<service, mq, queue, inGlobal, release, loop, op, del, dropq,
                   history>>

\* Mutant: the failure path forgets the reference of the caller.
InitFailLeak(t) ==
    /\ Free(t)
    /\ lstep[t] = "init"
    /\ lstep' = [lstep EXCEPT ![t] = "retire"]
    /\ UNCHANGED <<service, queues, loop, op, del, dropq, launch, history>>

\* The init function fails: release, retire, skynet_mq_release.
InitFail(t) ==
    /\ Free(t)
    /\ lstep[t] = "init"
    /\ Put(t, launch[t])
    /\ lstep' = [lstep EXCEPT ![t] = "retire"]
    /\ UNCHANGED <<slot, context, init, queues, loop, op, dropq, launch, history>>

InitFailRetire(t) ==
    /\ Free(t)
    /\ lstep[t] = "retire"
    /\ IF slot[launch[t]] THEN Retire(t, launch[t]) ELSE UNCHANGED <<slot, op>>
    /\ lstep' = [lstep EXCEPT ![t] = "mq_release"]
    /\ UNCHANGED <<ref, context, init, queues, loop, del, dropq, launch, history>>

\* Mutant: the queue is dropped without waiting for its mark.
MqReleaseAtOnce(t, s) == dropq' = [dropq EXCEPT ![t] = s] /\ UNCHANGED globalQ

\* Mutant: a queue that is not marked yet is not pushed back.
MqReleaseForget(t, s) ==
    /\ dropq' = IF release[s] THEN [dropq EXCEPT ![t] = s] ELSE dropq
    /\ UNCHANGED globalQ

\* skynet_mq_release(s): drop the queue when its context is deleted, else
\* push it back to the global queue for a later try.
MqRelease(t, s) ==
    IF release[s]
    THEN /\ dropq' = [dropq EXCEPT ![t] = s]
         /\ UNCHANGED globalQ
    ELSE /\ globalQ' = Append(globalQ, s)
         /\ UNCHANGED dropq

InitFailRelease(t) ==
    /\ Free(t)
    /\ lstep[t] = "mq_release"
    /\ MqRelease(t, launch[t])
    /\ LaunchDone(t)
    /\ UNCHANGED <<service, mq, queue, inGlobal, release, loop, op, del, history>>

-----------------------------------------------------------------------------
(***************************************************************************)
(* _drop_queue: pop what is left and report an error to each source, then  *)
(* free the queue.                                                         *)
(***************************************************************************)
\* Mutant: what is left is thrown away without a word to its sources.
DropMessageSilent(t) ==
    /\ CallsDone(t)
    /\ dropq[t] # None
    /\ mq[dropq[t]] # <<>>
    /\ mq' = [mq EXCEPT ![dropq[t]] = Tail(@)]
    /\ fate' = [fate EXCEPT ![Head(mq[dropq[t]]).id] =
                  IF Head(mq[dropq[t]]).err THEN @ ELSE "dropped"]
    /\ UNCHANGED <<service, queue, inGlobal, release, globalQ, loop, op, del,
                   dropq, launch, lstep, sent, seen>>

DropMessage(t) ==
    /\ CallsDone(t)
    /\ dropq[t] # None
    /\ mq[dropq[t]] # <<>>
    /\ LET s == dropq[t]
           m == Head(mq[s])
       IN /\ mq' = [mq EXCEPT ![s] = Tail(@)]
          /\ op' = IF m.src = None THEN op   \* destination 0: no report
                   ELSE [op EXCEPT ![t] =
                           [do |-> "grab", svc |-> m.src,
                            msg |-> [id |-> m.id, src |-> s, err |-> TRUE]]]
          /\ fate' = [fate EXCEPT ![m.id] =
                        IF m.err THEN @
                        ELSE IF m.src = None THEN "orphaned" ELSE "dropped"]
    /\ UNCHANGED <<service, queue, inGlobal, release, globalQ, loop, del, dropq,
                   launch, lstep, sent, seen>>

DropDone(t) ==
    /\ CallsDone(t)
    /\ dropq[t] # None
    /\ mq[dropq[t]] = <<>>
    /\ inGlobal' = [inGlobal EXCEPT ![dropq[t]] = FALSE]
    /\ queue' = [queue EXCEPT ![dropq[t]] = "freed"]
    /\ dropq' = [dropq EXCEPT ![t] = None]
    /\ UNCHANGED <<service, mq, release, globalQ, loop, op, del, launch, lstep,
                   history>>

-----------------------------------------------------------------------------
(***************************************************************************)
(* The dispatch loop: skynet_context_message_dispatch.                     *)
(***************************************************************************)
At(w, label) == Free(w) /\ pc[w] = label

Goto(w, label) == pc' = [pc EXCEPT ![w] = label]

\* Mutant: the head of the global queue is read but not taken off.
FetchPeek(w) ==
    /\ At(w, "fetch")
    /\ globalQ # <<>>
    /\ cur' = [cur EXCEPT ![w] = Head(globalQ)]
    /\ Goto(w, "grab")
    /\ UNCHANGED <<service, queues, nxt, ctx, left, calls, history>>

\* skynet_globalmq_pop, at the start or as the last statement of a batch.
Fetch(w) ==
    /\ At(w, "fetch")
    /\ globalQ # <<>>
    /\ cur' = [cur EXCEPT ![w] = Head(globalQ)]
    /\ globalQ' = Tail(globalQ)
    /\ Goto(w, "grab")
    /\ UNCHANGED <<service, mq, queue, inGlobal, release, nxt, ctx, left, calls,
                   history>>

GrabContext(w) ==
    /\ At(w, "grab")
    /\ slot[cur[w]]
    /\ Grab(cur[w])
    /\ ctx' = [ctx EXCEPT ![w] = cur[w]]
    /\ Goto(w, "first")
    /\ UNCHANGED <<slot, context, init, queues, cur, nxt, left, calls, history>>

\* No context behind the handle: skynet_mq_release, then pop the next queue.
GrabFails(w) ==
    /\ At(w, "grab")
    /\ ~slot[cur[w]]
    /\ Goto(w, "orphan")
    /\ UNCHANGED <<service, queues, cur, nxt, ctx, left, calls, history>>

ReleaseQueue(w) ==
    /\ At(w, "orphan")
    /\ MqRelease(w, cur[w])
    /\ cur' = [cur EXCEPT ![w] = None]
    /\ Goto(w, "fetch")
    /\ UNCHANGED <<service, mq, queue, inGlobal, release, nxt, ctx, left, op, del,
                   launch, lstep, history>>

\* skynet_mq_pop finds nothing: nobody is bound to look at the queue any more.
PopEmpty(w) ==
    /\ At(w, "first") \/ At(w, "again")
    /\ mq[cur[w]] = <<>>
    /\ inGlobal' = [inGlobal EXCEPT ![cur[w]] = FALSE]
    /\ cur' = [cur EXCEPT ![w] = None]
    /\ left' = [left EXCEPT ![w] = 0]
    /\ Goto(w, "put")
    /\ UNCHANGED <<service, mq, queue, release, globalQ, nxt, ctx, calls, history>>

\* Mutant: the newest message is taken first.
TakeNewest(w) ==
    LET s == cur[w]
        m == mq[s][Len(mq[s])]
    IN /\ mq[s] # <<>>
       /\ mq' = [mq EXCEPT ![s] = SubSeq(@, 1, Len(@) - 1)]
       /\ fate' = IF m.err THEN fate ELSE [fate EXCEPT ![m.id] = "handled"]
       /\ seen' = IF m.err \/ m.src = None THEN seen
                  ELSE [seen EXCEPT ![m.src][s] = m.id]

\* skynet_mq_pop hands over a message, and its handler is called.
Take(w) ==
    LET s == cur[w]
        m == Head(mq[s])
    IN /\ mq[s] # <<>>
       /\ mq' = [mq EXCEPT ![s] = Tail(@)]
       /\ fate' = IF m.err THEN fate ELSE [fate EXCEPT ![m.id] = "handled"]
       /\ seen' = IF m.err \/ m.src = None THEN seen
                  ELSE [seen EXCEPT ![m.src][s] = m.id]

PopFirst(w) ==
    /\ At(w, "first")
    /\ Take(w)
    /\ Goto(w, IF Weight[w] >= 0 THEN "weigh" ELSE "call")
    /\ UNCHANGED <<service, queue, inGlobal, release, globalQ, cur, nxt, ctx, left,
                   calls, sent>>

\* n = skynet_mq_length(q) >> weight: the batch is at least the one message
\* in hand.
Weigh(w) ==
    /\ At(w, "weigh")
    /\ LET n == Len(mq[cur[w]]) \div (2 ^ Weight[w])
       IN left' = [left EXCEPT ![w] = IF n > 1 THEN n - 1 ELSE 0]
    /\ Goto(w, "call")
    /\ UNCHANGED <<service, queues, cur, nxt, ctx, calls, history>>

PopAgain(w) ==
    /\ At(w, "again")
    /\ Take(w)
    /\ left' = [left EXCEPT ![w] = @ - 1]
    /\ Goto(w, "call")
    /\ UNCHANGED <<service, queue, inGlobal, release, globalQ, cur, nxt, ctx, calls,
                   sent>>

\* The handler returns.
Return(w) ==
    /\ At(w, "call")
    /\ launch[w] = None
    /\ Goto(w, IF left[w] > 0 THEN "again" ELSE "rotate")
    /\ UNCHANGED <<service, queues, cur, nxt, ctx, left, calls, history>>

\* At the end of a batch the queue goes to the back of the global queue if
\* another queue waits; else the worker keeps it.
Rotate(w) ==
    /\ At(w, "rotate")
    /\ IF globalQ = <<>>
       THEN Goto(w, "put") /\ UNCHANGED <<nxt, globalQ>>
       ELSE /\ nxt' = [nxt EXCEPT ![w] = Head(globalQ)]
            /\ globalQ' = Tail(globalQ)
            /\ Goto(w, "push_back")
    /\ UNCHANGED <<service, mq, queue, inGlobal, release, cur, ctx, left, calls,
                   history>>

PushBack(w) ==
    /\ At(w, "push_back")
    /\ globalQ' = Append(globalQ, cur[w])
    /\ cur' = [cur EXCEPT ![w] = nxt[w]]
    /\ nxt' = [nxt EXCEPT ![w] = None]
    /\ Goto(w, "put")
    /\ UNCHANGED <<service, mq, queue, inGlobal, release, ctx, left, calls, history>>

PutContext(w) ==
    /\ At(w, "put")
    /\ Put(w, ctx[w])
    /\ ctx' = [ctx EXCEPT ![w] = None]
    /\ Goto(w, IF cur[w] = None THEN "fetch" ELSE "grab")
    /\ UNCHANGED <<slot, context, init, queues, cur, nxt, left, op, dropq, launch,
                   lstep, history>>

-----------------------------------------------------------------------------
\* What a thread does on its own, once begun.
CallStep(t) == \/ SendRefused(t) \/ SendGrab(t) \/ SendPush(t) \/ OpPut(t)
               \/ Delete(t) \/ DropMessage(t) \/ DropDone(t)

LaunchStep(t) == \/ InitOk(t) \/ InitReady(t) \/ LaunchEnqueue(t)
                 \/ InitFail(t) \/ InitFailRetire(t) \/ InitFailRelease(t)

LoopStep(w) == \/ Fetch(w) \/ GrabContext(w) \/ GrabFails(w) \/ ReleaseQueue(w)
               \/ PopEmpty(w) \/ PopFirst(w) \/ Weigh(w) \/ PopAgain(w)
               \/ Return(w) \/ Rotate(w) \/ PushBack(w) \/ PutContext(w)

\* What service code and the other threads may choose to do.
Choice(t) == \E s \in Service : \/ BeginSend(t, s)
                                \/ Kill(t, s)
                                \/ BeginLaunch(t, s)

Next == \/ \E t \in Thread : CallStep(t) \/ Choice(t)
        \/ \E w \in Worker : LaunchStep(w) \/ LoopStep(w)

Spec == Init /\ [][Next]_vars

(***************************************************************************)
(* Fairness: the operating system runs every thread, every init function   *)
(* and every handler returns.  Nothing obliges service code to send, kill  *)
(* or launch, nor an init function to succeed rather than fail.            *)
(***************************************************************************)
Fairness == /\ \A t \in Thread : WF_vars(CallStep(t))
            /\ \A w \in Worker : WF_vars(LaunchStep(w)) /\ WF_vars(LoopStep(w))

FairSpec == Spec /\ Fairness

-----------------------------------------------------------------------------
(***************************************************************************)
(* Properties.                                                             *)
(***************************************************************************)
Labels == {"fetch", "grab", "orphan", "first", "weigh", "call", "again",
           "rotate", "push_back", "put"}
LaunchSteps == {"idle", "init", "ready", "enqueue", "retire", "mq_release"}
Fates == {"unsent", "sending", "refused", "queued", "handled", "dropped",
          "returned", "orphaned"}

TypeOK ==
    /\ slot \in [Service -> BOOLEAN]
    /\ ref \in [Service -> Nat]
    /\ context \in [Service -> {"none", "live", "freed"}]
    /\ init \in [Service -> BOOLEAN]
    /\ mq \in [Service -> Seq(Message)]
    /\ queue \in [Service -> {"none", "live", "freed"}]
    /\ inGlobal \in [Service -> BOOLEAN]
    /\ release \in [Service -> BOOLEAN]
    /\ globalQ \in Seq(Service)
    /\ pc \in [Worker -> Labels]
    /\ cur \in [Worker -> MaybeService]
    /\ nxt \in [Worker -> MaybeService]
    /\ ctx \in [Worker -> MaybeService]
    /\ left \in [Worker -> Nat]
    /\ op \in [Thread -> Call]
    /\ del \in [Thread -> MaybeService]
    /\ dropq \in [Thread -> MaybeService]
    /\ launch \in [Thread -> MaybeService]
    /\ lstep \in [Thread -> LaunchSteps]
    /\ sent \in 0 .. MaxMsg
    /\ fate \in [1 .. MaxMsg -> Fates]
    /\ seen \in [Service -> [Service -> Nat]]

\* The references to the context of s that the code believes it holds.
LoopRefs(s) == {w \in Worker : ctx[w] = s}
OpRefs(s) == {t \in Thread : op[t].do \in {"push", "put"} /\ op[t].svc = s}
LaunchRefs(s) == {t \in Thread : launch[t] = s /\ lstep[t] = "init"}

\* The reference count is the number of holders, so that the context is
\* deleted exactly when the last of them is done with it.
RefCountExact ==
    \A s \in Service :
        ref[s] = (IF slot[s] THEN 1 ELSE 0) + Cardinality(LoopRefs(s))
                 + Cardinality(OpRefs(s)) + Cardinality(LaunchRefs(s))

\* The context and the queue that a thread is about to use are allocated: a
\* kill by one worker never frees a service under another that sends to it
\* or runs its handler.
NoUseAfterFree ==
    /\ \A w \in Worker :
         /\ ctx[w] # None => context[ctx[w]] = "live" /\ queue[ctx[w]] = "live"
         /\ cur[w] # None => queue[cur[w]] = "live"
    /\ \A t \in Thread :
         /\ op[t].do \in {"push", "put"} =>
              context[op[t].svc] = "live" /\ queue[op[t].svc] = "live"
         /\ del[t] # None => context[del[t]] = "live" /\ queue[del[t]] = "live"
         /\ dropq[t] # None => queue[dropq[t]] = "live"
    /\ \A i \in 1 .. Len(globalQ) : queue[globalQ[i]] = "live"

\* The threads that have the queue of s in hand, each with the way it does.
Hands(s) == {h \in Thread \X {"cur", "nxt", "drop", "launch"} :
                \/ h[2] = "cur" /\ h[1] \in Worker /\ cur[h[1]] = s
                \/ h[2] = "nxt" /\ h[1] \in Worker /\ nxt[h[1]] = s
                \/ h[2] = "drop" /\ dropq[h[1]] = s
                \/ h[2] = "launch" /\ launch[h[1]] = s}
Waits(s) == {i \in 1 .. Len(globalQ) : globalQ[i] = s}

\* A queue is in the global queue at most once, or in the hands of at most
\* one thread: the assertion "queue->next == NULL" of skynet_globalmq_push
\* and the one that keeps two workers out of one service.
OnePlace == \A s \in Service : Cardinality(Hands(s)) + Cardinality(Waits(s)) <= 1

\* A queue that holds messages, or that must be freed, is on somebody's way:
\* no race of push, pop and release leaves it where no worker looks.
NothingForgotten ==
    \A s \in Service :
        queue[s] = "live" /\ (mq[s] # <<>> \/ release[s]) =>
            Cardinality(Hands(s)) + Cardinality(Waits(s)) = 1

\* assert(ctx->init) in dispatch_message: no message is dispatched to a
\* service whose init function has not returned.
InitBeforeDispatch ==
    \A w \in Worker : pc[w] = "call" => init[ctx[w]]

\* Messages of one service to another are handled in the order in which they
\* were sent, although each may be handled by a different worker.
InOrder == [][\A s, d \in Service : seen'[s][d] >= seen[s][d]]_vars

\* Every message is handled, refused at once, or answered by an error report
\* to its sender unless the sender is gone as well (drop_message).
Answered ==
    \A i \in 1 .. MaxMsg :
        fate[i] \notin {"unsent"} ~>
            fate[i] \in {"refused", "handled", "returned", "orphaned"}

\* A service that has been killed is eventually deleted with its queue.
Reclaimed ==
    \A s \in Service : (queue[s] = "live" /\ ~slot[s]) ~> queue[s] = "freed"

\* Services are actors.
Busy(s) == \E w \in Worker : cur[w] = s /\ pc[w] \in {"weigh", "call"}
Status(s) == IF queue[s] = "none" THEN "absent"
             ELSE IF slot[s] THEN "running"
             ELSE IF queue[s] = "freed" \/ \E t \in Thread : dropq[t] = s
                  THEN "drained"
             ELSE "stopped"
Actors == INSTANCE Actor
            WITH mailbox <- mq,
                 busy <- [s \in Service |-> Busy(s)],
                 status <- [s \in Service |-> Status(s)]
ActorSpec == Actors!ActorSpec
=============================================================================
