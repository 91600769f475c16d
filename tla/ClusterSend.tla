------------------------------- MODULE ClusterSend -------------------------------
\* lualib/skynet/cluster.lua: cluster.call and cluster.send of the coroutines of a
\* service to one node.  While clusterd looks for the sender they queue, and a
\* coroutine of its own, request_sender, lets them go in their order.
EXTENDS Integers, Sequences, FiniteSets, SequencesExt

CONSTANTS
    User,       \* coroutines of the service
    MaxOps,     \* bound on the calls and sends
    Asker, None \* request_sender, nobody

ClusterSendAssumption == Asker \notin User /\ None \notin User /\ MaxOps \in Nat

VARIABLES
    sender,         \* sender[node]
    task_queue,     \* task_queue[node]: sends, and coroutines that call
    queued, q_sender, \* it exists, and what q.sender is
    pc, op,         \* where a coroutine is, the number of its call
    wake,           \* coroutines that run next; Asker is also the one forked
    wire,           \* what the sender service has been sent
    failed,         \* calls that raised an error, sends that were dropped
    ops             \* calls and sends so far, numbered in their order

queue == <<sender, task_queue, queued, q_sender>>
vars == <<queue, pc, op, wire, wake, failed, ops>>

Init ==
    /\ sender = FALSE /\ task_queue = <<>> /\ queued = FALSE /\ q_sender = FALSE
    /\ pc = [t \in User \cup {Asker} |-> "idle"] /\ op = [t \in User |-> 0]
    /\ wake = <<>> /\ wire = <<>> /\ failed = {} /\ ops = 0

Quiet == wake = <<>>
Runs(t, p) == wake # <<>> /\ Head(wake) = t /\ pc[t] = p
Send(n) == wire' = Append(wire, n)
Task(t, n) == [who |-> t, n |-> n]

\* cluster.call and cluster.send: at once when the sender is known, or into the
\* queue, with which request_sender is forked.
Enqueue(t) ==
    /\ task_queue' = Append(task_queue, Task(t, ops'))
    /\ queued' = TRUE
    /\ IF queued THEN UNCHANGED <<wake, q_sender>> /\ pc' = [pc EXCEPT ![t] = IF t \in User THEN "wait" ELSE @]
       ELSE /\ wake' = <<Asker>> /\ q_sender' = FALSE
            /\ pc' = [u \in DOMAIN pc |-> IF u = Asker THEN "ask" ELSE IF u = t THEN "wait" ELSE pc[u]]
CallNode(t) ==
    /\ Quiet /\ pc[t] = "idle" /\ ops < MaxOps /\ ops' = ops + 1
    /\ op' = [op EXCEPT ![t] = ops']
    /\ IF sender THEN Send(ops') /\ pc' = [pc EXCEPT ![t] = "call"]
                      /\ UNCHANGED <<task_queue, queued, q_sender, wake>>
       ELSE Enqueue(t) /\ UNCHANGED wire
    /\ UNCHANGED <<sender, failed>>
SendNode ==
    /\ Quiet /\ ops < MaxOps /\ ops' = ops + 1
    /\ IF sender THEN Send(ops') /\ UNCHANGED <<task_queue, queued, q_sender, wake, pc>>
       ELSE Enqueue(None) /\ UNCHANGED wire
    /\ UNCHANGED <<sender, op, failed>>

\* request_sender calls clusterd, whose answer comes as a message.
Ask ==
    /\ Runs(Asker, "ask") /\ pc' = [pc EXCEPT ![Asker] = "asking"] /\ wake' = Tail(wake)
    /\ UNCHANGED <<queue, op, wire, failed, ops>>
Sender(c) ==
    /\ Quiet /\ pc[Asker] = "asking"
    /\ q_sender' = c
    /\ pc' = [pc EXCEPT ![Asker] = "run"] /\ wake' = <<Asker>>
    /\ UNCHANGED <<sender, task_queue, queued, op, wire, failed, ops>>

\* Mutant: the coroutine that is let go is not waited for.
RunTaskOn ==
    /\ Runs(Asker, "run") /\ task_queue # <<>>
    /\ LET task == Head(task_queue)
       IN IF task.who = None
          THEN /\ IF q_sender THEN Send(task.n) /\ UNCHANGED failed
                  ELSE failed' = failed \cup {task.n} /\ UNCHANGED wire
               /\ UNCHANGED wake
          ELSE wake' = Append(wake, task.who) /\ UNCHANGED <<wire, failed>>
    /\ task_queue' = Tail(task_queue)
    /\ UNCHANGED <<sender, queued, q_sender, pc, op, ops>>

\* A send goes out here, a coroutine is woken and waited for.
RunTask ==
    /\ Runs(Asker, "run") /\ task_queue # <<>>
    /\ LET task == Head(task_queue)
       IN IF task.who = None
          THEN /\ IF q_sender THEN Send(task.n) /\ UNCHANGED failed
                  ELSE failed' = failed \cup {task.n} /\ UNCHANGED wire
               /\ UNCHANGED <<wake, pc>>
          ELSE /\ wake' = Append(Tail(wake), task.who)
               /\ pc' = [pc EXCEPT ![Asker] = "confirm"]
               /\ UNCHANGED <<wire, failed>>
    /\ task_queue' = Tail(task_queue)
    /\ UNCHANGED <<sender, queued, q_sender, op, ops>>
RunDone ==
    /\ Runs(Asker, "run") /\ task_queue = <<>>
    /\ queued' = FALSE /\ sender' = q_sender
    /\ pc' = [pc EXCEPT ![Asker] = "idle"] /\ wake' = Tail(wake)
    /\ UNCHANGED <<task_queue, q_sender, op, wire, failed, ops>>
Confirmed ==
    /\ Runs(Asker, "confirm") /\ pc' = [pc EXCEPT ![Asker] = "run"]
    /\ UNCHANGED <<queue, op, wire, wake, failed, ops>>

\* get_sender goes on: it confirms, and the call is made before anyone else runs.
GoOn(t) ==
    /\ Runs(t, "wait") /\ wake' = Append(Tail(wake), Asker)
    /\ IF q_sender THEN Send(op[t]) /\ pc' = [pc EXCEPT ![t] = "call"] /\ UNCHANGED failed
       ELSE failed' = failed \cup {op[t]} /\ pc' = [pc EXCEPT ![t] = "idle"] /\ UNCHANGED wire
    /\ UNCHANGED <<queue, op, ops>>
Return(t) ==
    /\ Quiet /\ pc[t] = "call" /\ pc' = [pc EXCEPT ![t] = "idle"]
    /\ UNCHANGED <<queue, op, wire, wake, failed, ops>>

AskerStep == Ask \/ RunTask \/ RunDone \/ Confirmed
Next ==
    \/ \E t \in User : CallNode(t) \/ GoOn(t) \/ Return(t)
    \/ SendNode \/ AskerStep \/ \E c \in BOOLEAN : Sender(c)
Spec == Init /\ [][Next]_vars
------------------------------------------------------------------------------
\* Properties.

\* The sender gets calls and sends in the order in which they were made.
InOrder == \A i, j \in DOMAIN wire : i < j => wire[i] < wire[j]

\* Every one goes out, or fails; none is both, and none is left behind.
NoneLost ==
    /\ ToSet(wire) \cap failed = {}
    /\ Quiet /\ ~queued => ToSet(wire) \cup failed = 1 .. ops

\* Every call ends, and a queue does not stay for ever.
CallsEnd ==
    /\ \A t \in User : pc[t] # "idle" ~> pc[t] = "idle"
    /\ queued ~> ~queued
==============================================================================
