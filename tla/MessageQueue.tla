---------------------------- MODULE MessageQueue ----------------------------
(***************************************************************************)
(* The message queue of one service, skynet-src/skynet_mq.c: a ring buffer *)
(* that doubles when it is full, the in_global flag that says whether the  *)
(* queue is in the global queue or being dispatched, and the overload      *)
(* warning.  Every operation runs under the queue's spin lock and is one   *)
(* action here.  Which thread holds the queue, the global queue and the    *)
(* release of the queue are the subject of module Dispatch.                *)
(***************************************************************************)
EXTENDS Integers

CONSTANTS Msg,                  \* the messages
          None,                 \* "no message": an empty pop
          Garbage,              \* a ring cell that was never written
          DefaultQueueSize,     \* DEFAULT_QUEUE_SIZE, 64 in the code
          MQOverload            \* MQ_OVERLOAD, 1024 in the code

\* expand_queue runs when head meets tail again, so one cell is enough.
ASSUME QueueAssumption ==
    /\ DefaultQueueSize \in Nat \ {0}
    /\ MQOverload \in Nat \ {0}
    /\ None \notin Msg
    /\ Garbage \notin Msg

VARIABLES queue,              \* the ring: a function on 0 .. cap-1
          cap, head, tail,
          inGlobal,           \* in_global = MQ_IN_GLOBAL
          overload,           \* length to be reported, 0 for none
          overloadThreshold,
          message,            \* the out parameter of the last pop
          warned              \* the last length mq_overload reported since the
                              \* queue was last found empty, 0 for none

ring == <<queue, cap, head, tail>>
vars == <<queue, cap, head, tail, inGlobal, overload, overloadThreshold,
          message, warned>>

Init == /\ queue = [i \in 0 .. DefaultQueueSize - 1 |-> Garbage]
        /\ cap = DefaultQueueSize
        /\ head = 0
        /\ tail = 0
        /\ inGlobal = TRUE      \* skynet_mq_create: not yet to be pushed
        /\ overload = 0
        /\ overloadThreshold = MQOverload
        /\ message = None
        /\ warned = 0

\* skynet_mq_length.
Length == IF head <= tail THEN tail - head ELSE tail + cap - head

\* An index at most one lap past the end, brought back into the ring: what
\* "% cap" and the tests for ">= cap" do to such an index.
Wrap(i) == IF i >= cap THEN i - cap ELSE i

\* The messages waiting, oldest first.
Waiting == [i \in 1 .. Length |-> queue[Wrap(head + i - 1)]]

-----------------------------------------------------------------------------
(***************************************************************************)
(* skynet_mq_push.  The message is written at tail; when that makes head   *)
(* and tail meet, the ring is full and expand_queue copies the lap that    *)
(* starts at head to the front of a ring of twice the size.                *)
(***************************************************************************)
Written(m) == [queue EXCEPT ![tail] = m]

\* Mutant: the copy starts at cell 0 instead of at head.
ExpandUnrotated(q) == /\ queue' = [i \in 0 .. 2 * cap - 1 |->
                                     IF i < cap THEN q[i] ELSE Garbage]
                      /\ head' = 0
                      /\ tail' = cap
                      /\ cap' = 2 * cap

Expand(q) == /\ queue' = [i \in 0 .. 2 * cap - 1 |->
                            IF i < cap THEN q[Wrap(head + i)] ELSE Garbage]
             /\ head' = 0
             /\ tail' = cap
             /\ cap' = 2 * cap

\* Mutant: a push that thinks only a backlog needs a worker.
ScheduleBacklog == inGlobal' = (inGlobal \/ head # tail)

\* in_global 0 becomes 1, and the queue goes to the global queue.
Schedule == inGlobal' = TRUE

Push(m) ==
    /\ \/ /\ Wrap(tail + 1) # head
          /\ queue' = Written(m)
          /\ tail' = Wrap(tail + 1)
          /\ UNCHANGED <<head, cap>>
       \/ /\ Wrap(tail + 1) = head
          /\ Expand(Written(m))
    /\ Schedule
    /\ UNCHANGED <<overload, overloadThreshold, message, warned>>

(***************************************************************************)
(* skynet_mq_pop.  Only the worker that took the queue from the global     *)
(* queue pops (module Dispatch), hence the guard on in_global.             *)
(***************************************************************************)

\* The threshold after "while (length > threshold) threshold *= 2".
Doubled(t, len) ==
    IF len <= t THEN t
    ELSE CHOOSE u \in {t * 2^k : k \in 1 .. len} : u >= len /\ u < 2 * len

ResetThreshold == overloadThreshold' = MQOverload

\* The warning raised when len messages are left.
Overload(len) ==
    /\ overload' = IF len > overloadThreshold THEN len ELSE overload
    /\ overloadThreshold' = Doubled(overloadThreshold, len)

PopMessage ==
    /\ inGlobal
    /\ head # tail
    /\ overload = 0             \* the dispatcher has read the last warning
    /\ message' = queue[head]
    /\ head' = Wrap(head + 1)
    /\ LET left == Length - 1 IN Overload(left)
    /\ UNCHANGED <<queue, cap, tail, inGlobal, warned>>

PopEmpty ==
    /\ inGlobal
    /\ head = tail
    /\ overload = 0
    /\ message' = None
    /\ inGlobal' = FALSE
    /\ ResetThreshold
    /\ warned' = 0
    /\ UNCHANGED <<queue, cap, head, tail, overload>>

\* skynet_mq_overload: called by the dispatcher after each successful pop.
ReadOverload ==
    /\ overload # 0
    /\ warned' = overload
    /\ overload' = 0
    /\ UNCHANGED <<queue, cap, head, tail, inGlobal, overloadThreshold, message>>

Next == \/ \E m \in Msg : Push(m)
        \/ PopMessage
        \/ PopEmpty
        \/ ReadOverload

Spec == Init /\ [][Next]_vars

-----------------------------------------------------------------------------
(***************************************************************************)
(* Properties.                                                             *)
(***************************************************************************)

\* Type invariant.  The indexes stay inside the ring, so that "head = tail"
\* means empty and never full, and every waiting cell holds a message.
RingOK == /\ cap \in Nat \ {0}
          /\ head \in 0 .. cap - 1
          /\ tail \in 0 .. cap - 1
          /\ queue \in [0 .. cap - 1 -> Msg \cup {Garbage}]
          /\ \A i \in 0 .. Length - 1 : queue[Wrap(head + i)] \in Msg
          /\ inGlobal \in BOOLEAN
          /\ message \in Msg \cup {None}

\* A queue that no worker is bound to visit holds no message: otherwise the
\* message waits until the next one arrives, and for ever if none does
\* (mq_push and mq_pop agree on in_global).
NoStrandedMessage == ~inGlobal => head = tail

\* The ring buffer, with its wrap and its expansion, is a first-in first-out
\* queue: no message is lost, duplicated or overtaken by another.
Fifo == INSTANCE MessageFifo
          WITH items <- Waiting, scheduled <- inGlobal, got <- message
FifoSpec == Fifo!FifoSpec

\* "May overload" is reported again only for a backlog longer than the one
\* reported before, unless the queue was found empty in between: a service
\* that is behind does not flood the log (the doubling loop of mq_pop).
WarningsGrow == [][warned' \notin {0, warned} => warned' > warned]_vars

\* A backlog never grows past MQ_OVERLOAD, and then never to twice the
\* length last reported, without a report: stated of every pop, since pop
\* is where the length is looked at.
NoSilentDoubling ==
    [][PopMessage =>
         \/ overload' # 0
         \/ Length' <= MQOverload
         \/ Length' < 2 * warned]_vars
=============================================================================
