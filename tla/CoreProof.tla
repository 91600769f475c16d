----------------------------- MODULE CoreProof -----------------------------
(***************************************************************************)
(* Proofs about the components of the C core: the message queue is well    *)
(* formed and implements a first-in first-out queue, the watch reports a   *)
(* handler that loops, and a socket's close is reported once.              *)
(***************************************************************************)
EXTENDS MCCore, SequenceTheorems, TLAPS

(***************************************************************************)
(* The queue (MessageQueue): the ring is well formed, no message is        *)
(* stranded in an unscheduled queue, and the ring buffer implements the    *)
(* first-in first-out queue of MessageFifo, for every initial capacity and *)
(* every set of messages.                                                  *)
(***************************************************************************)

\* The ring part of a step: what the three actions do to it.
LEMMA InitRing == Init => RingOK
  BY QueueAssumption DEF Init, RingOK, Length, Wrap

\* A push keeps the ring well formed, with room left or by expansion.
LEMMA PushRing ==
  ASSUME RingOK, NEW m \in Msg, Push(m)
  PROVE  RingOK'
<1>1. CASE Wrap(tail + 1) # head
  <2>1. /\ queue' = [queue EXCEPT ![tail] = m]
        /\ tail' = Wrap(tail + 1)
        /\ head' = head /\ cap' = cap
    BY <1>1 DEF Push, Written
  <2>2. Length' = Length + 1
    BY <1>1, <2>1 DEF RingOK, Length, Wrap
  <2>3. Wrap(head + Length) = tail
    BY DEF RingOK, Length, Wrap
  <2>4. ASSUME NEW i \in 0 .. Length' - 1
        PROVE  queue'[Wrap(head' + i)] \in Msg
    <3>1. CASE i = Length
      BY <3>1, <2>1, <2>3 DEF RingOK, Length, Wrap
    <3>2. CASE i # Length
      <4>1. i \in 0 .. Length - 1
        BY <3>2, <2>2 DEF RingOK, Length
      <4>2. Wrap(head + i) \in 0 .. cap - 1 /\ Wrap(head + i) # tail
        BY <4>1 DEF RingOK, Length, Wrap
      <4> QED
        BY <4>1, <4>2, <2>1 DEF RingOK, Wrap
    <3> QED BY <3>1, <3>2
  <2> QED
    BY <2>1, <2>4 DEF RingOK, Wrap, Push, Schedule
<1>2. CASE Wrap(tail + 1) = head
  <2> DEFINE q == [queue EXCEPT ![tail] = m]
  <2>1. /\ queue' = [i \in 0 .. 2 * cap - 1 |->
                       IF i < cap THEN q[Wrap(head + i)] ELSE Garbage]
        /\ head' = 0 /\ tail' = cap /\ cap' = 2 * cap
    BY <1>2 DEF Push, Expand, Written
  <2>2. Length = cap - 1
    BY <1>2 DEF RingOK, Length, Wrap
  <2>3. ASSUME NEW i \in 0 .. cap - 1
        PROVE  q[Wrap(head + i)] \in Msg
    <3>1. Wrap(head + i) \in 0 .. cap - 1
      BY DEF RingOK, Wrap
    <3>2. CASE i = cap - 1
      BY <3>1, <3>2, <1>2 DEF RingOK, Wrap
    <3>3. CASE i # cap - 1
      <4>1. i \in 0 .. Length - 1
        BY <3>3, <2>2 DEF RingOK
      <4> QED
        BY <3>1, <4>1 DEF RingOK
    <3> QED BY <3>2, <3>3
  <2> HIDE DEF q
  <2>4. queue' \in [0 .. cap' - 1 -> Msg \cup {Garbage}]
    <3>1. cap \in Nat \ {0}
      BY DEF RingOK
    <3>2. cap' - 1 = 2 * cap - 1
      BY <2>1
    <3>3. \A i \in 0 .. 2 * cap - 1 :
            (IF i < cap THEN q[Wrap(head + i)] ELSE Garbage) \in Msg \cup {Garbage}
      BY <2>3, <3>1
    <3> QED
      BY <2>1, <3>2, <3>3
  <2>5. Length' = cap
    BY <2>1 DEF RingOK, Length
  <2>6. ASSUME NEW i \in 0 .. Length' - 1
        PROVE  queue'[(Wrap(head + i))'] \in Msg
    <3>1. i \in 0 .. cap - 1 /\ (Wrap(head + i))' = i
      BY <2>1, <2>5 DEF RingOK, Wrap
    <3>2. queue'[i] = q[Wrap(head + i)]
      BY <3>1, <2>1 DEF RingOK
    <3> QED
      BY <3>1, <3>2, <2>3
  <2>7. cap' \in Nat \ {0} /\ head' \in 0 .. cap' - 1 /\ tail' \in 0 .. cap' - 1
    BY <2>1 DEF RingOK
  <2> QED
    BY <2>4, <2>6, <2>7 DEF RingOK, Push, Schedule
<1> QED BY <1>1, <1>2

\* A successful pop moves head past a message and leaves the others alone.
LEMMA PopRing ==
  ASSUME RingOK, PopMessage
  PROVE  /\ RingOK'
         /\ Length' = Length - 1
         /\ \A i \in 0 .. Length' - 1 : (Wrap(head + i))' = Wrap(head + (i + 1))
<1>1. /\ queue' = queue /\ cap' = cap /\ tail' = tail
      /\ head' = Wrap(head + 1) /\ head # tail /\ message' = queue[head]
      /\ inGlobal' = inGlobal
  BY DEF PopMessage
<1>2. Length' = Length - 1 /\ Length \in Nat
  BY <1>1 DEF RingOK, Length, Wrap
<1>3. \A i \in 0 .. Length' - 1 : (Wrap(head + i))' = Wrap(head + (i + 1))
  BY <1>1, <1>2 DEF RingOK, Length, Wrap
<1>4. 0 \in 0 .. Length - 1 /\ Wrap(head + 0) = head
  BY <1>1 DEF RingOK, Length, Wrap
<1>5. message' \in Msg
  BY <1>1, <1>4 DEF RingOK
<1>6. \A i \in 0 .. Length' - 1 : queue'[(Wrap(head + i))'] \in Msg
  <2> SUFFICES ASSUME NEW i \in 0 .. Length' - 1
               PROVE  queue'[(Wrap(head + i))'] \in Msg
    OBVIOUS
  <2>1. i + 1 \in 0 .. Length - 1
    BY <1>2
  <2>2. queue[Wrap(head + (i + 1))] \in Msg
    BY <2>1 DEF RingOK
  <2> QED
    BY <1>1, <1>3, <2>2
<1> QED
  BY <1>1, <1>2, <1>3, <1>5, <1>6 DEF RingOK, Wrap

\* The inductive step of the ring invariant.
LEMMA RingStep == RingOK /\ [Next]_vars => RingOK'
<1> SUFFICES ASSUME RingOK, [Next]_vars PROVE RingOK'
  OBVIOUS
<1>1. ASSUME NEW m \in Msg, Push(m) PROVE RingOK'
  BY <1>1, PushRing
<1>2. CASE PopMessage
  BY <1>2, PopRing
<1>3. CASE PopEmpty
  BY <1>3 DEF PopEmpty, RingOK, Length, Wrap
<1>4. CASE ReadOverload
  BY <1>4 DEF ReadOverload, RingOK, Length, Wrap
<1>5. CASE UNCHANGED vars
  BY <1>5 DEF vars, RingOK, Length, Wrap
<1> QED
  BY <1>1, <1>2, <1>3, <1>4, <1>5 DEF Next

\* The indexes of the ring of skynet_mq.c stay in bounds and every cell
\* between head and tail holds a message, whatever the initial capacity.
THEOREM RingCorrect == Spec => []RingOK
  BY InitRing, RingStep, PTL DEF Spec

\* No message waits in a queue that no worker is bound to visit: mq_push and
\* mq_pop agree on in_global under every interleaving of their calls.
THEOREM NothingStranded == Spec => []NoStrandedMessage
<1>1. Init => NoStrandedMessage
  BY DEF Init, NoStrandedMessage
<1>2. NoStrandedMessage /\ [Next]_vars => NoStrandedMessage'
  BY DEF NoStrandedMessage, Next, Push, Schedule, PopMessage, PopEmpty,
         ReadOverload, vars
<1> QED
  BY <1>1, <1>2, PTL DEF Spec

-----------------------------------------------------------------------------
(***************************************************************************)
(* The refinement: each action of the ring buffer maps to one of the       *)
(* first-in first-out queue, or to a stutter (ReadOverload).               *)
(***************************************************************************)

WaitingOK == /\ Length \in Nat
             /\ Waiting \in Seq(Msg)
             /\ Len(Waiting) = Length
             /\ \A i \in 1 .. Length : Waiting[i] = queue[Wrap(head + i - 1)]

\* The refinement mapping is a sequence of messages.
LEMMA WaitingSeq == RingOK => WaitingOK
<1> SUFFICES ASSUME RingOK PROVE WaitingOK
  OBVIOUS
<1>1. Length \in Nat
  BY DEF RingOK, Length
<1>2. \A i \in 1 .. Length : queue[Wrap(head + i - 1)] \in Msg
  <2> SUFFICES ASSUME NEW i \in 1 .. Length
               PROVE  queue[Wrap(head + i - 1)] \in Msg
    OBVIOUS
  <2>1. i - 1 \in 0 .. Length - 1 /\ head + i - 1 = head + (i - 1)
    BY <1>1 DEF RingOK
  <2> QED
    BY <2>1 DEF RingOK
<1>3. Waiting \in [1 .. Length -> Msg]
  BY <1>2 DEF Waiting
<1> QED
  BY <1>1, <1>3, SeqDef DEF Waiting, WaitingOK

\* The same of the state after a step.
LEMMA WaitingSeqNext == RingOK' => WaitingOK'
  BY WaitingSeq, PTL

\* A push writes the cell after the waiting ones and keeps these, in order,
\* whether or not it expands the ring.
LEMMA PushCells ==
  ASSUME RingOK, NEW m \in Msg, Push(m)
  PROVE  /\ Length' = Length + 1
         /\ queue'[(Wrap(head + Length - 1))'] = m
         /\ \A i \in 1 .. Length :
              queue'[(Wrap(head + i - 1))'] = queue[Wrap(head + i - 1)]
<1>1. CASE Wrap(tail + 1) # head
  <2>1. /\ queue' = [queue EXCEPT ![tail] = m]
        /\ tail' = Wrap(tail + 1)
        /\ head' = head /\ cap' = cap
    BY <1>1 DEF Push, Written
  <2>2. Length' = Length + 1
    BY <1>1, <2>1 DEF RingOK, Length, Wrap
  <2>3. (Wrap(head + Length - 1))' = tail
    BY <2>1, <1>1 DEF RingOK, Length, Wrap
  <2>4. ASSUME NEW i \in 1 .. Length
        PROVE  queue'[(Wrap(head + i - 1))'] = queue[Wrap(head + i - 1)]
    <3>1. /\ Wrap(head + i - 1) \in 0 .. cap - 1
          /\ Wrap(head + i - 1) # tail
          /\ (Wrap(head + i - 1))' = Wrap(head + i - 1)
      BY <2>1 DEF RingOK, Length, Wrap
    <3> QED
      BY <2>1, <3>1 DEF RingOK
  <2> QED
    BY <2>1, <2>2, <2>3, <2>4 DEF RingOK
<1>2. CASE Wrap(tail + 1) = head
  <2> DEFINE q == [queue EXCEPT ![tail] = m]
  <2>1. /\ queue' = [i \in 0 .. 2 * cap - 1 |->
                       IF i < cap THEN q[Wrap(head + i)] ELSE Garbage]
        /\ head' = 0 /\ tail' = cap /\ cap' = 2 * cap
    BY <1>2 DEF Push, Expand, Written
  <2>2. /\ cap \in Nat \ {0}
        /\ Length = cap - 1 /\ Length' = cap
        /\ Wrap(head + (cap - 1)) = tail
    BY <1>2, <2>1 DEF RingOK, Length, Wrap
  <2>3. q[tail] = m /\ \A j \in 0 .. cap - 1 : j # tail => q[j] = queue[j]
    BY DEF RingOK
  <2> HIDE DEF q
  <2>4. \A j \in 0 .. cap - 1 : queue'[j] = q[Wrap(head + j)]
    BY <2>1, <2>2
  <2>5. (Wrap(head + Length - 1))' = cap - 1
    BY <2>1, <2>2 DEF Wrap
  <2>6. queue'[cap - 1] = m
    BY <2>2, <2>3, <2>4
  <2>7. ASSUME NEW i \in 1 .. Length
        PROVE  queue'[(Wrap(head + i - 1))'] = queue[Wrap(head + i - 1)]
    <3>1. (Wrap(head + i - 1))' = i - 1 /\ i - 1 \in 0 .. cap - 1
      BY <2>1, <2>2 DEF Wrap
    <3>2. /\ Wrap(head + (i - 1)) = Wrap(head + i - 1)
          /\ Wrap(head + i - 1) \in 0 .. cap - 1
          /\ Wrap(head + i - 1) # tail
      BY <1>2, <2>2 DEF RingOK, Wrap
    <3> QED
      BY <2>3, <2>4, <3>1, <3>2
  <2> QED
    BY <2>2, <2>5, <2>6, <2>7
<1> QED BY <1>1, <1>2

LEMMA PushPuts ==
  ASSUME RingOK, RingOK', NEW m \in Msg, Push(m)
  PROVE  Fifo!Put(m)
<1>1. Waiting \in Seq(Msg) /\ Len(Waiting) = Length /\ Length \in Nat
      /\ \A i \in 1 .. Length : Waiting[i] = queue[Wrap(head + i - 1)]
  BY WaitingSeq DEF WaitingOK
<1>2. Waiting' \in Seq(Msg) /\ Len(Waiting') = Length'
      /\ \A i \in 1 .. Length' : Waiting'[i] = queue'[(Wrap(head + i - 1))']
  BY WaitingSeqNext DEF WaitingOK
<1>3. /\ Length' = Length + 1
      /\ queue'[(Wrap(head + Length - 1))'] = m
      /\ \A i \in 1 .. Length :
           queue'[(Wrap(head + i - 1))'] = queue[Wrap(head + i - 1)]
  BY PushCells
<1>4. Append(Waiting, m) \in Seq(Msg) /\ Len(Append(Waiting, m)) = Length + 1
      /\ \A i \in 1 .. Length + 1 :
           Append(Waiting, m)[i] = IF i <= Length THEN Waiting[i] ELSE m
  BY <1>1, AppendProperties
<1>5. \A i \in 1 .. Len(Waiting') : Waiting'[i] = Append(Waiting, m)[i]
  <2> SUFFICES ASSUME NEW i \in 1 .. Length + 1
               PROVE  Waiting'[i] = Append(Waiting, m)[i]
    BY <1>2, <1>3
  <2>1. CASE i \in 1 .. Length
    <3>1. Waiting'[i] = queue'[(Wrap(head + i - 1))']
      BY <1>1, <1>2, <1>3, <2>1
    <3>2. Append(Waiting, m)[i] = Waiting[i]
      BY <1>1, <1>4, <2>1
    <3> QED
      BY <1>1, <1>3, <2>1, <3>1, <3>2
  <2>2. CASE i = Length + 1
    <3>1. i = Length'
      BY <2>2, <1>3
    <3>2. (Wrap(head + i - 1))' = (Wrap(head + Length - 1))'
      BY <3>1 DEF Wrap
    <3> QED
      BY <1>1, <1>2, <1>3, <1>4, <2>2, <3>2
  <2> QED BY <2>1, <2>2, <1>1
<1>6. Waiting' = Append(Waiting, m)
  BY <1>2, <1>3, <1>4, <1>5, SeqEqual
<1> QED
  BY <1>6 DEF Fifo!Put, Push, Schedule

LEMMA PopTakes ==
  ASSUME RingOK, RingOK', PopMessage
  PROVE  Fifo!Take
<1>1. Waiting \in Seq(Msg) /\ Len(Waiting) = Length /\ Length \in Nat
      /\ \A i \in 1 .. Length : Waiting[i] = queue[Wrap(head + i - 1)]
  BY WaitingSeq DEF WaitingOK
<1>2. Waiting' \in Seq(Msg) /\ Len(Waiting') = Length'
      /\ \A i \in 1 .. Length' : Waiting'[i] = queue'[(Wrap(head + i - 1))']
  BY WaitingSeqNext DEF WaitingOK
<1>3. /\ Length' = Length - 1
      /\ \A i \in 0 .. Length' - 1 : (Wrap(head + i))' = Wrap(head + (i + 1))
  BY PopRing
<1>4. Length > 0 /\ Waiting # <<>>
  BY <1>1, EmptySeq DEF PopMessage, RingOK, Length
<1>5. Waiting[1] = queue[head]
  BY <1>1, <1>4 DEF RingOK, Wrap
<1>6. /\ Head(Waiting) = Waiting[1]
      /\ Tail(Waiting) \in Seq(Msg) /\ Len(Tail(Waiting)) = Length - 1
      /\ \A i \in 1 .. Length - 1 : Tail(Waiting)[i] = Waiting[i + 1]
  BY <1>1, <1>4, HeadTailProperties
<1>7. \A i \in 1 .. Len(Waiting') : Waiting'[i] = Tail(Waiting)[i]
  <2> SUFFICES ASSUME NEW i \in 1 .. Length - 1
               PROVE  Waiting'[i] = Tail(Waiting)[i]
    BY <1>2, <1>3
  <2>1. (Wrap(head + i - 1))' = Wrap(head + (i + 1) - 1)
    <3>1. head' = Wrap(head + 1) /\ cap' = cap
      BY DEF PopMessage
    <3>2. /\ cap \in Nat \ {0} /\ head \in 0 .. cap - 1
          /\ i \in Nat /\ i < cap
      BY DEF RingOK, Length
    <3> QED
      BY <3>1, <3>2 DEF Wrap
  <2>2. Waiting'[i] = queue[Wrap(head + (i + 1) - 1)]
    BY <1>1, <1>2, <1>3, <2>1 DEF PopMessage
  <2> QED
    BY <1>1, <1>6, <2>2
<1>8. Waiting' = Tail(Waiting)
  BY <1>2, <1>3, <1>6, <1>7, SeqEqual
<1> QED
  BY <1>4, <1>5, <1>6, <1>8 DEF Fifo!Take, PopMessage

LEMMA EmptyTakesNothing ==
  ASSUME RingOK, RingOK', PopEmpty
  PROVE  Fifo!TakeNothing
<1>1. Waiting \in Seq(Msg) /\ Len(Waiting) = Length
  BY WaitingSeq DEF WaitingOK
<1>2. Waiting' \in Seq(Msg) /\ Len(Waiting') = Length'
  BY WaitingSeqNext DEF WaitingOK
<1>3. Length = 0 /\ Length' = 0
  BY DEF PopEmpty, RingOK, Length
<1>4. Waiting = <<>> /\ Waiting' = <<>>
  BY <1>1, <1>2, <1>3, EmptySeq
<1> QED
  BY <1>4 DEF Fifo!TakeNothing, PopEmpty

\* The ring buffer of skynet_mq.c, with its wrap-around and its expansion, is
\* a first-in first-out queue for every initial capacity.
THEOREM QueueImplementsFifo == Spec => FifoSpec
<1>1. Init => Fifo!FifoInit
  <2> SUFFICES ASSUME Init PROVE Fifo!FifoInit
    OBVIOUS
  <2>1. Waiting \in Seq(Msg) /\ Len(Waiting) = 0
    BY InitRing, WaitingSeq DEF WaitingOK, Init, Length
  <2>2. Waiting = <<>>
    BY <2>1, EmptySeq
  <2> QED
    BY <2>2 DEF Init, Fifo!FifoInit
<1>2. RingOK /\ RingOK' /\ [Next]_vars => [Fifo!FifoNext]_(Fifo!fifoVars)
  <2> SUFFICES ASSUME RingOK, RingOK', [Next]_vars
               PROVE  [Fifo!FifoNext]_(Fifo!fifoVars)
    OBVIOUS
  <2>1. ASSUME NEW m \in Msg, Push(m) PROVE Fifo!FifoNext
    BY <2>1, PushPuts DEF Fifo!FifoNext
  <2>2. CASE PopMessage
    BY <2>2, PopTakes DEF Fifo!FifoNext
  <2>3. CASE PopEmpty
    BY <2>3, EmptyTakesNothing DEF Fifo!FifoNext
  <2>4. CASE ReadOverload \/ UNCHANGED vars
    BY <2>4 DEF ReadOverload, vars, Fifo!fifoVars, Waiting, Length, Wrap
  <2> QED
    BY <2>1, <2>2, <2>3, <2>4 DEF Next
<1> QED
  BY <1>1, <1>2, RingCorrect, PTL DEF Spec, FifoSpec, Fifo!FifoSpec

------------------------------------------------------------------------------
(***************************************************************************)
(* The watch (Monitor): a handler that runs on is reported, a worker that  *)
(* has finished a message is not.                                          *)
(***************************************************************************)

\* A step of the core is one of the watch, or leaves it alone.
LEMMA WatchStep == [CoreNext]_core => [Watch!Next]_watch_vars
  BY DEF CoreNext, In, core

\* What the watch and a worker know of each other: the destination is the one of
\* the message at hand, a version that was not counted was not seen to change.
WatchInv ==
    /\ Watch!RecordOK
    /\ \A w \in Worker :
         /\ monitor_pc[w] \in {"trigger", "count"} => version[w] < 2 * MaxMessages
         /\ monitor_pc[w] # "idle" => msg[w] \in Service
         /\ monitor_pc[w] \in {"handle", "done"} /\ age[w] >= 1 => checkVersion[w] = version[w]
         /\ ~quiet[w] => checkVersion[w] # version[w]

LEMMA WatchInit == Watch!Init => WatchInv
  BY CoreAssumption DEF Watch!Init, Watch!MonitorAssumption, WatchInv, Watch!RecordOK

LEMMA WatchNext == WatchInv /\ [Watch!Next]_watch_vars => WatchInv'
<1> SUFFICES ASSUME WatchInv, [Watch!Next]_watch_vars PROVE WatchInv'
  OBVIOUS
<1> USE DEF Watch!Goto, Watch!Count, Watch!history
<1>0. MaxMessages \in Nat /\ None \notin Service
  BY CoreAssumption DEF Watch!MonitorAssumption
<1>1. ASSUME NEW w \in Worker, NEW s \in Service, Watch!Pop(w, s) PROVE WatchInv'
  BY <1>0, <1>1 DEF Watch!Pop, WatchInv, Watch!RecordOK
<1>2. ASSUME NEW w \in Worker, Watch!SetDestination(w) PROVE WatchInv'
  BY <1>0, <1>2 DEF Watch!SetDestination, WatchInv, Watch!RecordOK
<1>3. ASSUME NEW w \in Worker, Watch!Begin(w) PROVE WatchInv'
  BY <1>0, <1>3 DEF Watch!Begin, WatchInv, Watch!RecordOK
<1>4. ASSUME NEW w \in Worker, Watch!ClearDestination(w) PROVE WatchInv'
  BY <1>0, <1>4 DEF Watch!ClearDestination, WatchInv, Watch!RecordOK
<1>5. ASSUME NEW w \in Worker, Watch!End(w) PROVE WatchInv'
  BY <1>0, <1>5 DEF Watch!End, WatchInv, Watch!RecordOK
<1>6. ASSUME NEW w \in Worker, Watch!Check(w) PROVE WatchInv'
  BY <1>0, <1>6 DEF Watch!Check, Watch!Stalled, Watch!Remember, WatchInv, Watch!RecordOK
<1>7. CASE Watch!NextRound
  BY <1>7 DEF Watch!NextRound, WatchInv, Watch!RecordOK
<1>8. ASSUME NEW s, Watch!Clear(s) PROVE WatchInv'
  BY <1>8 DEF Watch!Clear, WatchInv, Watch!RecordOK
<1>9. CASE UNCHANGED watch_vars
  BY <1>9 DEF watch_vars, WatchInv, Watch!RecordOK
<1> QED
  BY <1>1, <1>2, <1>3, <1>4, <1>5, <1>6, <1>7, <1>8, <1>9 DEF Watch!Next

\* What the watch says at its look at a worker.
LEMMA LookStep ==
  ASSUME WatchInv, [Watch!Next]_watch_vars, NEW w \in Worker, w \in looked' \ looked
  PROVE  /\ monitor_pc[w] = "handle" /\ age[w] >= 1 => msg[w] \in endless'
         /\ ~quiet[w] => endless' = endless
<1>1. Watch!Check(w)
  <2>1. looked' # looked
    OBVIOUS
  <2>2. \E v \in Worker : Watch!Check(v) /\ looked' = looked \cup {v}
    <3> USE DEF Watch!history
    <3>1. ~ UNCHANGED watch_vars
      BY <2>1 DEF watch_vars
    <3>2. ~Watch!NextRound
      BY DEF Watch!NextRound
    <3> QED
      BY <2>1, <3>1, <3>2 DEF Watch!Next, Watch!Pop, Watch!SetDestination, Watch!Begin,
         Watch!ClearDestination, Watch!End, Watch!Check, Watch!Clear
  <2> QED
    BY <2>2
<1>2. monitor_pc[w] = "handle" => destination[w] = msg[w] /\ msg[w] # None
  BY CoreAssumption DEF WatchInv, Watch!RecordOK, Watch!MonitorAssumption
<1> QED
  BY <1>1, <1>2 DEF Watch!Check, Watch!Stalled, WatchInv, Watch!RecordOK

\* The monitor reports a handler that still runs at its second look, and accuses
\* nobody who has finished a message since its last (skynet_monitor_check), for
\* every number of workers and services.
THEOREM LoopsReported == CoreSpec => EndlessReported
<1>1. CoreInit => WatchInv
  BY WatchInit DEF CoreInit
<1>2. WatchInv /\ [CoreNext]_core => WatchInv'
  BY WatchStep, WatchNext
<1>3. WatchInv => Watch!RecordOK
  BY DEF WatchInv
<1>4. WatchInv /\ [CoreNext]_core =>
        [\A w \in Worker : (w \in looked' \ looked /\ monitor_pc[w] = "handle" /\ age[w] >= 1)
                              => msg[w] \in endless']_(Watch!vars)
  BY WatchStep, LookStep
<1>5. WatchInv /\ [CoreNext]_core =>
        [\A w \in Worker : (w \in looked' \ looked /\ ~quiet[w]) => endless' = endless]_(Watch!vars)
  BY WatchStep, LookStep
<1> QED
  BY <1>1, <1>2, <1>3, <1>4, <1>5, PTL DEF CoreSpec, EndlessReported, Watch!EndlessSeen,
     Watch!BusyNotAccused

------------------------------------------------------------------------------
(***************************************************************************)
(* The sockets (SocketServer): what is reported of each.                   *)
(***************************************************************************)

SocketType == {"INVALID", "RESERVE", "CONNECTING", "CONNECTED", "LISTEN", "PACCEPT", "PLISTEN",
               "HALFCLOSE_READ", "HALFCLOSE_WRITE"}
Peer == {"none", "pending", "up", "refused", "fin", "hup", "reset", "quiet", "backlog"}
Sock == [id : 0 .. MaxSocket, type : SocketType, tcp : BOOLEAN, closing : BOOLEAN,
         reading : BOOLEAN, writing : BOOLEAN, unsent : BOOLEAN, peer : Peer, inbox : Nat]
Requests == {"O", "L", "K", "X", "R", "S", "D"} \X Server!Ids
EventRecord == [slot : Server!Slot \cup {Server!NULL}, id : 0 .. MaxSocket, read : BOOLEAN,
                write : BOOLEAN, error : BOOLEAN, eof : BOOLEAN]
Reports == {"OPEN", "DATA", "ACCEPT", "ERR", "CLOSE"}

SocketTypes ==
    /\ sock \in [Server!Slot -> Sock]
    /\ alloc \in 0 .. MaxSocket /\ given \subseteq 1 .. alloc
    /\ pipe \in Seq(Requests) /\ (\A k \in DOMAIN pipe : pipe[k][2] <= alloc)
    /\ events \in Seq(EventRecord)
    /\ log \in [Server!Ids -> Seq(Reports)]

\* Socket i has its slot, and no worker is about to take it.
Taken(x) == reserving # Server!NoReserve /\ reserving.slot = x
Has(i) == sock[Server!HASH_ID(i)].id = i /\ ~Taken(Server!HASH_ID(i))
Type(i) == sock[Server!HASH_ID(i)].type

\* A slot is of a socket that was given out, or free and of none yet.
Owners ==
    \A x \in Server!Slot :
        /\ sock[x].id # 0 => /\ sock[x].id \in given \ {reserving.id}
                             /\ Server!HASH_ID(sock[x].id) = x
        /\ sock[x].id = 0 => sock[x].type = "INVALID" \/ Taken(x)
        /\ sock[x].closing => sock[x].type \in {"INVALID", "RESERVE", "HALFCLOSE_READ"}

\* What a worker that reserves has, before it sets the id.
Reserves ==
    IF reserving = Server!NoReserve THEN TRUE
    ELSE /\ reserving.slot \in Server!Slot /\ reserving.id \in given /\ reserving.cmd \in {"O", "L"}
         /\ Server!HASH_ID(reserving.id) = reserving.slot
         /\ sock[reserving.slot].type = "RESERVE"
         /\ \A k \in DOMAIN pipe : pipe[k][2] # reserving.id

\* A socket to open is reserved, and opened once.
Opens(p) == p[1] \in {"O", "L"}
Commands ==
    \A k \in DOMAIN pipe : Opens(pipe[k]) =>
        /\ Has(pipe[k][2]) /\ Type(pipe[k][2]) = "RESERVE"
        /\ \A j \in DOMAIN pipe : Opens(pipe[j]) /\ pipe[j][2] = pipe[k][2] => j = k

\* What has been reported of a socket fits its type, or was its end.
Logs ==
    \A i \in Server!Ids :
        /\ Server!Reported(i, "OPEN") \/ Server!Reported(i, "CLOSE") => i \in given \ {reserving.id}
        /\ Has(i) /\ Type(i) \in {"RESERVE", "CONNECTING"} => ~Server!Reported(i, "OPEN")
        /\ Has(i) /\ Server!Reported(i, "CLOSE") => Type(i) \in {"INVALID", "HALFCLOSE_READ"}
        /\ Has(i) /\ Type(i) = "HALFCLOSE_READ" => Server!Reported(i, "CLOSE")
        /\ i \in given \ {reserving.id} /\ ~(Has(i) /\ Type(i) # "INVALID") =>
              \/ Server!Reported(i, "CLOSE")
              \/ Server!Reported(i, "ERR") /\ ~Server!Reported(i, "OPEN")

SocketInv == SocketTypes /\ Owners /\ Reserves /\ Commands /\ Logs /\ Server!CloseOnce

LEMMA SlotFacts ==
  /\ Slots \in Nat \ {0} /\ MaxSocket \in Nat /\ Server!NULL \notin Server!Slot
  /\ \A i \in Nat : Server!HASH_ID(i) \in Server!Slot
  /\ Server!Ids = 1 .. MaxSocket
<1>1. Slots \in Nat \ {0} /\ MaxSocket \in Nat
  BY SocketAssumption DEF Server!SocketServerAssumption
<1>2. \A i \in Nat : i % Slots \in 0 .. Slots - 1
  BY <1>1
<1> QED
  BY <1>1, <1>2 DEF Server!NULL, Server!Slot, Server!HASH_ID, Server!Ids

\* What a report adds to the log.
LEMMA ReportStep ==
  ASSUME SocketTypes, Server!CloseOnce, NEW i \in Server!Ids, NEW r \in Reports, Server!Report(i, r),
         r = "ERR" \/ ~Server!Reported(i, "CLOSE")
  PROVE  /\ log' \in [Server!Ids -> Seq(Reports)]
         /\ \A j \in Server!Ids : \A q \in Reports :
               Server!Reported(j, q)' <=> Server!Reported(j, q) \/ (j = i /\ q = r)
         /\ Server!CloseOnce'
<1>1. log \in [Server!Ids -> Seq(Reports)] /\ log[i] \in Seq(Reports)
  BY DEF SocketTypes
<1>2. \A j \in Server!Ids \ {i} : log'[j] = log[j]
  BY <1>1 DEF Server!Report
<1>3. CASE log' = [log EXCEPT ![i] = log[i]] /\ Server!Reported(i, r)
  <2>1. log' = log
    BY <1>1, <1>3
  <2> QED
    BY <1>1, <1>3, <2>1 DEF Server!Reported, Server!CloseOnce
<1>4. CASE log' = [log EXCEPT ![i] = Append(log[i], r)]
  <2>1. /\ Append(log[i], r) \in Seq(Reports) /\ Len(Append(log[i], r)) = Len(log[i]) + 1
        /\ \A k \in 1 .. Len(log[i]) : Append(log[i], r)[k] = log[i][k]
        /\ Append(log[i], r)[Len(log[i]) + 1] = r
    BY <1>1, AppendProperties
  <2>2. log'[i] = Append(log[i], r) /\ log' \in [Server!Ids -> Seq(Reports)]
    BY <1>1, <1>4, <2>1
  <2>3. DOMAIN log[i] = 1 .. Len(log[i]) /\ DOMAIN log'[i] = 1 .. Len(log[i]) + 1 /\ Len(log[i]) \in Nat
    BY <1>1, <2>1, <2>2
  <2>4. \A q \in Reports : Server!Reported(i, q)' <=> Server!Reported(i, q) \/ q = r
    BY <2>1, <2>2, <2>3 DEF Server!Reported
  <2>5. \A j, k \in DOMAIN log'[i] : j < k /\ log'[i][j] = "CLOSE" => log'[i][k] = "ERR"
    BY <2>1, <2>2, <2>3 DEF Server!Reported, Server!CloseOnce
  <2>6. \A j \in Server!Ids : \A q \in Reports :
            Server!Reported(j, q)' <=> Server!Reported(j, q) \/ (j = i /\ q = r)
    <3> SUFFICES ASSUME NEW j \in Server!Ids, NEW q \in Reports
                 PROVE  Server!Reported(j, q)' <=> Server!Reported(j, q) \/ (j = i /\ q = r)
      OBVIOUS
    <3>1. CASE j = i
      BY <2>4, <3>1
    <3>2. CASE j # i
      BY <1>2, <3>2 DEF Server!Reported
    <3> QED
      BY <3>1, <3>2
  <2>7. \A m \in Server!Ids : \A j, k \in DOMAIN log'[m] : j < k /\ log'[m][j] = "CLOSE" => log'[m][k] = "ERR"
    BY <1>2, <2>5 DEF Server!CloseOnce
  <2> QED
    BY <2>2, <2>6, <2>7 DEF Server!CloseOnce
<1>5. log[i] # <<>> /\ Server!Last(log[i]) = r => Server!Reported(i, r)
  BY <1>1 DEF Server!Last, Server!Reported
<1> QED
  BY <1>3, <1>4, <1>5 DEF Server!Report

\* What becomes of the commands that wait: at most the first is taken.
Kept(n) == \A k \in DOMAIN pipe' : k \in Nat /\ k + n \in DOMAIN pipe /\ pipe'[k] = pipe[k + n]

LEMMA PipeKept == SocketTypes /\ UNCHANGED pipe => Kept(0)
  BY DEF SocketTypes, Kept

LEMMA PipeTaken ==
  ASSUME SocketTypes, pipe # <<>>, pipe' = Tail(pipe)
  PROVE  /\ pipe' \in Seq(Requests) /\ Kept(1)
         /\ 1 \in DOMAIN pipe /\ Head(pipe) = pipe[1] /\ pipe[1] \in Requests
         /\ \A k \in DOMAIN pipe' : k + 1 # 1
<1>1. pipe \in Seq(Requests)
  BY DEF SocketTypes
<1>2. /\ Tail(pipe) \in Seq(Requests) /\ Len(Tail(pipe)) = Len(pipe) - 1
      /\ \A k \in 1 .. Len(Tail(pipe)) : Tail(pipe)[k] = pipe[k + 1]
      /\ Len(pipe) \in Nat \ {0}
  BY <1>1, HeadTailProperties, EmptySeq, LenProperties
<1> QED
  BY <1>1, <1>2 DEF Kept

\* What the code may change and report.
Legal(x, t, c, r) ==
    LET old == sock[x].type
    IN /\ Taken(x) => t = "RESERVE" /\ r \in {"none", "ERR"}
       /\ c => t \in {"INVALID", "RESERVE", "HALFCLOSE_READ"}
       /\ old = "INVALID" => t = "INVALID" /\ r \in {"none", "ERR"}
       /\ old = "HALFCLOSE_READ" => t \in {"INVALID", "HALFCLOSE_READ"} /\ r \in {"none", "ERR"}
       /\ t = "HALFCLOSE_READ" => old = "HALFCLOSE_READ" \/ r = "CLOSE"
       /\ t = "INVALID" => \/ old \in {"INVALID", "HALFCLOSE_READ"} \/ r = "CLOSE"
                           \/ r = "ERR" /\ old \in {"RESERVE", "CONNECTING"}
       /\ t = "RESERVE" => old = "RESERVE"
       /\ t = "CONNECTING" => old \in {"RESERVE", "CONNECTING"}
       /\ r = "OPEN" => t \notin {"RESERVE", "CONNECTING"}
       /\ r = "CLOSE" => t \in {"INVALID", "HALFCLOSE_READ"}

\* A step in which one socket changes and something is reported of it.
LEMMA ChangeStep ==
  ASSUME SocketInv, NEW x \in Server!Slot, NEW t, NEW c, NEW r, Legal(x, t, c, r),
         sock' \in [Server!Slot -> Sock], \A y \in Server!Slot \ {x} : sock'[y] = sock[y],
         sock'[x].id = sock[x].id, sock'[x].type = t, sock'[x].closing = c,
         IF r = "none" THEN log' = log ELSE r \in Reports /\ Server!Report(sock[x].id, r),
         UNCHANGED <<alloc, given, reserving>>,
         sock[x].type # "RESERVE" \/ t = "RESERVE"
            \/ \A k \in DOMAIN pipe' : Opens(pipe'[k]) => pipe'[k][2] # sock[x].id,
         NEW n \in Nat, Kept(n)
  PROVE  /\ Owners' /\ Reserves' /\ Commands' /\ Logs' /\ Server!CloseOnce'
         /\ log' \in [Server!Ids -> Seq(Reports)]
<1> DEFINE i == sock[x].id
<1>0. /\ sock \in [Server!Slot -> Sock] /\ i \in 0 .. MaxSocket /\ Server!Ids = 1 .. MaxSocket
      /\ given \subseteq Server!Ids /\ log \in [Server!Ids -> Seq(Reports)]
      /\ \A y \in Server!Slot : sock'[y].id = sock[y].id
      /\ \A j \in Server!Ids : Server!HASH_ID(j) \in Server!Slot
  <2>1. sock \in [Server!Slot -> Sock] /\ log \in [Server!Ids -> Seq(Reports)] /\ given \subseteq 1 .. alloc
        /\ alloc \in 0 .. MaxSocket
    BY DEF SocketInv, SocketTypes
  <2>2. sock[x].id \in 0 .. MaxSocket
    BY <2>1 DEF Sock
  <2>3. \A y \in Server!Slot : sock'[y].id = sock[y].id
    OBVIOUS
  <2>4. given \subseteq 1 .. MaxSocket
    BY <2>1, SlotFacts
  <2> QED
    BY <2>1, <2>2, <2>3, <2>4, SlotFacts
<1>1. UNCHANGED <<given, reserving>> /\ (\A y : Taken(y)' <=> Taken(y))
  BY DEF Taken
<1>2. \A j \in Server!Ids : Has(j)' <=> Has(j)
  BY <1>0, <1>1 DEF Has, Taken
<1>3. i # 0 => i \in Server!Ids /\ Server!HASH_ID(i) = x /\ i \in given \ {reserving.id}
  BY <1>0 DEF SocketInv, Owners
<1>4. Owners'
  <2> SUFFICES ASSUME NEW y \in Server!Slot
               PROVE  /\ sock'[y].id # 0 => /\ sock'[y].id \in given \ {reserving.id}
                                            /\ Server!HASH_ID(sock'[y].id) = y
                      /\ sock'[y].id = 0 => sock'[y].type = "INVALID" \/ Taken(y)
                      /\ sock'[y].closing => sock'[y].type \in {"INVALID", "RESERVE", "HALFCLOSE_READ"}
    BY <1>1 DEF Owners
  <2>1. CASE y # x
    BY <2>1 DEF SocketInv, Owners
  <2>2. CASE y = x
    BY <2>2 DEF Legal, SocketInv, Owners
  <2> QED
    BY <2>1, <2>2
<1>5. Reserves'
  <2>1. CASE reserving = Server!NoReserve
    BY <1>1, <2>1 DEF Reserves
  <2>2. CASE reserving # Server!NoReserve
    <3>1. sock'[reserving.slot].type = "RESERVE"
      BY <2>2 DEF SocketInv, Reserves, Legal, Taken
    <3>2. \A k \in DOMAIN pipe' : pipe'[k][2] # reserving.id
      BY <2>2 DEF SocketInv, Reserves, Kept
    <3> QED
      BY <1>1, <2>2, <3>1, <3>2 DEF SocketInv, Reserves
  <2> QED
    BY <2>1, <2>2
<1>6. Commands'
  <2>1. ASSUME NEW k \in DOMAIN pipe', NEW h, h = pipe'[k][2], Opens(pipe'[k])
        PROVE  /\ h \in Server!Ids /\ Has(h)' /\ Type(h)' = "RESERVE"
               /\ \A j \in DOMAIN pipe' : Opens(pipe'[j]) /\ pipe'[j][2] = h => j = k
    <3>1. k + n \in DOMAIN pipe /\ pipe'[k] = pipe[k + n] /\ k \in Nat
      BY DEF Kept
    <3>2. h \in Server!Ids
      BY <2>1, <3>1 DEF SocketInv, SocketTypes, Requests
    <3>3. Has(h) /\ Type(h) = "RESERVE"
      BY <2>1, <3>1 DEF SocketInv, Commands
    <3>4. ASSUME NEW j \in DOMAIN pipe', Opens(pipe'[j]), pipe'[j][2] = h PROVE j = k
      <4>1. j + n \in DOMAIN pipe /\ pipe'[j] = pipe[j + n] /\ j \in Nat
        BY DEF Kept
      <4>2. j + n = k + n
        BY <2>1, <3>1, <3>4, <4>1 DEF SocketInv, Commands
      <4> QED
        BY <3>1, <4>1, <4>2
    <3>5. Server!HASH_ID(h) # x => Type(h)' = "RESERVE"
      BY <1>0, <3>2, <3>3 DEF Type
    <3>6. ASSUME Server!HASH_ID(h) = x PROVE Type(h)' = "RESERVE"
      <4>1. h = i /\ sock[x].type = "RESERVE" /\ Type(h)' = t
        BY <3>3, <3>6 DEF Type, Has
      <4>2. t = "RESERVE"
        BY <2>1, <4>1
      <4> QED
        BY <4>1, <4>2
    <3> QED
      BY <1>2, <3>2, <3>3, <3>4, <3>5, <3>6
  <2> QED
    BY <2>1 DEF Commands, Opens, Has, Type, Taken
<1>9. ASSUME i \in Server!Ids, r \in Reports PROVE r = "ERR" \/ ~Server!Reported(i, "CLOSE")
  <2>1. i # 0
    BY <1>0, <1>9
  <2>2. Server!HASH_ID(i) = x
    BY <1>3, <2>1
  <2>3. CASE Taken(x)
    BY <1>9, <2>3 DEF Legal, Reports
  <2>4. CASE ~Taken(x)
    <3>1. Has(i) /\ Type(i) = sock[x].type
      BY <2>2, <2>4 DEF Has, Type
    <3>2. Server!Reported(i, "CLOSE") => sock[x].type \in {"INVALID", "HALFCLOSE_READ"}
      BY <1>9, <3>1 DEF SocketInv, Logs
    <3> QED
      BY <1>9, <3>2 DEF Legal, Reports
  <2> QED
    BY <2>3, <2>4
<1>7. /\ Server!CloseOnce' /\ log' \in [Server!Ids -> Seq(Reports)]
      /\ \A j \in Server!Ids : \A q \in Reports :
            Server!Reported(j, q)' <=> Server!Reported(j, q) \/ (j = i /\ q = r)
  <2>1. CASE log' = log
    <3>1. CASE r = "none"
      BY <1>0, <2>1, <3>1 DEF SocketInv, Server!CloseOnce, Server!Reported, Reports
    <3>2. CASE r # "none" /\ i \in Server!Ids
      <4>1. r \in Reports /\ Server!Report(i, r)
        BY <3>2
      <4>2. log'[i] = log[i]
        BY <2>1
      <4>3. r = "ERR" \/ ~Server!Reported(i, "CLOSE")
        BY <1>9, <3>2, <4>1
      <4> QED
        BY <3>2, <4>1, <4>3, ReportStep DEF SocketInv
    <3>3. CASE i = 0
      BY <1>0, <2>1, <3>3 DEF SocketInv, Server!CloseOnce, Server!Reported, Reports
    <3> QED
      BY <1>0, <3>1, <3>2, <3>3
  <2>2. CASE log' # log
    <3>1. r \in Reports /\ Server!Report(i, r)
      BY <2>2
    <3>2. i \in Server!Ids
      BY <1>0, <2>2, <3>1 DEF Server!Report
    <3>3. r = "ERR" \/ ~Server!Reported(i, "CLOSE")
      BY <1>9, <3>1, <3>2
    <3> QED
      BY <3>1, <3>2, <3>3, ReportStep DEF SocketInv
  <2> QED
    BY <2>1, <2>2
<1>8. Logs'
  <2> SUFFICES ASSUME NEW j \in Server!Ids
        PROVE
        /\ Server!Reported(j, "OPEN")' \/ Server!Reported(j, "CLOSE")' => j \in given \ {reserving.id}
        /\ Has(j) /\ Type(j)' \in {"RESERVE", "CONNECTING"} => ~Server!Reported(j, "OPEN")'
        /\ Has(j) /\ Server!Reported(j, "CLOSE")' => Type(j)' \in {"INVALID", "HALFCLOSE_READ"}
        /\ Has(j) /\ Type(j)' = "HALFCLOSE_READ" => Server!Reported(j, "CLOSE")'
        /\ j \in given \ {reserving.id} /\ ~(Has(j) /\ Type(j)' # "INVALID") =>
              \/ Server!Reported(j, "CLOSE")'
              \/ Server!Reported(j, "ERR")' /\ ~Server!Reported(j, "OPEN")'
    BY <1>1, <1>2 DEF Logs, Server!Reported, Type
  <2>1. \A q \in {"OPEN", "CLOSE", "ERR"} :
            Server!Reported(j, q)' <=> Server!Reported(j, q) \/ (j = i /\ q = r)
    BY <1>7 DEF Reports
  <2>2. CASE j # i
    <3>1. Has(j) => Type(j)' = Type(j)
      BY <1>0, <2>2 DEF Has, Type
    <3> QED
      BY <2>1, <2>2, <3>1 DEF SocketInv, Logs
  <2>3. CASE j = i
    <3>1. Type(j) = sock[x].type /\ Type(j)' = t /\ (Has(j) <=> ~Taken(x))
      BY <1>0, <1>3, <2>3 DEF Type, Has
    <3>2. j \in given \ {reserving.id}
      BY <1>0, <1>3, <2>3
    <3>3. Taken(x) => ~Has(j)
      BY <3>1
    <3> QED
      BY <2>1, <2>3, <3>1, <3>2 DEF SocketInv, Logs, Legal
  <2> QED
    BY <2>2, <2>3
<1> QED
  BY <1>4, <1>5, <1>6, <1>7, <1>8

LEMMA ChangeInv ==
  ASSUME SocketInv, NEW x \in Server!Slot, NEW t, NEW c, NEW r, Legal(x, t, c, r),
         sock' \in [Server!Slot -> Sock], \A y \in Server!Slot \ {x} : sock'[y] = sock[y],
         sock'[x].id = sock[x].id, sock'[x].type = t, sock'[x].closing = c,
         IF r = "none" THEN log' = log ELSE r \in Reports /\ Server!Report(sock[x].id, r),
         UNCHANGED <<alloc, given, reserving>>,
         sock[x].type # "RESERVE" \/ t = "RESERVE"
            \/ \A k \in DOMAIN pipe' : Opens(pipe'[k]) => pipe'[k][2] # sock[x].id,
         NEW n \in Nat, Kept(n), pipe' \in Seq(Requests), events' \in Seq(EventRecord)
  PROVE  SocketInv'
<1>1. /\ Owners' /\ Reserves' /\ Commands' /\ Logs' /\ Server!CloseOnce'
      /\ log' \in [Server!Ids -> Seq(Reports)]
  BY ChangeStep
<1>2. \A k \in DOMAIN pipe' : pipe'[k][2] <= alloc
  BY DEF SocketInv, SocketTypes, Kept
<1>3. SocketTypes'
  BY <1>1, <1>2 DEF SocketInv, SocketTypes
<1> QED
  BY <1>1, <1>3 DEF SocketInv

LEMMA NotTaken ==
  ASSUME SocketInv, NEW x \in Server!Slot, sock[x].type # "RESERVE"
  PROVE  ~Taken(x)
  BY DEF SocketInv, Reserves, Taken

LEMMA StayStep ==
  ASSUME SocketInv, UNCHANGED <<sock, log, alloc, given, reserving>>,
         NEW n \in Nat, Kept(n), pipe' \in Seq(Requests), events' \in Seq(EventRecord)
  PROVE  SocketInv'
<1>1. PICK x \in Server!Slot : TRUE
  BY SlotFacts DEF Server!Slot
<1>2. sock \in [Server!Slot -> Sock]
  BY DEF SocketInv, SocketTypes
<1>3. Legal(x, sock[x].type, sock[x].closing, "none")
  BY NotTaken DEF Legal, SocketInv, Owners
<1> QED
  BY <1>2, <1>3, ChangeInv

\* An error that is reported of any socket.
LEMMA ErrorStep ==
  ASSUME SocketInv, UNCHANGED <<sock, alloc, given, reserving>>, NEW i \in Server!Ids,
         Server!Report(i, "ERR"),
         NEW n \in Nat, Kept(n), pipe' \in Seq(Requests), events' \in Seq(EventRecord)
  PROVE  SocketInv'
<1>1. /\ log' \in [Server!Ids -> Seq(Reports)] /\ Server!CloseOnce'
      /\ \A j \in Server!Ids : \A q \in Reports :
            Server!Reported(j, q)' <=> Server!Reported(j, q) \/ (j = i /\ q = "ERR")
  BY ReportStep DEF SocketInv, Reports
<1>2. \A j \in Server!Ids : /\ Server!Reported(j, "OPEN")' <=> Server!Reported(j, "OPEN")
                            /\ Server!Reported(j, "CLOSE")' <=> Server!Reported(j, "CLOSE")
                            /\ Server!Reported(j, "ERR") => Server!Reported(j, "ERR")'
  BY <1>1 DEF Reports
<1>3. \A j \in Server!Ids : (Has(j)' <=> Has(j)) /\ Type(j)' = Type(j)
  BY DEF Has, Type, Taken
<1>4. Logs'
  <2> SUFFICES ASSUME NEW j \in Server!Ids
        PROVE
        /\ Server!Reported(j, "OPEN")' \/ Server!Reported(j, "CLOSE")' => j \in given \ {reserving.id}
        /\ Has(j) /\ Type(j) \in {"RESERVE", "CONNECTING"} => ~Server!Reported(j, "OPEN")'
        /\ Has(j) /\ Server!Reported(j, "CLOSE")' => Type(j) \in {"INVALID", "HALFCLOSE_READ"}
        /\ Has(j) /\ Type(j) = "HALFCLOSE_READ" => Server!Reported(j, "CLOSE")'
        /\ j \in given \ {reserving.id} /\ ~(Has(j) /\ Type(j) # "INVALID") =>
              \/ Server!Reported(j, "CLOSE")'
              \/ Server!Reported(j, "ERR")' /\ ~Server!Reported(j, "OPEN")'
    BY <1>3 DEF Logs, Server!Reported
  <2> QED
    BY <1>2 DEF SocketInv, Logs
<1>5. Owners' /\ Reserves' /\ Commands'
  <2>1. 0 \in Server!Slot
    BY SlotFacts DEF Server!Slot
  <2>2. Owners'
    BY DEF SocketInv, Owners, Taken
  <2>3. Reserves'
    BY DEF SocketInv, Reserves, Kept
  <2>4. Commands'
    <3>1. ASSUME NEW k \in DOMAIN pipe', NEW h, h = pipe'[k][2], Opens(pipe'[k])
          PROVE  /\ Has(h)' /\ Type(h)' = "RESERVE"
                 /\ \A j \in DOMAIN pipe' : Opens(pipe'[j]) /\ pipe'[j][2] = h => j = k
      <4>1. k + n \in DOMAIN pipe /\ pipe'[k] = pipe[k + n] /\ k \in Nat
        BY DEF Kept
      <4>2. Has(h) /\ Type(h) = "RESERVE" /\ h \in Server!Ids
        BY <3>1, <4>1 DEF SocketInv, SocketTypes, Commands, Requests
      <4>3. ASSUME NEW j \in DOMAIN pipe', Opens(pipe'[j]), pipe'[j][2] = h PROVE j = k
        <5>1. j + n \in DOMAIN pipe /\ pipe'[j] = pipe[j + n] /\ j \in Nat
          BY DEF Kept
        <5>2. j + n = k + n
          BY <3>1, <4>1, <4>3, <5>1 DEF SocketInv, Commands
        <5> QED
          BY <4>1, <5>1, <5>2
      <4> QED
        BY <1>3, <4>2, <4>3
    <3> QED
      BY <3>1 DEF Commands, Opens, Has, Type, Taken
  <2> QED
    BY <2>2, <2>3, <2>4
<1>6. \A k \in DOMAIN pipe' : pipe'[k][2] <= alloc
  BY DEF SocketInv, SocketTypes, Kept
<1>7. SocketTypes'
  BY <1>1, <1>6 DEF SocketInv, SocketTypes
<1> QED
  BY <1>1, <1>4, <1>5, <1>7 DEF SocketInv

\* The event that is handled.
LEMMA EventFacts ==
  ASSUME SocketInv, NEW T, Server!Event(T)
  PROVE  /\ Server!X \in Server!Slot /\ Server!S = sock[Server!X] /\ Server!S \in Sock
         /\ Server!S.type \in T /\ UNCHANGED <<reserving, pipe>>
         /\ Kept(0) /\ pipe' \in Seq(Requests)
         /\ Server!E \in EventRecord
         /\ Server!Handled => events' \in Seq(EventRecord)
         /\ Server!AfterRead => events' \in Seq(EventRecord)
<1>1. events \in Seq(EventRecord) /\ events # <<>> /\ sock \in [Server!Slot -> Sock]
      /\ pipe \in Seq(Requests)
  BY DEF SocketInv, SocketTypes, Server!Event
<1>2. Head(events) \in EventRecord /\ Tail(events) \in Seq(EventRecord)
  BY <1>1, HeadTailProperties
<1>3. Head(events).slot \in Server!Slot
  BY <1>2 DEF Server!Event, EventRecord
<1>4. UNCHANGED <<reserving, pipe>>
  BY DEF Server!Event
<1>5. <<[Head(events) EXCEPT !.read = FALSE]>> \o Tail(events) \in Seq(EventRecord)
  <2>1. [Head(events) EXCEPT !.read = FALSE] \in EventRecord
    BY <1>2 DEF EventRecord
  <2>2. <<[Head(events) EXCEPT !.read = FALSE]>> \in Seq(EventRecord)
    BY <2>1
  <2> QED
    BY <1>2, <2>2, ConcatProperties
<1> QED
  BY <1>1, <1>2, <1>3, <1>4, <1>5, PipeKept DEF SocketInv, Server!Event, Server!X, Server!S, Server!E,
     Server!Handled, Server!AfterRead

\* The command that is taken.
LEMMA TakeFacts ==
  ASSUME SocketInv, NEW T, Server!Take(T)
  PROVE  /\ Server!Arg \in Server!Ids /\ Server!ArgSlot \in Server!Slot
         /\ Server!ArgSlot = Server!HASH_ID(Server!Arg)
         /\ Head(pipe)[1] \in T /\ Kept(1) /\ pipe' \in Seq(Requests)
         /\ UNCHANGED <<events, alloc, given, reserving>> /\ events' \in Seq(EventRecord)
         /\ sock \in [Server!Slot -> Sock] /\ sock[Server!ArgSlot] \in Sock
         /\ T \subseteq {"O", "L"} =>
               /\ sock[Server!ArgSlot].id = Server!Arg /\ ~Taken(Server!ArgSlot)
               /\ sock[Server!ArgSlot].type = "RESERVE"
               /\ \A k \in DOMAIN pipe' : Opens(pipe'[k]) => pipe'[k][2] # Server!Arg
<1>1. /\ pipe # <<>> /\ Head(pipe)[1] \in T /\ pipe' = Tail(pipe)
      /\ UNCHANGED <<events, alloc, given, reserving>>
  BY DEF Server!Take, Server!issued
<1>2. /\ pipe' \in Seq(Requests) /\ Kept(1)
      /\ 1 \in DOMAIN pipe /\ Head(pipe) = pipe[1] /\ pipe[1] \in Requests
  BY <1>1, PipeTaken DEF SocketInv
<1>3. Server!Arg \in Server!Ids /\ Server!Arg = pipe[1][2]
  BY <1>2 DEF Server!Arg, Requests
<1>4. Server!ArgSlot = Server!HASH_ID(Server!Arg) /\ Server!ArgSlot \in Server!Slot
  BY <1>3, SlotFacts DEF Server!ArgSlot
<1>5. ASSUME T \subseteq {"O", "L"}
      PROVE  /\ sock[Server!ArgSlot].id = Server!Arg /\ ~Taken(Server!ArgSlot)
             /\ sock[Server!ArgSlot].type = "RESERVE"
             /\ \A k \in DOMAIN pipe' : Opens(pipe'[k]) => pipe'[k][2] # Server!Arg
  <2>1. Opens(pipe[1])
    BY <1>1, <1>2, <1>5 DEF Opens
  <2>2. /\ Has(Server!Arg) /\ Type(Server!Arg) = "RESERVE"
        /\ \A j \in DOMAIN pipe : Opens(pipe[j]) /\ pipe[j][2] = Server!Arg => j = 1
    BY <1>2, <1>3, <2>1 DEF SocketInv, Commands
  <2>3. \A k \in DOMAIN pipe' : k \in Nat /\ k + 1 \in DOMAIN pipe /\ pipe'[k] = pipe[k + 1] /\ k + 1 # 1
    BY <1>1, PipeTaken DEF SocketInv, Kept
  <2> QED
    BY <1>4, <2>2, <2>3 DEF Has, Type
<1> QED
  BY <1>1, <1>2, <1>3, <1>4, <1>5 DEF SocketInv, SocketTypes

\* What an event may do to the socket at hand.
LEMMA EventStep ==
  ASSUME SocketInv, NEW T, Server!Event(T), NEW t, NEW c, NEW r,
         Legal(Server!X, t, c, r), NEW s \in Sock, s.id = Server!S.id, s.type = t, s.closing = c,
         sock' = [sock EXCEPT ![Server!X] = s],
         IF r = "none" THEN log' = log ELSE r \in Reports /\ Server!Report(Server!S.id, r),
         UNCHANGED Server!issued, Server!Handled \/ Server!AfterRead,
         "RESERVE" \in T => t = "RESERVE"
  PROVE  SocketInv'
<1>1. /\ Server!X \in Server!Slot /\ Server!S = sock[Server!X] /\ Server!S.type \in T
      /\ UNCHANGED <<reserving, pipe>> /\ Kept(0) /\ pipe' \in Seq(Requests)
      /\ events' \in Seq(EventRecord)
  BY EventFacts
<1>2. PICK x \in Server!Slot : x = Server!X
  BY <1>1
<1>3. sock \in [Server!Slot -> Sock]
  BY DEF SocketInv, SocketTypes
<1>4. UNCHANGED <<alloc, given, reserving>>
  BY <1>1 DEF Server!issued
<1>5. /\ sock' \in [Server!Slot -> Sock] /\ \A y \in Server!Slot \ {x} : sock'[y] = sock[y]
      /\ sock'[x] = s /\ sock[x] = Server!S
  BY <1>1, <1>2, <1>3
<1>6. sock[x].type # "RESERVE" \/ t = "RESERVE"
  BY <1>1, <1>5
<1>7. Legal(x, t, c, r)
  BY <1>2 DEF Legal, Taken
<1> QED
  BY <1>1, <1>4, <1>5, <1>6, <1>7, ChangeInv

\* An event that leaves the type and the closing mark of its socket alone.
LEMMA EventTells ==
  ASSUME SocketInv, NEW T, Server!Event(T), NEW r \in Reports,
         r # "ERR" => /\ r \in {"DATA", "ACCEPT"} /\ "INVALID" \notin T /\ "RESERVE" \notin T
                      /\ Server!S.type # "HALFCLOSE_READ",
         NEW s \in Sock, s.id = Server!S.id, s.type = Server!S.type, s.closing = Server!S.closing,
         sock' = [sock EXCEPT ![Server!X] = s],
         Server!Report(Server!S.id, r),
         UNCHANGED Server!issued, Server!Handled \/ Server!AfterRead
  PROVE  SocketInv'
<1>1. /\ Server!X \in Server!Slot /\ Server!S = sock[Server!X] /\ Server!S.type \in T
      /\ UNCHANGED <<reserving, pipe>> /\ Kept(0) /\ pipe' \in Seq(Requests)
      /\ events' \in Seq(EventRecord)
  BY EventFacts
<1>2. PICK x \in Server!Slot : x = Server!X
  BY <1>1
<1>3. sock \in [Server!Slot -> Sock]
  BY DEF SocketInv, SocketTypes
<1>4. UNCHANGED <<alloc, given, reserving>>
  BY <1>1 DEF Server!issued
<1>5. /\ sock' \in [Server!Slot -> Sock] /\ \A y \in Server!Slot \ {x} : sock'[y] = sock[y]
      /\ sock'[x] = s /\ sock[x] = Server!S
  BY <1>1, <1>2, <1>3
<1>6. sock[x].closing => sock[x].type \in {"INVALID", "RESERVE", "HALFCLOSE_READ"}
  BY DEF SocketInv, Owners
<1>7. Legal(x, s.type, s.closing, r)
  BY <1>1, <1>5, <1>6, NotTaken DEF Legal
<1>8. sock[x].type # "RESERVE" \/ s.type = "RESERVE"
  BY <1>5
<1>9. IF r = "none" THEN log' = log ELSE r \in Reports /\ Server!Report(sock[x].id, r)
  BY <1>5 DEF Reports
<1> QED
  BY <1>1, <1>4, <1>5, <1>7, <1>8, <1>9, ChangeInv

LEMMA EventQuiet ==
  ASSUME SocketInv, NEW T, Server!Event(T),
         NEW s \in Sock, s.id = Server!S.id, s.type = Server!S.type, s.closing = Server!S.closing,
         sock' = [sock EXCEPT ![Server!X] = s],
         log' = log,
         UNCHANGED Server!issued, Server!Handled \/ Server!AfterRead
  PROVE  SocketInv'
<1>1. /\ Server!X \in Server!Slot /\ Server!S = sock[Server!X] /\ Server!S.type \in T
      /\ UNCHANGED <<reserving, pipe>> /\ Kept(0) /\ pipe' \in Seq(Requests)
      /\ events' \in Seq(EventRecord)
  BY EventFacts
<1>2. PICK x \in Server!Slot : x = Server!X
  BY <1>1
<1>3. sock \in [Server!Slot -> Sock]
  BY DEF SocketInv, SocketTypes
<1>4. UNCHANGED <<alloc, given, reserving>>
  BY <1>1 DEF Server!issued
<1>5. /\ sock' \in [Server!Slot -> Sock] /\ \A y \in Server!Slot \ {x} : sock'[y] = sock[y]
      /\ sock'[x] = s /\ sock[x] = Server!S
  BY <1>1, <1>2, <1>3
<1>6. sock[x].closing => sock[x].type \in {"INVALID", "RESERVE", "HALFCLOSE_READ"}
  BY DEF SocketInv, Owners
<1>7. Legal(x, s.type, s.closing, "none")
  BY <1>1, <1>5, <1>6, NotTaken DEF Legal
<1>8. sock[x].type # "RESERVE" \/ s.type = "RESERVE"
  BY <1>5
<1> QED
  BY <1>1, <1>4, <1>5, <1>7, <1>8, ChangeInv

LEMMA StreamFacts ==
  ASSUME SocketInv, Server!Event(Server!Stream)
  PROVE  /\ Server!S \in Sock /\ ~Taken(Server!X) /\ Server!X \in Server!Slot
         /\ Server!S.type \in {"CONNECTED", "PACCEPT", "PLISTEN", "HALFCLOSE_READ", "HALFCLOSE_WRITE"}
         /\ Server!S.closing => Server!S.type = "HALFCLOSE_READ"
         /\ "RESERVE" \notin Server!Stream /\ "INVALID" \notin Server!Stream
         /\ sock = [sock EXCEPT ![Server!X] = Server!S] /\ Server!S = sock[Server!X]
         /\ \A s : sock' = [sock EXCEPT ![Server!X] = s] => sock'[Server!X] = s
<1>1. /\ Server!X \in Server!Slot /\ Server!S = sock[Server!X] /\ Server!S \in Sock
      /\ Server!S.type \in Server!Stream
  BY EventFacts
<1>2. sock \in [Server!Slot -> Sock]
  BY DEF SocketInv, SocketTypes
<1>3. Server!S.type \in {"CONNECTED", "PACCEPT", "PLISTEN", "HALFCLOSE_READ", "HALFCLOSE_WRITE"}
      /\ "RESERVE" \notin Server!Stream /\ "INVALID" \notin Server!Stream
  BY <1>1 DEF Server!Stream
<1>4. ~Taken(Server!X)
  BY <1>1, <1>3, NotTaken
<1>5. Server!S.closing => Server!S.type = "HALFCLOSE_READ"
  BY <1>1, <1>3 DEF SocketInv, Owners
<1> QED
  BY <1>1, <1>2, <1>3, <1>4, <1>5

LEMMA ReadDataStep == SocketInv /\ Server!ReadData => SocketInv'
<1> SUFFICES ASSUME SocketInv, Server!ReadData PROVE SocketInv'
  OBVIOUS
<1> DEFINE s == [Server!S EXCEPT !.inbox = @ - 1]
<1>1. Server!Event(Server!Stream) /\ UNCHANGED Server!issued /\ Server!AfterRead
  BY DEF Server!ReadData
<1>2. Server!S.inbox > 0 /\ Server!S \in Sock /\ Server!S = sock[Server!X]
      /\ sock \in [Server!Slot -> Sock]
  BY <1>1, StreamFacts DEF Server!ReadData, SocketInv, SocketTypes
<1>3. sock' = [sock EXCEPT ![Server!X] = s]
  BY <1>2 DEF Server!ReadData
<1>4. s \in Sock /\ s.id = Server!S.id /\ s.type = Server!S.type /\ s.closing = Server!S.closing
  BY <1>2 DEF Sock
<1>5. CASE Server!S.type = "HALFCLOSE_READ"
  <2>1. log' = log
    BY <1>5 DEF Server!ReadData
  <2> QED
    BY <1>1, <1>3, <1>4, <2>1, EventQuiet
<1>6. CASE Server!S.type # "HALFCLOSE_READ"
  <2>1. Server!Report(Server!S.id, "DATA") /\ "DATA" \in Reports
    BY <1>6 DEF Server!ReadData, Reports
  <2> QED
    BY <1>1, <1>3, <1>4, <1>6, <2>1, StreamFacts, EventTells
<1> QED
  BY <1>5, <1>6

LEMMA ReadEndStep == SocketInv /\ Server!ReadEnd => SocketInv'
<1> SUFFICES ASSUME SocketInv, Server!ReadEnd PROVE SocketInv'
  OBVIOUS
<1> DEFINE free == [Server!S EXCEPT !.type = "INVALID", !.unsent = FALSE, !.peer = "none", !.inbox = 0]
           half == [Server!S EXCEPT !.type = "HALFCLOSE_READ", !.reading = FALSE]
<1>1. /\ Server!Event(Server!Stream) /\ UNCHANGED Server!issued
      /\ Server!AfterRead \/ Server!Handled
  BY DEF Server!ReadEnd
<1>2. /\ Server!S \in Sock /\ Server!S = sock[Server!X] /\ ~Taken(Server!X)
      /\ Server!S.type \in {"CONNECTED", "PACCEPT", "PLISTEN", "HALFCLOSE_READ", "HALFCLOSE_WRITE"}
      /\ Server!S.closing => Server!S.type = "HALFCLOSE_READ"
      /\ sock = [sock EXCEPT ![Server!X] = Server!S] /\ "RESERVE" \notin Server!Stream
  BY <1>1, StreamFacts
<1>3. /\ free \in Sock /\ free.id = Server!S.id /\ free.type = "INVALID" /\ free.closing = Server!S.closing
      /\ half \in Sock /\ half.id = Server!S.id /\ half.type = "HALFCLOSE_READ"
      /\ half.closing = Server!S.closing
  BY <1>2 DEF Sock, SocketType, Peer
<1>4. Server!ForceClose(Server!X) => sock' = [sock EXCEPT ![Server!X] = free]
  BY <1>2 DEF Server!ForceClose
<1> HIDE DEF free, half
<1>5. CASE Server!S.type = "HALFCLOSE_READ" /\ Server!ForceClose(Server!X)
  <2>1. log' = log
    BY <1>5 DEF Server!ReadEnd
  <2>2. Legal(Server!X, "INVALID", Server!S.closing, "none")
    BY <1>2, <1>5 DEF Legal
  <2> QED
    BY <1>1, <1>2, <1>3, <1>4, <1>5, <2>1, <2>2, EventStep
<1>6. CASE Server!S.type = "HALFCLOSE_READ" /\ UNCHANGED sock
  <2>1. log' = log
    BY <1>6 DEF Server!ReadEnd
  <2>2. sock' = [sock EXCEPT ![Server!X] = Server!S]
    BY <1>2, <1>6
  <2> QED
    BY <1>1, <1>2, <2>1, <2>2, EventQuiet
<1>7. CASE Server!S.type = "HALFCLOSE_WRITE"
  <2>1. Server!ForceClose(Server!X) /\ Server!Report(Server!S.id, "CLOSE") /\ "CLOSE" \in Reports
    BY <1>2, <1>7 DEF Server!ReadEnd, Reports
  <2>2. Legal(Server!X, "INVALID", Server!S.closing, "CLOSE")
    BY <1>2, <1>7 DEF Legal
  <2> QED
    BY <1>1, <1>2, <1>3, <1>4, <2>1, <2>2, EventStep
<1>8. CASE Server!S.type \in {"CONNECTED", "PACCEPT", "PLISTEN"}
  <2>1. /\ sock' = [sock EXCEPT ![Server!X] = half]
        /\ Server!Report(Server!S.id, "CLOSE") /\ "CLOSE" \in Reports
    BY <1>2, <1>8 DEF Server!ReadEnd, Reports, half
  <2>2. Legal(Server!X, "HALFCLOSE_READ", Server!S.closing, "CLOSE")
    BY <1>2, <1>8 DEF Legal
  <2> QED
    BY <1>1, <1>2, <1>3, <2>1, <2>2, EventStep
<1>9. CASE Server!S.type = "HALFCLOSE_READ"
  BY <1>5, <1>6, <1>9 DEF Server!ReadEnd
<1> QED
  BY <1>2, <1>7, <1>8, <1>9

LEMMA ReadErrorStep == SocketInv /\ (Server!ReadError \/ Server!EventError) => SocketInv'
<1> SUFFICES ASSUME SocketInv, Server!ReadError \/ Server!EventError PROVE SocketInv'
  OBVIOUS
<1> DEFINE s == [Server!S EXCEPT !.peer = "hup", !.inbox = 0]
<1>1. /\ Server!Event(Server!Stream) /\ UNCHANGED Server!issued /\ Server!Handled
      /\ Server!Report(Server!S.id, "ERR") /\ "ERR" \in Reports
      /\ Server!TakeError \/ UNCHANGED sock
  BY DEF Server!ReadError, Server!EventError, Reports
<1>2. /\ Server!S \in Sock /\ Server!S = sock[Server!X]
      /\ sock = [sock EXCEPT ![Server!X] = Server!S]
  BY <1>1, StreamFacts
<1>3. s \in Sock /\ s.id = Server!S.id /\ s.type = Server!S.type /\ s.closing = Server!S.closing
  BY <1>2 DEF Sock, Peer
<1>4. CASE Server!TakeError
  <2>1. sock' = [sock EXCEPT ![Server!X] = s]
    BY <1>2, <1>4 DEF Server!TakeError
  <2> HIDE DEF s
  <2> QED
    BY <1>1, <1>3, <2>1, EventTells
<1>5. CASE UNCHANGED sock
  <2>1. sock' = [sock EXCEPT ![Server!X] = Server!S]
    BY <1>2, <1>5
  <2> QED
    BY <1>1, <1>2, <2>1, EventTells
<1> QED
  BY <1>1, <1>4, <1>5

LEMMA NothingStep == SocketInv /\ (Server!ReadNothing \/ Server!WriteSome) => SocketInv'
<1> SUFFICES ASSUME SocketInv, Server!ReadNothing \/ Server!WriteSome PROVE SocketInv'
  OBVIOUS
<1>1. /\ Server!Event(Server!Stream) /\ UNCHANGED Server!issued /\ UNCHANGED <<sock, log>>
      /\ Server!AfterRead \/ Server!Handled
  BY DEF Server!ReadNothing, Server!WriteSome, Server!Writing
<1>2. Server!S \in Sock /\ sock' = [sock EXCEPT ![Server!X] = Server!S]
  BY <1>1, StreamFacts
<1> QED
  BY <1>1, <1>2, EventQuiet

LEMMA WriteAllStep == SocketInv /\ Server!WriteAll => SocketInv'
<1> SUFFICES ASSUME SocketInv, Server!WriteAll PROVE SocketInv'
  OBVIOUS
<1> DEFINE free == [Server!S EXCEPT !.type = "INVALID", !.unsent = FALSE, !.peer = "none", !.inbox = 0]
           done == [Server!S EXCEPT !.unsent = FALSE, !.writing = FALSE]
<1>1. /\ Server!Event(Server!Stream) /\ UNCHANGED Server!issued /\ UNCHANGED log /\ Server!Handled
  BY DEF Server!WriteAll, Server!Writing
<1>2. /\ Server!S \in Sock /\ Server!S = sock[Server!X] /\ ~Taken(Server!X)
      /\ Server!S.closing => Server!S.type = "HALFCLOSE_READ"
      /\ "RESERVE" \notin Server!Stream
  BY <1>1, StreamFacts
<1>3. /\ free \in Sock /\ free.id = Server!S.id /\ free.type = "INVALID" /\ free.closing = Server!S.closing
      /\ done \in Sock /\ done.id = Server!S.id /\ done.type = Server!S.type
      /\ done.closing = Server!S.closing
  BY <1>2 DEF Sock, SocketType, Peer
<1>4. CASE Server!S.closing
  <2>1. sock' = [sock EXCEPT ![Server!X] = free]
    BY <1>2, <1>4 DEF Server!WriteAll, Server!ForceClose
  <2>2. Legal(Server!X, "INVALID", Server!S.closing, "none")
    BY <1>2, <1>4 DEF Legal
  <2> HIDE DEF free
  <2> QED
    BY <1>1, <1>2, <1>3, <2>1, <2>2, EventStep
<1>5. CASE ~Server!S.closing
  <2>1. sock' = [sock EXCEPT ![Server!X] = done]
    BY <1>2, <1>5 DEF Server!WriteAll
  <2> HIDE DEF done
  <2> QED
    BY <1>1, <1>3, <2>1, EventQuiet
<1> QED
  BY <1>4, <1>5

LEMMA WriteErrorStep == SocketInv /\ Server!WriteError => SocketInv'
<1> SUFFICES ASSUME SocketInv, Server!WriteError PROVE SocketInv'
  OBVIOUS
<1> DEFINE free == [Server!S EXCEPT !.type = "INVALID", !.unsent = FALSE, !.peer = "none", !.inbox = 0]
           half == [Server!S EXCEPT !.type = "HALFCLOSE_WRITE", !.writing = FALSE]
<1>1. /\ Server!Event(Server!Stream) /\ UNCHANGED Server!issued /\ Server!Handled
  BY DEF Server!WriteError, Server!Writing
<1>2. /\ Server!S \in Sock /\ Server!S = sock[Server!X] /\ ~Taken(Server!X)
      /\ Server!S.type \in {"CONNECTED", "PACCEPT", "PLISTEN", "HALFCLOSE_READ", "HALFCLOSE_WRITE"}
      /\ Server!S.closing => Server!S.type = "HALFCLOSE_READ"
      /\ sock = [sock EXCEPT ![Server!X] = Server!S] /\ "RESERVE" \notin Server!Stream
  BY <1>1, StreamFacts
<1>3. /\ free \in Sock /\ free.id = Server!S.id /\ free.type = "INVALID" /\ free.closing = Server!S.closing
      /\ half \in Sock /\ half.id = Server!S.id /\ half.type = "HALFCLOSE_WRITE"
      /\ half.closing = Server!S.closing
  BY <1>2 DEF Sock, SocketType, Peer
<1>4. CASE Server!S.type = "HALFCLOSE_READ"
  <2>1. sock' = [sock EXCEPT ![Server!X] = free] /\ log' = log
    BY <1>2, <1>4 DEF Server!WriteError, Server!ForceClose
  <2>2. Legal(Server!X, "INVALID", Server!S.closing, "none")
    BY <1>2, <1>4 DEF Legal
  <2> HIDE DEF free
  <2> QED
    BY <1>1, <1>2, <1>3, <2>1, <2>2, EventStep
<1>5. CASE Server!S.type = "HALFCLOSE_WRITE"
  <2>1. sock' = [sock EXCEPT ![Server!X] = Server!S] /\ log' = log
    BY <1>2, <1>5 DEF Server!WriteError
  <2> QED
    BY <1>1, <1>2, <2>1, EventQuiet
<1>6. CASE Server!S.type \in {"CONNECTED", "PACCEPT", "PLISTEN"}
  <2>1. /\ sock' = [sock EXCEPT ![Server!X] = half]
        /\ Server!Report(Server!S.id, "ERR") /\ "ERR" \in Reports
    BY <1>2, <1>6 DEF Server!WriteError, Reports
  <2>2. Legal(Server!X, "HALFCLOSE_WRITE", Server!S.closing, "ERR")
    BY <1>2, <1>6 DEF Legal
  <2> HIDE DEF half
  <2> QED
    BY <1>1, <1>2, <1>3, <2>1, <2>2, EventStep
<1> QED
  BY <1>2, <1>4, <1>5, <1>6

LEMMA EventEofStep == SocketInv /\ Server!EventEof => SocketInv'
<1> SUFFICES ASSUME SocketInv, Server!EventEof PROVE SocketInv'
  OBVIOUS
<1> DEFINE free == [Server!S EXCEPT !.type = "INVALID", !.unsent = FALSE, !.peer = "none", !.inbox = 0]
<1>1. /\ Server!Event(Server!Stream) /\ UNCHANGED Server!issued /\ Server!Handled
  BY DEF Server!EventEof
<1>2. /\ Server!S \in Sock /\ Server!S = sock[Server!X] /\ ~Taken(Server!X)
      /\ Server!S.type \in {"CONNECTED", "PACCEPT", "PLISTEN", "HALFCLOSE_READ", "HALFCLOSE_WRITE"}
      /\ "RESERVE" \notin Server!Stream
  BY <1>1, StreamFacts
<1>3. /\ free \in Sock /\ free.id = Server!S.id /\ free.type = "INVALID" /\ free.closing = Server!S.closing
  BY <1>2 DEF Sock, SocketType, Peer
<1>4. sock' = [sock EXCEPT ![Server!X] = free]
  BY <1>2 DEF Server!EventEof, Server!ForceClose
<1> HIDE DEF free
<1>5. CASE Server!S.type = "HALFCLOSE_READ"
  <2>1. log' = log
    BY <1>5 DEF Server!EventEof
  <2>2. Legal(Server!X, "INVALID", Server!S.closing, "none")
    BY <1>2, <1>5 DEF Legal
  <2> QED
    BY <1>1, <1>2, <1>3, <1>4, <2>1, <2>2, EventStep
<1>6. CASE Server!S.type # "HALFCLOSE_READ"
  <2>1. Server!Report(Server!S.id, "CLOSE") /\ "CLOSE" \in Reports
    BY <1>6 DEF Server!EventEof, Reports
  <2>2. Legal(Server!X, "INVALID", Server!S.closing, "CLOSE")
    BY <1>2, <1>6 DEF Legal
  <2> QED
    BY <1>1, <1>2, <1>3, <1>4, <2>1, <2>2, EventStep
<1> QED
  BY <1>5, <1>6

\* A socket that keeps its type while nothing is reported.
LEMMA QuietStep ==
  ASSUME SocketInv, NEW x \in Server!Slot, NEW s \in Sock,
         s.id = sock[x].id, s.type = sock[x].type, s.closing = sock[x].closing,
         sock' = [sock EXCEPT ![x] = s], UNCHANGED <<log, alloc, given, reserving>>,
         NEW n \in Nat, Kept(n), pipe' \in Seq(Requests), events' \in Seq(EventRecord)
  PROVE  SocketInv'
<1>1. sock \in [Server!Slot -> Sock]
  BY DEF SocketInv, SocketTypes
<1>2. /\ sock' \in [Server!Slot -> Sock] /\ \A y \in Server!Slot \ {x} : sock'[y] = sock[y]
      /\ sock'[x] = s
  BY <1>1
<1>3. Legal(x, s.type, s.closing, "none")
  BY NotTaken DEF Legal, SocketInv, Owners
<1>4. sock[x].type # "RESERVE" \/ s.type = "RESERVE"
  OBVIOUS
<1> QED
  BY <1>2, <1>3, <1>4, ChangeInv

LEMMA PeerKeeps == ASSUME SocketInv, NEW x \in Server!Slot, Server!PeerStep(x) PROVE SocketInv'
<1>1. /\ UNCHANGED <<alloc, given, reserving, pipe, events, log>>
      /\ Kept(0) /\ pipe' \in Seq(Requests) /\ events' \in Seq(EventRecord)
      /\ sock \in [Server!Slot -> Sock] /\ sock[x] \in Sock
  BY PipeKept DEF Server!PeerStep, Server!issued, SocketInv, SocketTypes
<1>2. ASSUME NEW p \in Peer, sock' = [sock EXCEPT ![x].peer = p] PROVE SocketInv'
  <2> DEFINE s == [sock[x] EXCEPT !.peer = p]
  <2>1. /\ s \in Sock /\ s.id = sock[x].id /\ s.type = sock[x].type /\ s.closing = sock[x].closing
        /\ sock' = [sock EXCEPT ![x] = s]
    BY <1>1, <1>2 DEF Sock
  <2> HIDE DEF s
  <2> QED
    BY <1>1, <2>1, QuietStep
<1>3. ASSUME sock' = [sock EXCEPT ![x].inbox = @ + 1] PROVE SocketInv'
  <2> DEFINE m == sock[x].inbox + 1
             s == [sock[x] EXCEPT !.inbox = m]
  <2>0. m \in Nat /\ sock' = [sock EXCEPT ![x] = s]
    BY <1>1, <1>3 DEF Sock
  <2> HIDE DEF m
  <2>1. /\ s \in Sock /\ s.id = sock[x].id /\ s.type = sock[x].type /\ s.closing = sock[x].closing
        /\ sock' = [sock EXCEPT ![x] = s]
    BY <1>1, <2>0 DEF Sock
  <2> HIDE DEF s
  <2> QED
    BY <1>1, <2>1, QuietStep
<1>4. {"up", "refused", "fin", "hup", "reset", "backlog"} \subseteq Peer
  BY DEF Peer
<1> QED
  BY <1>2, <1>3, <1>4 DEF Server!PeerStep

LEMMA EventInvalidStep == SocketInv /\ Server!EventInvalid => SocketInv'
  BY EventFacts, StayStep DEF Server!EventInvalid, Server!issued

LEMMA EventNullStep == SocketInv /\ Server!EventNull => SocketInv'
<1> SUFFICES ASSUME SocketInv, Server!EventNull PROVE SocketInv'
  OBVIOUS
<1>1. events \in Seq(EventRecord) /\ events # <<>> /\ events' = Tail(events)
      /\ pipe' = pipe /\ pipe \in Seq(Requests)
  BY DEF SocketInv, SocketTypes, Server!EventNull, Server!Handled
<1>2. events' \in Seq(EventRecord)
  BY <1>1, HeadTailProperties
<1> QED
  BY <1>1, <1>2, PipeKept, StayStep DEF SocketInv, Server!EventNull, Server!issued

LEMMA EventConnectingStep == SocketInv /\ Server!EventConnecting => SocketInv'
<1> SUFFICES ASSUME SocketInv, Server!EventConnecting PROVE SocketInv'
  OBVIOUS
<1> DEFINE free == [Server!S EXCEPT !.type = "INVALID", !.unsent = FALSE, !.peer = "none", !.inbox = 0]
           up == [Server!S EXCEPT !.type = "CONNECTED",
                    !.writing = Server!S.writing /\ ~Server!nomore_sending_data(Server!X)]
<1>1. /\ Server!Event({"CONNECTING"}) /\ UNCHANGED Server!issued /\ Server!Handled
      /\ {"OPEN", "ERR"} \subseteq Reports /\ "RESERVE" \notin {"CONNECTING"}
  BY DEF Server!EventConnecting, Reports
<1>2. /\ Server!S \in Sock /\ Server!X \in Server!Slot /\ Server!S = sock[Server!X]
      /\ Server!S.type = "CONNECTING"
  BY <1>1, EventFacts
<1>3. ~Taken(Server!X) /\ ~Server!S.closing
  BY <1>2, NotTaken DEF SocketInv, Owners
<1>4. /\ free \in Sock /\ free.id = Server!S.id /\ free.type = "INVALID" /\ free.closing = Server!S.closing
  BY <1>2 DEF Sock, SocketType, Peer
<1>5. (Server!S.writing /\ ~Server!nomore_sending_data(Server!X)) \in BOOLEAN
  OBVIOUS
<1>6. /\ up \in Sock /\ up.id = Server!S.id /\ up.type = "CONNECTED" /\ up.closing = Server!S.closing
  BY <1>2, <1>5 DEF Sock, SocketType
<1>7. CASE Server!S.peer = "refused"
  <2>1. sock' = [sock EXCEPT ![Server!X] = free] /\ Server!Report(Server!S.id, "ERR")
    BY <1>2, <1>7 DEF Server!EventConnecting, Server!ForceClose
  <2>2. Legal(Server!X, "INVALID", Server!S.closing, "ERR")
    BY <1>2, <1>3 DEF Legal
  <2> HIDE DEF free
  <2> QED
    BY <1>1, <1>4, <2>1, <2>2, EventStep
<1>8. CASE Server!S.peer # "refused"
  <2>1. sock' = [sock EXCEPT ![Server!X] = up] /\ Server!Report(Server!S.id, "OPEN")
    BY <1>8 DEF Server!EventConnecting
  <2>2. Legal(Server!X, "CONNECTED", Server!S.closing, "OPEN")
    BY <1>2, <1>3 DEF Legal
  <2> HIDE DEF up
  <2> QED
    BY <1>1, <1>6, <2>1, <2>2, EventStep
<1> QED
  BY <1>7, <1>8

\* Something waits to be sent on a socket whose slot is reserved again while its
\* event is handled: clear_closed_event has missed the event.
LateWrite == /\ events # <<>> /\ Server!E.slot # Server!NULL
             /\ Server!S.type = "RESERVE" /\ Server!S.unsent

LEMMA EventReservedStep == SocketInv /\ ~LateWrite /\ Server!EventReserved => SocketInv'
<1> SUFFICES ASSUME SocketInv, ~LateWrite, Server!EventReserved PROVE SocketInv'
  OBVIOUS
<1> DEFINE T == {"RESERVE"}
           s == [Server!S EXCEPT !.writing = FALSE]
<1>1. /\ Server!Event(T) /\ UNCHANGED Server!issued /\ Server!Handled /\ "ERR" \in Reports
  BY DEF Server!EventReserved, Reports
<1>2. /\ Server!S \in Sock /\ Server!X \in Server!Slot /\ Server!S = sock[Server!X]
      /\ Server!S.type = "RESERVE"
  BY <1>1, EventFacts
<1>3. ~Server!S.unsent
  BY <1>1, <1>2 DEF LateWrite, Server!Event, Server!E
<1>4. /\ s \in Sock /\ s.id = Server!S.id /\ s.type = Server!S.type /\ s.closing = Server!S.closing
      /\ sock = [sock EXCEPT ![Server!X] = Server!S]
  BY <1>2 DEF Sock, SocketInv, SocketTypes
<1>5. \/ Server!Report(Server!S.id, "ERR") /\ UNCHANGED sock
      \/ /\ sock' = [sock EXCEPT ![Server!X] = s]
         /\ Server!Report(Server!S.id, "ERR") \/ log' = log
  <2>1. [Server!S EXCEPT !.writing = FALSE,
                        !.type = IF Server!S.unsent THEN "HALFCLOSE_WRITE" ELSE Server!S.type] = s
    BY <1>2, <1>3 DEF Sock
  <2> HIDE DEF s
  <2> QED
    BY <2>1 DEF Server!EventReserved
<1> HIDE DEF s, T
<1>6. CASE Server!Report(Server!S.id, "ERR") /\ UNCHANGED sock
  BY <1>1, <1>2, <1>4, <1>6, EventTells
<1>7. CASE sock' = [sock EXCEPT ![Server!X] = s] /\ Server!Report(Server!S.id, "ERR")
  BY <1>1, <1>4, <1>7, EventTells
<1>8. CASE sock' = [sock EXCEPT ![Server!X] = s] /\ log' = log
  BY <1>1, <1>4, <1>8, EventQuiet
<1> QED
  BY <1>5, <1>6, <1>7, <1>8

LEMMA ClearStep == SocketInv /\ Server!Clear => SocketInv'
<1> SUFFICES ASSUME SocketInv, Server!Clear PROVE SocketInv'
  OBVIOUS
<1>1. events \in Seq(EventRecord) /\ pipe' = pipe /\ pipe \in Seq(Requests)
  BY DEF SocketInv, SocketTypes, Server!Clear
<1>2. DOMAIN events = 1 .. Len(events) /\ Len(events) \in Nat
  BY <1>1
<1>3. ASSUME NEW e \in EventRecord PROVE [e EXCEPT !.slot = Server!NULL] \in EventRecord
  BY <1>3 DEF EventRecord
<1>4. events' \in [1 .. Len(events) -> EventRecord]
  BY <1>1, <1>2, <1>3 DEF Server!Clear
<1>5. events' \in Seq(EventRecord)
  BY <1>2, <1>4
<1> QED
  BY <1>1, <1>5, PipeKept, StayStep DEF SocketInv, Server!Clear, Server!issued

LEMMA FetchStep == SocketInv /\ (Server!Fetch \/ Server!CtrlDone) => SocketInv'
<1> SUFFICES ASSUME SocketInv, Server!Fetch \/ Server!CtrlDone PROVE SocketInv'
  OBVIOUS
<1>1. /\ pipe' = pipe /\ pipe \in Seq(Requests) /\ events \in Seq(EventRecord)
      /\ sock \in [Server!Slot -> Sock] /\ UNCHANGED <<sock, log, alloc, given, reserving>>
  BY DEF SocketInv, SocketTypes, Server!Fetch, Server!CtrlDone, Server!issued
<1>2. ASSUME NEW x \in Server!Slot PROVE Server!EventOf(x) \in EventRecord
  <2>1. sock[x].id \in 0 .. MaxSocket
    BY <1>1 DEF Sock
  <2>2. \A a, b, c, d \in BOOLEAN :
           [slot |-> x, id |-> sock[x].id, read |-> a, write |-> b, error |-> c, eof |-> d] \in EventRecord
    BY <2>1 DEF EventRecord
  <2> DEFINE s == sock[x]
             a == s.reading /\ (s.inbox > 0 \/ s.peer \in {"fin", "hup", "reset", "refused", "backlog"})
             b == s.writing /\ s.peer \in {"up", "fin", "hup", "reset", "refused"}
             c == s.peer \in {"reset", "refused"}
             d == \/ s.peer \in {"hup", "reset", "refused"}
                  \/ s.peer = "fin" /\ s.type = "HALFCLOSE_WRITE"
  <2>3. a \in BOOLEAN /\ b \in BOOLEAN /\ c \in BOOLEAN /\ d \in BOOLEAN
    OBVIOUS
  <2>4. Server!EventOf(x) =
           [slot |-> x, id |-> s.id, read |-> a, write |-> b, error |-> c, eof |-> d]
    BY DEF Server!EventOf
  <2> HIDE DEF a, b, c, d
  <2> QED
    BY <2>2, <2>3, <2>4
<1>3. CASE Server!Fetch
  <2>1. PICK n \in 0 .. Slots : \E order \in Server!Bijection(1 .. n, Server!Ready) :
              events' = [k \in DOMAIN order |-> Server!EventOf(order[k])]
    BY <1>3 DEF Server!Fetch
  <2>2. PICK order \in [1 .. n -> Server!Ready] : events' = [k \in DOMAIN order |-> Server!EventOf(order[k])]
    BY <2>1 DEF Server!Bijection, Server!Injection
  <2>3. \A k \in 1 .. n : order[k] \in Server!Slot
    BY <2>2 DEF Server!Ready
  <2>4. events' \in [1 .. n -> EventRecord]
    BY <2>2, <2>3, <1>2
  <2>5. n \in Nat
    BY SlotFacts
  <2>6. events' \in Seq(EventRecord)
    BY <2>4, <2>5
  <2> QED
    BY <1>1, <2>6, PipeKept, StayStep DEF SocketInv
<1>4. CASE Server!CtrlDone
  BY <1>1, <1>4, PipeKept, StayStep DEF SocketInv, Server!CtrlDone
<1> QED
  BY <1>3, <1>4


\* What a command may do to the socket it is for.
LEMMA CommandStep ==
  ASSUME SocketInv, NEW T, Server!Take(T), NEW t, NEW c, NEW r, NEW s \in Sock,
         Legal(Server!ArgSlot, t, c, r), s.id = sock[Server!ArgSlot].id, s.type = t, s.closing = c,
         sock[Server!ArgSlot].id = Server!Arg,
         sock' = [sock EXCEPT ![Server!ArgSlot] = s],
         IF r = "none" THEN log' = log ELSE r \in Reports /\ Server!Report(Server!Arg, r),
         T \subseteq {"O", "L"} \/ sock[Server!ArgSlot].type # "RESERVE" \/ t = "RESERVE"
  PROVE  SocketInv'
<1>1. /\ Server!ArgSlot \in Server!Slot /\ Kept(1) /\ pipe' \in Seq(Requests)
      /\ UNCHANGED <<alloc, given, reserving>> /\ events' \in Seq(EventRecord)
      /\ sock \in [Server!Slot -> Sock]
      /\ T \subseteq {"O", "L"} =>
            \A k \in DOMAIN pipe' : Opens(pipe'[k]) => pipe'[k][2] # Server!Arg
  BY TakeFacts
<1>2. PICK x \in Server!Slot : x = Server!ArgSlot
  BY <1>1
<1>3. /\ sock' \in [Server!Slot -> Sock] /\ \A y \in Server!Slot \ {x} : sock'[y] = sock[y]
      /\ sock'[x] = s /\ sock[x].id = Server!Arg
  BY <1>1, <1>2
<1>4. sock[x].type # "RESERVE" \/ t = "RESERVE"
         \/ \A k \in DOMAIN pipe' : Opens(pipe'[k]) => pipe'[k][2] # sock[x].id
  BY <1>1, <1>2, <1>3
<1>5. Legal(x, t, c, r)
  BY <1>2 DEF Legal, Taken
<1>6. IF r = "none" THEN log' = log ELSE r \in Reports /\ Server!Report(sock[x].id, r)
  BY <1>3
<1> QED
  BY <1>1, <1>2, <1>3, <1>4, <1>5, <1>6, ChangeInv

LEMMA OpenStep == SocketInv /\ Server!Open => SocketInv'
<1> SUFFICES ASSUME SocketInv, Server!Open PROVE SocketInv'
  OBVIOUS
<1> DEFINE free == [sock[Server!ArgSlot] EXCEPT !.type = "INVALID"]
           up == Server!NewFd(Server!Arg, "CONNECTED", "up", TRUE, FALSE)
           wait == Server!NewFd(Server!Arg, "CONNECTING", "pending", TRUE, TRUE)
           T == {"O"}
<1>1. Server!Take(T) /\ {"OPEN", "ERR"} \subseteq Reports
  BY DEF Server!Open, Reports
<1>0. T \subseteq {"O", "L"}
  OBVIOUS
<1> HIDE DEF T
<1>2. /\ Server!Arg \in Server!Ids /\ sock[Server!ArgSlot] \in Sock
      /\ sock \in [Server!Slot -> Sock] /\ Server!ArgSlot \in Server!Slot
      /\ sock[Server!ArgSlot].id = Server!Arg /\ ~Taken(Server!ArgSlot)
      /\ sock[Server!ArgSlot].type = "RESERVE"
  BY <1>0, <1>1, TakeFacts
<1>3. /\ up \in Sock /\ up.id = Server!Arg /\ up.type = "CONNECTED" /\ up.closing = FALSE
      /\ wait \in Sock /\ wait.id = Server!Arg /\ wait.type = "CONNECTING" /\ wait.closing = FALSE
  BY <1>2, SlotFacts DEF Server!NewFd, Server!Free, Sock, SocketType, Peer
<1>4. /\ free \in Sock /\ free.id = Server!Arg /\ free.type = "INVALID"
      /\ free.closing = sock[Server!ArgSlot].closing
  BY <1>2 DEF Sock, SocketType
<1> HIDE DEF free, up, wait
<1>5. CASE sock' = [sock EXCEPT ![Server!ArgSlot] = up] /\ Server!Report(Server!Arg, "OPEN")
  <2>1. Legal(Server!ArgSlot, "CONNECTED", FALSE, "OPEN")
    BY <1>2 DEF Legal
  <2> QED
    BY <1>0, <1>1, <1>2, <1>3, <1>5, <2>1, CommandStep
<1>6. CASE sock' = [sock EXCEPT ![Server!ArgSlot] = wait] /\ log' = log
  <2>1. Legal(Server!ArgSlot, "CONNECTING", FALSE, "none")
    BY <1>2 DEF Legal
  <2> QED
    BY <1>0, <1>1, <1>2, <1>3, <1>6, <2>1, CommandStep
<1>7. CASE sock' = [sock EXCEPT ![Server!ArgSlot] = free] /\ Server!Report(Server!Arg, "ERR")
  <2>1. Legal(Server!ArgSlot, "INVALID", sock[Server!ArgSlot].closing, "ERR")
    BY <1>2 DEF Legal
  <2> QED
    BY <1>0, <1>1, <1>2, <1>4, <1>7, <2>1, CommandStep
<1> QED
  BY <1>5, <1>6, <1>7 DEF Server!Open, free, up, wait

LEMMA ListenStep == SocketInv /\ Server!Listen => SocketInv'
<1> SUFFICES ASSUME SocketInv, Server!Listen PROVE SocketInv'
  OBVIOUS
<1> DEFINE s == Server!NewFd(Server!Arg, "PLISTEN", "quiet", FALSE, FALSE)
           T == {"L"}
<1>1. Server!Take(T) /\ sock' = [sock EXCEPT ![Server!ArgSlot] = s] /\ log' = log
  BY DEF Server!Listen
<1>0. T \subseteq {"O", "L"}
  OBVIOUS
<1> HIDE DEF T
<1>2. /\ Server!Arg \in Server!Ids
      /\ sock[Server!ArgSlot].id = Server!Arg /\ ~Taken(Server!ArgSlot)
      /\ sock[Server!ArgSlot].type = "RESERVE"
  BY <1>0, <1>1, TakeFacts
<1>3. s \in Sock /\ s.id = Server!Arg /\ s.type = "PLISTEN" /\ s.closing = FALSE
  <2>0. Server!Free = [id |-> 0, type |-> "INVALID", tcp |-> FALSE, closing |-> FALSE,
                        reading |-> FALSE, writing |-> FALSE, unsent |-> FALSE,
                        peer |-> "none", inbox |-> 0]
    BY DEF Server!Free
  <2>3. s = [Server!Free EXCEPT !.id = Server!Arg, !.type = "PLISTEN", !.tcp = TRUE,
                                !.peer = "quiet", !.reading = FALSE, !.writing = FALSE]
    BY DEF Server!NewFd
  <2> HIDE DEF s
  <2>1. s = [id |-> Server!Arg, type |-> "PLISTEN", tcp |-> TRUE, closing |-> FALSE, reading |-> FALSE,
             writing |-> FALSE, unsent |-> FALSE, peer |-> "quiet", inbox |-> 0]
    BY <2>0, <2>3
  <2>2. Server!Arg \in 0 .. MaxSocket
    BY <1>2, SlotFacts
  <2> QED
    BY <2>1, <2>2 DEF Sock, SocketType, Peer
<1> HIDE DEF s
<1>4. Legal(Server!ArgSlot, "PLISTEN", FALSE, "none")
  BY <1>2 DEF Legal
<1> QED
  BY <1>0, <1>1, <1>2, <1>3, <1>4, CommandStep

LEMMA CloseStep == SocketInv /\ Server!Close => SocketInv'
<1> SUFFICES ASSUME SocketInv, Server!Close PROVE SocketInv'
  OBVIOUS
<1> DEFINE x == Server!ArgSlot
           free == [sock[x] EXCEPT !.type = "INVALID", !.unsent = FALSE, !.peer = "none", !.inbox = 0]
           half == [sock[x] EXCEPT !.closing = TRUE, !.type = "HALFCLOSE_READ", !.reading = FALSE]
           T == {"K", "X"}
<1>1. Server!Take(T) /\ "CLOSE" \in Reports
  BY DEF Server!Close, Reports
<1> HIDE DEF T
<1>2. /\ Server!Arg \in Server!Ids /\ Server!ArgSlot \in Server!Slot
      /\ Server!ArgSlot = Server!HASH_ID(Server!Arg)
      /\ Kept(1) /\ pipe' \in Seq(Requests)
      /\ UNCHANGED <<alloc, given, reserving>> /\ events' \in Seq(EventRecord)
      /\ sock \in [Server!Slot -> Sock] /\ sock[Server!ArgSlot] \in Sock
  BY <1>1, TakeFacts
<1>3. CASE UNCHANGED <<sock, log>>
  BY <1>2, <1>3, StayStep
<1>4. CASE ~Server!socket_invalid(Server!Arg)
  <2>1. sock[x].id = Server!Arg /\ sock[x].type # "INVALID"
    BY <1>2, <1>4 DEF Server!socket_invalid
  <2>2. /\ sock[x].type # "RESERVE"
        /\ \/ Server!ForceClose(x)
           \/ sock' = [sock EXCEPT ![x] =
                  [@ EXCEPT !.closing = TRUE, !.type = "HALFCLOSE_READ", !.reading = FALSE]]
        /\ IF sock[x].type = "HALFCLOSE_READ" THEN log' = log ELSE Server!Report(Server!Arg, "CLOSE")
    BY <1>4 DEF Server!Close
  <2>3. ~Taken(x)
    BY <1>2, <2>2, NotTaken
  <2>4. /\ free \in Sock /\ free.id = sock[x].id /\ free.type = "INVALID" /\ free.closing = sock[x].closing
        /\ half \in Sock /\ half.id = sock[x].id /\ half.type = "HALFCLOSE_READ" /\ half.closing = TRUE
    BY <1>2 DEF Sock, SocketType, Peer
  <2>5. sock' = [sock EXCEPT ![x] = free] \/ sock' = [sock EXCEPT ![x] = half]
    BY <2>2 DEF Server!ForceClose
  <2> HIDE DEF free, half
  <2>6. CASE sock[x].type = "HALFCLOSE_READ"
    <3>1. Legal(x, "INVALID", sock[x].closing, "none") /\ Legal(x, "HALFCLOSE_READ", TRUE, "none")
      BY <2>3, <2>6 DEF Legal
    <3>2. log' = log
      BY <2>2, <2>6
    <3>3. CASE sock' = [sock EXCEPT ![x] = free]
      BY <1>1, <2>1, <2>2, <2>4, <3>1, <3>2, <3>3, CommandStep
    <3>4. CASE sock' = [sock EXCEPT ![x] = half]
      BY <1>1, <2>1, <2>2, <2>4, <3>1, <3>2, <3>4, CommandStep
    <3> QED
      BY <2>5, <3>3, <3>4
  <2>7. CASE sock[x].type # "HALFCLOSE_READ"
    <3>1. Legal(x, "INVALID", sock[x].closing, "CLOSE") /\ Legal(x, "HALFCLOSE_READ", TRUE, "CLOSE")
      BY <2>1, <2>3, <2>7 DEF Legal
    <3>2. Server!Report(Server!Arg, "CLOSE")
      BY <2>2, <2>7
    <3>3. CASE sock' = [sock EXCEPT ![x] = free]
      BY <1>1, <2>1, <2>2, <2>4, <3>1, <3>2, <3>3, CommandStep
    <3>4. CASE sock' = [sock EXCEPT ![x] = half]
      BY <1>1, <2>1, <2>2, <2>4, <3>1, <3>2, <3>4, CommandStep
    <3> QED
      BY <2>5, <3>3, <3>4
  <2> QED
    BY <2>6, <2>7
<1> QED
  BY <1>3, <1>4 DEF Server!Close

LEMMA ResumeStep == SocketInv /\ Server!Resume => SocketInv'
<1> SUFFICES ASSUME SocketInv, Server!Resume PROVE SocketInv'
  OBVIOUS
<1> DEFINE x == Server!ArgSlot
           type0 == sock[x].type
           t == CASE type0 = "PACCEPT" -> "CONNECTED" [] type0 = "PLISTEN" -> "LISTEN" [] OTHER -> type0
           s == [sock[x] EXCEPT !.reading = TRUE, !.type = t]
           T == {"R"}
<1>1. Server!Take(T) /\ {"OPEN", "ERR"} \subseteq Reports
  BY DEF Server!Resume, Reports
<1> HIDE DEF T
<1>2. /\ Server!Arg \in Server!Ids /\ Server!ArgSlot \in Server!Slot
      /\ Server!ArgSlot = Server!HASH_ID(Server!Arg)
      /\ Kept(1) /\ pipe' \in Seq(Requests)
      /\ UNCHANGED <<alloc, given, reserving>> /\ events' \in Seq(EventRecord)
      /\ sock \in [Server!Slot -> Sock] /\ sock[Server!ArgSlot] \in Sock
  BY <1>1, TakeFacts
<1>3. CASE UNCHANGED sock /\ Server!Report(Server!Arg, "ERR")
  BY <1>2, <1>3, ErrorStep
<1>4. CASE ~Server!socket_invalid(Server!Arg) /\ type0 # "HALFCLOSE_READ"
  <2>1. sock[x].id = Server!Arg /\ type0 # "INVALID"
    BY <1>2, <1>4 DEF Server!socket_invalid
  <2>2. /\ sock' = [sock EXCEPT ![x] = s]
        /\ IF type0 \in {"PACCEPT", "PLISTEN", "CONNECTED"}
           THEN Server!Report(Server!Arg, "OPEN") ELSE log' = log
    BY <1>4 DEF Server!Resume
  <2>3. type0 \in SocketType
    BY <1>2 DEF Sock
  <2>4. t \in SocketType /\ (type0 \notin {"PACCEPT", "PLISTEN"} => t = type0)
        /\ (type0 \in {"PACCEPT", "PLISTEN"} => t \in {"CONNECTED", "LISTEN"})
    BY <2>3 DEF SocketType
  <2> HIDE DEF t
  <2>5. s \in Sock /\ s.id = sock[x].id /\ s.type = t /\ s.closing = sock[x].closing
    BY <1>2, <2>4 DEF Sock
  <2> HIDE DEF s
  <2>6. CASE type0 \in {"PACCEPT", "PLISTEN", "CONNECTED"}
    <3>1. t \in {"CONNECTED", "LISTEN"} /\ Server!Report(Server!Arg, "OPEN")
      BY <2>2, <2>4, <2>6
    <3>2. ~Taken(x)
      BY <1>2, <2>6, NotTaken
    <3>3. ~sock[x].closing
      BY <1>2, <2>6 DEF SocketInv, Owners
    <3>4. Legal(x, t, sock[x].closing, "OPEN")
      BY <2>6, <3>1, <3>2, <3>3 DEF Legal
    <3>5. sock[x].type # "RESERVE"
      BY <2>6
    <3> QED
      BY <1>1, <2>1, <2>2, <2>5, <3>1, <3>4, <3>5, CommandStep
  <2>7. CASE type0 \notin {"PACCEPT", "PLISTEN", "CONNECTED"}
    <3>1. s.type = sock[x].type /\ log' = log
      BY <2>2, <2>4, <2>5, <2>7
    <3> QED
      BY <1>2, <2>2, <2>5, <3>1, QuietStep
  <2> QED
    BY <2>6, <2>7
<1> QED
  BY <1>3, <1>4 DEF Server!Resume

LEMMA PauseStep == SocketInv /\ (Server!Pause \/ Server!Send) => SocketInv'
<1> SUFFICES ASSUME SocketInv, Server!Pause \/ Server!Send PROVE SocketInv'
  OBVIOUS
<1> DEFINE x == Server!ArgSlot
           s == [sock[x] EXCEPT !.reading = FALSE]
           u == [sock[x] EXCEPT !.unsent = TRUE, !.writing = TRUE]
<1>1. (\E T \in {{"S"}, {"D"}} : Server!Take(T)) /\ log' = log
  BY DEF Server!Pause, Server!Send
<1>2. /\ Server!ArgSlot \in Server!Slot
      /\ Kept(1) /\ pipe' \in Seq(Requests)
      /\ UNCHANGED <<alloc, given, reserving>> /\ events' \in Seq(EventRecord)
      /\ sock \in [Server!Slot -> Sock] /\ sock[Server!ArgSlot] \in Sock
  BY <1>1, TakeFacts
<1>3. /\ s \in Sock /\ s.id = sock[x].id /\ s.type = sock[x].type /\ s.closing = sock[x].closing
      /\ u \in Sock /\ u.id = sock[x].id /\ u.type = sock[x].type /\ u.closing = sock[x].closing
  BY <1>2 DEF Sock
<1>4. \/ sock' = sock \/ sock' = [sock EXCEPT ![x] = s] \/ sock' = [sock EXCEPT ![x] = u]
  BY <1>2 DEF Server!Pause, Server!Send, Sock
<1> HIDE DEF s, u
<1>5. CASE sock' = sock
  BY <1>1, <1>2, <1>5, StayStep
<1>6. CASE sock' = [sock EXCEPT ![x] = s]
  BY <1>1, <1>2, <1>3, <1>6, QuietStep
<1>7. CASE sock' = [sock EXCEPT ![x] = u]
  BY <1>1, <1>2, <1>3, <1>7, QuietStep
<1> QED
  BY <1>4, <1>5, <1>6, <1>7

\* A worker that gets a free slot: the socket that had it is at its end.
LEMMA IdFacts ==
  ASSUME SocketInv, NEW i \in Server!NextId
  PROVE  /\ i \in Server!Ids /\ i \in 0 .. MaxSocket /\ i > alloc /\ i \notin given
         /\ Server!HASH_ID(i) \in Server!Slot
         /\ sock[Server!HASH_ID(i)].type = "INVALID" /\ ~Taken(Server!HASH_ID(i)) /\ ~Has(i)
         /\ ~Server!Reported(i, "OPEN") /\ ~Server!Reported(i, "CLOSE")
         /\ given \cup {i} \subseteq 1 .. i /\ i # reserving.id
         /\ \A k \in DOMAIN pipe : pipe[k][2] # i
<1>1. /\ alloc \in 0 .. MaxSocket /\ given \subseteq 1 .. alloc
      /\ \A k \in DOMAIN pipe : pipe[k] \in Requests /\ pipe[k][2] <= alloc
  BY DEF SocketInv, SocketTypes
<1>2. i \in alloc + 1 .. MaxSocket /\ sock[Server!HASH_ID(i)].type = "INVALID"
  BY DEF Server!NextId
<1>3. i \in Server!Ids /\ i \in 0 .. MaxSocket /\ i > alloc /\ i \notin given /\ given \cup {i} \subseteq 1 .. i
  BY <1>1, <1>2, SlotFacts
<1>4. Server!HASH_ID(i) \in Server!Slot
  BY <1>3, SlotFacts
<1>5. ~Taken(Server!HASH_ID(i))
  BY <1>2, <1>4, NotTaken
<1>6. ~Has(i)
  BY <1>3, <1>4 DEF SocketInv, Owners, Has
<1>7. ~Server!Reported(i, "OPEN") /\ ~Server!Reported(i, "CLOSE")
  BY <1>3 DEF SocketInv, Logs
<1>8. i # reserving.id
  <2>1. CASE reserving = Server!NoReserve
    BY <1>1, <1>3, <2>1 DEF Server!NoReserve
  <2>2. CASE reserving # Server!NoReserve
    BY <1>3, <2>2 DEF SocketInv, Reserves
  <2> QED
    BY <2>1, <2>2
<1>9. ASSUME NEW k \in DOMAIN pipe PROVE pipe[k][2] # i
  <2>1. pipe[k][2] \in Server!Ids /\ pipe[k][2] <= alloc
    BY <1>1 DEF Requests
  <2> QED
    BY <1>1, <1>3, <2>1, SlotFacts
<1> QED
  BY <1>2, <1>3, <1>4, <1>5, <1>6, <1>7, <1>8, <1>9

LEMMA ReserveStep == ASSUME SocketInv, NEW cmd \in {"O", "L"}, Server!Reserve(cmd) PROVE SocketInv'
<1>1. PICK i \in Server!NextId :
         /\ alloc' = i /\ given' = given \cup {i}
         /\ reserving' = [slot |-> Server!HASH_ID(i), id |-> i, cmd |-> cmd]
         /\ sock' = [sock EXCEPT ![Server!HASH_ID(i)].type = "RESERVE"]
  BY DEF Server!Reserve
<1> DEFINE x == Server!HASH_ID(i)
<1>2. reserving = Server!NoReserve /\ UNCHANGED <<pipe, events, log>>
  BY DEF Server!Reserve
<1>3. /\ i \in Server!Ids /\ i \in 0 .. MaxSocket /\ i > alloc /\ i \notin given /\ x \in Server!Slot
      /\ sock[x].type = "INVALID" /\ ~Has(i)
      /\ ~Server!Reported(i, "OPEN") /\ ~Server!Reported(i, "CLOSE")
      /\ given \cup {i} \subseteq 1 .. i /\ i # reserving.id
      /\ \A k \in DOMAIN pipe : pipe[k][2] # i
  BY <1>1, IdFacts
<1>4. /\ sock \in [Server!Slot -> Sock] /\ pipe \in Seq(Requests) /\ given \subseteq 1 .. alloc
      /\ \A k \in DOMAIN pipe : pipe[k][2] \in Server!Ids /\ pipe[k][2] <= alloc
      /\ alloc \in 0 .. MaxSocket /\ i \in Nat
  BY <1>3 DEF SocketInv, SocketTypes, Requests
<1>5. reserving.id = 0 /\ reserving'.id = i /\ reserving'.slot = x /\ reserving'.cmd = cmd
      /\ reserving' # Server!NoReserve /\ 0 \notin given
  BY <1>1, <1>2, <1>3, <1>4, SlotFacts DEF Server!NoReserve
<1> HIDE DEF x
<1>6. /\ sock' \in [Server!Slot -> Sock] /\ sock'[x].type = "RESERVE"
      /\ sock'[x].id = sock[x].id /\ sock'[x].closing = sock[x].closing
      /\ \A y \in Server!Slot \ {x} : sock'[y] = sock[y]
  <2>1. sock' = [sock EXCEPT ![x].type = "RESERVE"]
    BY <1>1 DEF x
  <2> QED
    BY <1>3, <1>4, <2>1 DEF Sock, SocketType
<1>7. \A y : ~Taken(y) /\ (Taken(y)' <=> y = x)
  BY <1>2, <1>5 DEF Taken
<1>8. \A j \in Server!Ids : /\ j # i => (j \in given' \ {reserving'.id} <=> j \in given \ {reserving.id})
                            /\ Has(j)' <=> Has(j) /\ Server!HASH_ID(j) # x
                            /\ Server!HASH_ID(j) # x => Type(j)' = Type(j)
  <2> TAKE j \in Server!Ids
  <2>1. Server!HASH_ID(j) \in Server!Slot /\ j # 0
    BY <1>3, SlotFacts
  <2>2. sock'[Server!HASH_ID(j)].id = sock[Server!HASH_ID(j)].id
    BY <1>6, <2>1
  <2>3. Has(j)' <=> Has(j) /\ Server!HASH_ID(j) # x
    BY <1>7, <2>2 DEF Has
  <2>4. Server!HASH_ID(j) # x => Type(j)' = Type(j)
    BY <1>6, <2>1 DEF Type
  <2> QED
    BY <1>1, <1>5, <2>1, <2>3, <2>4
<1>9. SocketTypes'
  <2>1. alloc' \in 0 .. MaxSocket /\ given' \subseteq 1 .. alloc'
    BY <1>1, <1>3
  <2>2. \A k \in DOMAIN pipe' : pipe'[k][2] <= alloc'
    BY <1>1, <1>2, <1>3, <1>4, SlotFacts
  <2> QED
    BY <1>2, <1>6, <2>1, <2>2 DEF SocketInv, SocketTypes
<1>10. Owners'
  <2> SUFFICES ASSUME NEW y \in Server!Slot
               PROVE  /\ sock'[y].id # 0 => /\ sock'[y].id \in given' \ {reserving'.id}
                                            /\ Server!HASH_ID(sock'[y].id) = y
                      /\ sock'[y].id = 0 => sock'[y].type = "INVALID" \/ Taken(y)'
                      /\ sock'[y].closing => sock'[y].type \in {"INVALID", "RESERVE", "HALFCLOSE_READ"}
    BY DEF Owners
  <2>1. sock'[y].id = sock[y].id /\ sock'[y].closing = sock[y].closing
    BY <1>6
  <2>2. sock[y].id # 0 => sock[y].id \in given /\ Server!HASH_ID(sock[y].id) = y
    BY DEF SocketInv, Owners
  <2>3. sock[y].id # 0 => sock[y].id \in given' \ {reserving'.id}
    BY <1>1, <1>3, <1>5, <2>2
  <2>4. CASE y = x
    BY <1>6, <1>7, <2>1, <2>2, <2>3, <2>4
  <2>5. CASE y # x
    BY <1>6, <1>7, <2>1, <2>2, <2>3, <2>5 DEF SocketInv, Owners
  <2> QED
    BY <2>4, <2>5
<1>11. Reserves'
  <2>1. i \in given' /\ Server!HASH_ID(i) = x
    BY <1>1 DEF x
  <2> QED
    BY <1>2, <1>3, <1>5, <1>6, <2>1 DEF Reserves
<1>12. Commands'
  <2>1. ASSUME NEW k \in DOMAIN pipe, Opens(pipe[k])
        PROVE  /\ Has(pipe[k][2])' /\ Type(pipe[k][2])' = "RESERVE"
               /\ \A j \in DOMAIN pipe : Opens(pipe[j]) /\ pipe[j][2] = pipe[k][2] => j = k
    <3>1. /\ Has(pipe[k][2]) /\ Type(pipe[k][2]) = "RESERVE" /\ pipe[k][2] \in Server!Ids
          /\ \A j \in DOMAIN pipe : Opens(pipe[j]) /\ pipe[j][2] = pipe[k][2] => j = k
      BY <1>4, <2>1 DEF SocketInv, Commands
    <3>2. PICK h \in Server!Ids : h = pipe[k][2]
      BY <3>1
    <3>3. Has(h) /\ Type(h) = "RESERVE" /\ Server!HASH_ID(h) # x
      BY <1>3, <3>1, <3>2 DEF Type
    <3>4. Has(h)' /\ Type(h)' = "RESERVE"
      BY <1>8, <3>3
    <3> QED
      BY <1>2, <3>1, <3>2, <3>4 DEF Has, Type, Taken
  <2> QED
    BY <1>2, <2>1 DEF Commands, Opens, Has, Type, Taken
<1>13. Logs' /\ Server!CloseOnce'
  <2> SUFFICES ASSUME NEW j \in Server!Ids
        PROVE
        /\ Server!Reported(j, "OPEN") \/ Server!Reported(j, "CLOSE") => j \in given' \ {reserving'.id}
        /\ Has(j)' /\ Type(j)' \in {"RESERVE", "CONNECTING"} => ~Server!Reported(j, "OPEN")
        /\ Has(j)' /\ Server!Reported(j, "CLOSE") => Type(j)' \in {"INVALID", "HALFCLOSE_READ"}
        /\ Has(j)' /\ Type(j)' = "HALFCLOSE_READ" => Server!Reported(j, "CLOSE")
        /\ j \in given' \ {reserving'.id} /\ ~(Has(j)' /\ Type(j)' # "INVALID") =>
              \/ Server!Reported(j, "CLOSE")
              \/ Server!Reported(j, "ERR") /\ ~Server!Reported(j, "OPEN")
    BY <1>2 DEF Logs, Server!Reported, Server!CloseOnce, SocketInv
  <2>1. CASE j = i
    <3>1. ~Has(j)' /\ j \notin given' \ {reserving'.id}
      BY <1>3, <1>5, <1>8, <2>1
    <3> QED
      BY <1>3, <2>1, <3>1
  <2>2. CASE j # i /\ Server!HASH_ID(j) # x
    BY <1>8, <2>2 DEF SocketInv, Logs
  <2>3. CASE j # i /\ Server!HASH_ID(j) = x
    <3>1. ~Has(j)' /\ (j \in given' \ {reserving'.id} <=> j \in given \ {reserving.id})
      BY <1>8, <2>3
    <3>2. Type(j) = "INVALID"
      BY <1>3, <2>3 DEF Type
    <3> QED
      BY <3>1, <3>2 DEF SocketInv, Logs
  <2> QED
    BY <2>1, <2>2, <2>3
<1> QED
  BY <1>9, <1>10, <1>11, <1>12, <1>13 DEF SocketInv

\* A command that joins the others.
LEMMA PipeGrows ==
  ASSUME SocketInv, NEW c \in Requests, pipe' = Append(pipe, c)
  PROVE  /\ pipe' \in Seq(Requests) /\ DOMAIN pipe' = DOMAIN pipe \cup {Len(pipe) + 1}
         /\ \A k \in DOMAIN pipe : pipe'[k] = pipe[k]
         /\ Len(pipe) + 1 \notin DOMAIN pipe /\ pipe'[Len(pipe) + 1] = c
<1>1. pipe \in Seq(Requests)
  BY DEF SocketInv, SocketTypes
<1>2. DOMAIN pipe = 1 .. Len(pipe) /\ Len(pipe) \in Nat
  BY <1>1
<1> QED
  BY <1>1, <1>2, AppendProperties

LEMMA ReservedStep == SocketInv /\ Server!Reserved => SocketInv'
<1> SUFFICES ASSUME SocketInv, Server!Reserved PROVE SocketInv'
  OBVIOUS
<1>0. PICK x, i : x = reserving.slot /\ i = reserving.id
  OBVIOUS
<1> DEFINE s == [sock[x] EXCEPT !.id = i, !.tcp = FALSE]
           c == <<reserving.cmd, i>>
<1>1. /\ reserving # Server!NoReserve /\ reserving' = Server!NoReserve
      /\ pipe' = Append(pipe, c) /\ UNCHANGED <<alloc, given, events, log>>
  BY <1>0 DEF Server!Reserved, Server!issued
<1>2. /\ sock \in [Server!Slot -> Sock] /\ alloc \in 0 .. MaxSocket /\ given \subseteq 1 .. alloc
      /\ \A k \in DOMAIN pipe : pipe[k][2] \in Server!Ids /\ pipe[k][2] <= alloc
  BY DEF SocketInv, SocketTypes, Requests
<1>3. /\ x \in Server!Slot /\ i \in given /\ reserving.cmd \in {"O", "L"} /\ Server!HASH_ID(i) = x
      /\ sock[x].type = "RESERVE" /\ \A k \in DOMAIN pipe : pipe[k][2] # i
  BY <1>0, <1>1 DEF SocketInv, Reserves
<1>4. i \in Server!Ids /\ i \in 0 .. MaxSocket /\ i # 0 /\ i <= alloc /\ c \in Requests
  <2>1. i \in Server!Ids /\ i \in 0 .. MaxSocket /\ i # 0 /\ i <= alloc
    BY <1>2, <1>3, SlotFacts
  <2> QED
    BY <1>3, <2>1 DEF Requests
<1>5. /\ s \in Sock /\ s.id = i /\ s.type = "RESERVE" /\ s.closing = sock[x].closing
      /\ sock' = [sock EXCEPT ![x] = s]
  BY <1>0, <1>2, <1>3, <1>4 DEF Sock, Server!Reserved
<1>6. /\ pipe' \in Seq(Requests) /\ DOMAIN pipe' = DOMAIN pipe \cup {Len(pipe) + 1}
      /\ \A k \in DOMAIN pipe : pipe'[k] = pipe[k]
      /\ Len(pipe) + 1 \notin DOMAIN pipe /\ pipe'[Len(pipe) + 1] = c
  BY <1>1, <1>4, PipeGrows
<1>7. Taken(x) /\ (\A y : Taken(y) => y = x) /\ (\A y : ~Taken(y)') /\ reserving'.id = 0
  BY <1>0, <1>1 DEF Taken, Server!NoReserve
<1> HIDE DEF s
<1>8. /\ sock' \in [Server!Slot -> Sock] /\ sock'[x] = s
      /\ \A y \in Server!Slot \ {x} : sock'[y] = sock[y]
  BY <1>2, <1>3, <1>5
<1>9. \A j \in Server!Ids :
         /\ j # 0 /\ Server!HASH_ID(j) \in Server!Slot
         /\ Server!HASH_ID(j) # x => (Has(j)' <=> Has(j)) /\ Type(j)' = Type(j)
         /\ Server!HASH_ID(j) = x => ~Has(j) /\ (Has(j)' <=> j = i)
  <2> TAKE j \in Server!Ids
  <2>1. Server!HASH_ID(j) \in Server!Slot /\ j # 0
    BY SlotFacts
  <2>2. Server!HASH_ID(j) # x => (Has(j)' <=> Has(j)) /\ Type(j)' = Type(j)
    BY <1>7, <1>8, <2>1 DEF Has, Type
  <2>3. Server!HASH_ID(j) = x => ~Has(j) /\ (Has(j)' <=> j = i)
    BY <1>5, <1>7, <1>8, <2>1 DEF Has
  <2> QED
    BY <2>1, <2>2, <2>3
<1>10. \A k \in DOMAIN pipe' : pipe'[k][2] <= alloc
  BY <1>2, <1>4, <1>6
<1>11. SocketTypes'
  BY <1>1, <1>6, <1>8, <1>10 DEF SocketInv, SocketTypes
<1>12. Owners'
  <2> SUFFICES ASSUME NEW y \in Server!Slot
               PROVE  /\ sock'[y].id # 0 => sock'[y].id \in given \ {0} /\ Server!HASH_ID(sock'[y].id) = y
                      /\ sock'[y].id = 0 => sock'[y].type = "INVALID"
                      /\ sock'[y].closing => sock'[y].type \in {"INVALID", "RESERVE", "HALFCLOSE_READ"}
    BY <1>1, <1>7 DEF Owners
  <2>1. CASE y = x
    BY <1>3, <1>4, <1>5, <1>8, <2>1
  <2>2. CASE y # x
    BY <1>7, <1>8, <2>2 DEF SocketInv, Owners
  <2> QED
    BY <2>1, <2>2
<1>13. Reserves'
  BY <1>1 DEF Reserves
<1>14. Commands'
  <2>1. Has(i)' /\ Type(i)' = "RESERVE"
    BY <1>3, <1>4, <1>5, <1>8, <1>9 DEF Type
  <2>2. ASSUME NEW k \in DOMAIN pipe', NEW h \in Server!Ids, h = pipe'[k][2], Opens(pipe'[k])
        PROVE  /\ Has(h)' /\ Type(h)' = "RESERVE"
               /\ \A j \in DOMAIN pipe' : Opens(pipe'[j]) /\ pipe'[j][2] = h => j = k
    <3>1. CASE k = Len(pipe) + 1
      <4>1. h = i
        BY <1>6, <2>2, <3>1
      <4> QED
        BY <1>3, <1>6, <2>1, <3>1, <4>1
    <3>2. CASE k \in DOMAIN pipe
      <4>1. /\ Has(h) /\ Type(h) = "RESERVE" /\ h # i
            /\ \A j \in DOMAIN pipe : Opens(pipe[j]) /\ pipe[j][2] = h => j = k
        BY <1>3, <1>6, <2>2, <3>2 DEF SocketInv, Commands
      <4>2. Server!HASH_ID(h) # x
        BY <1>9, <4>1
      <4>3. Has(h)' /\ Type(h)' = "RESERVE"
        BY <1>9, <4>1, <4>2
      <4>4. \A j \in DOMAIN pipe' : Opens(pipe'[j]) /\ pipe'[j][2] = h => j = k
        BY <1>6, <4>1
      <4> QED
        BY <4>3, <4>4
    <3> QED
      BY <1>6, <3>1, <3>2
  <2>3. \A k \in DOMAIN pipe' : pipe'[k][2] \in Server!Ids
    BY <1>2, <1>4, <1>6
  <2> QED
    BY <2>2, <2>3 DEF Commands, Opens, Has, Type, Taken
<1>15. Logs' /\ Server!CloseOnce'
  <2> SUFFICES ASSUME NEW j \in Server!Ids
        PROVE
        /\ Server!Reported(j, "OPEN") \/ Server!Reported(j, "CLOSE") => j \in given \ {0}
        /\ Has(j)' /\ Type(j)' \in {"RESERVE", "CONNECTING"} => ~Server!Reported(j, "OPEN")
        /\ Has(j)' /\ Server!Reported(j, "CLOSE") => Type(j)' \in {"INVALID", "HALFCLOSE_READ"}
        /\ Has(j)' /\ Type(j)' = "HALFCLOSE_READ" => Server!Reported(j, "CLOSE")
        /\ j \in given \ {0} /\ ~(Has(j)' /\ Type(j)' # "INVALID") =>
              \/ Server!Reported(j, "CLOSE")
              \/ Server!Reported(j, "ERR") /\ ~Server!Reported(j, "OPEN")
    BY <1>1, <1>7 DEF Logs, Server!Reported, Server!CloseOnce, SocketInv
  <2>1. CASE j = i
    <3>1. Has(j)' /\ Type(j)' = "RESERVE"
      BY <1>3, <1>4, <1>5, <1>8, <1>9, <2>1 DEF Type
    <3>2. ~Server!Reported(j, "OPEN") /\ ~Server!Reported(j, "CLOSE")
      BY <1>0, <2>1 DEF SocketInv, Logs
    <3> QED
      BY <3>1, <3>2
  <2>2. CASE Server!HASH_ID(j) # x
    <3>1. j # i
      BY <1>3, <2>2
    <3> QED
      BY <1>0, <1>9, <2>2, <3>1 DEF SocketInv, Logs
  <2>3. CASE j # i /\ Server!HASH_ID(j) = x
    BY <1>0, <1>9, <2>3 DEF SocketInv, Logs
  <2> QED
    BY <2>1, <2>2, <2>3
<1> QED
  BY <1>11, <1>12, <1>13, <1>14, <1>15 DEF SocketInv

LEMMA AskStep ==
  ASSUME SocketInv, NEW cmd \in {"K", "X", "R", "S", "D"}, NEW i \in Server!Ids,
         Server!Command(cmd, i)
  PROVE  SocketInv'
<1> DEFINE c == <<cmd, i>>
<1>1. /\ i <= alloc /\ i # reserving.id /\ pipe' = Append(pipe, c)
      /\ UNCHANGED <<sock, alloc, given, reserving, events, log>> /\ c \in Requests /\ ~Opens(c)
  BY DEF Server!Command, Server!issued, Requests, Opens
<1>2. /\ pipe' \in Seq(Requests) /\ DOMAIN pipe' = DOMAIN pipe \cup {Len(pipe) + 1}
      /\ \A k \in DOMAIN pipe : pipe'[k] = pipe[k]
      /\ Len(pipe) + 1 \notin DOMAIN pipe /\ pipe'[Len(pipe) + 1] = c
  BY <1>1, PipeGrows
<1>3. SocketTypes'
  <2>1. \A k \in DOMAIN pipe' : pipe'[k][2] <= alloc
    BY <1>1, <1>2 DEF SocketInv, SocketTypes
  <2> QED
    BY <1>1, <1>2, <2>1 DEF SocketInv, SocketTypes
<1>4. Owners'
  BY <1>1 DEF SocketInv, Owners, Taken
<1>5. Reserves'
  BY <1>1, <1>2 DEF SocketInv, Reserves
<1>6. Commands'
  <2>1. \A k \in DOMAIN pipe' : Opens(pipe'[k]) => k \in DOMAIN pipe
    BY <1>1, <1>2
  <2> QED
    BY <1>1, <1>2, <2>1 DEF SocketInv, Commands, Opens, Has, Type, Taken
<1>7. Logs' /\ Server!CloseOnce'
  BY <1>1 DEF SocketInv, Logs, Server!CloseOnce, Server!Reported, Has, Type, Taken
<1> QED
  BY <1>3, <1>4, <1>5, <1>6, <1>7 DEF SocketInv

\* A connection that is accepted: its listener reports it, and a free slot is its.
LEMMA AcceptStep ==
  ASSUME SocketInv, Server!Event({"LISTEN"}), Server!Handled, NEW i \in Server!NextId,
         alloc' = i, given' = given \cup {i},
         sock' = [sock EXCEPT ![Server!X].peer = "quiet",
                    ![Server!HASH_ID(i)] = Server!NewFd(i, "PACCEPT", "up", FALSE, FALSE)],
         Server!Report(Server!S.id, "ACCEPT")
  PROVE  SocketInv'
<1>1. PICK x, y, l : x = Server!X /\ y = Server!HASH_ID(i) /\ l = sock[Server!X].id
  OBVIOUS
<1> DEFINE s == Server!NewFd(i, "PACCEPT", "up", FALSE, FALSE)
           old == [sock[x] EXCEPT !.peer = "quiet"]
<1>2. /\ x \in Server!Slot /\ sock[x].type = "LISTEN" /\ UNCHANGED <<reserving, pipe>>
      /\ pipe' \in Seq(Requests) /\ events' \in Seq(EventRecord) /\ sock[x] \in Sock
  BY <1>1, EventFacts
<1>3. /\ i \in Server!Ids /\ i \in 0 .. MaxSocket /\ i > alloc /\ i \notin given /\ y \in Server!Slot
      /\ sock[y].type = "INVALID" /\ ~Taken(y) /\ ~Has(i)
      /\ ~Server!Reported(i, "OPEN") /\ ~Server!Reported(i, "CLOSE")
      /\ given \cup {i} \subseteq 1 .. i /\ i # reserving.id
      /\ \A k \in DOMAIN pipe : pipe[k][2] # i
  BY <1>1, IdFacts
<1>4. /\ sock \in [Server!Slot -> Sock] /\ alloc \in 0 .. MaxSocket /\ given \subseteq 1 .. alloc
      /\ \A k \in DOMAIN pipe : pipe[k][2] \in Server!Ids /\ pipe[k][2] <= alloc
  BY DEF SocketInv, SocketTypes, Requests
<1>5. x # y
  BY <1>2, <1>3
<1>6. s \in Sock /\ s.id = i /\ s.type = "PACCEPT" /\ s.closing = FALSE
  <2>1. Server!Free = [id |-> 0, type |-> "INVALID", tcp |-> FALSE, closing |-> FALSE,
                        reading |-> FALSE, writing |-> FALSE, unsent |-> FALSE,
                        peer |-> "none", inbox |-> 0]
    BY DEF Server!Free
  <2>2. s = [Server!Free EXCEPT !.id = i, !.type = "PACCEPT", !.tcp = TRUE,
                                !.peer = "up", !.reading = FALSE, !.writing = FALSE]
    BY DEF Server!NewFd
  <2> HIDE DEF s
  <2>3. s = [id |-> i, type |-> "PACCEPT", tcp |-> TRUE, closing |-> FALSE, reading |-> FALSE,
             writing |-> FALSE, unsent |-> FALSE, peer |-> "up", inbox |-> 0]
    BY <2>1, <2>2
  <2> QED
    BY <1>3, <2>3 DEF Sock, SocketType, Peer
<1> HIDE DEF s
<1>7. old \in Sock /\ old.id = sock[x].id /\ old.type = "LISTEN" /\ old.closing = sock[x].closing
  BY <1>2 DEF Sock, Peer
<1>8. /\ sock' \in [Server!Slot -> Sock] /\ sock'[y] = s /\ sock'[x] = old
      /\ \A z \in Server!Slot \ {x, y} : sock'[z] = sock[z]
  <2>1. sock' = [[sock EXCEPT ![x] = old] EXCEPT ![y] = s]
    BY <1>1, <1>2, <1>4 DEF s
  <2> HIDE DEF old
  <2> QED
    BY <1>2, <1>3, <1>4, <1>5, <1>6, <1>7, <2>1
<1> HIDE DEF old
<1>9. \A z : Taken(z)' <=> Taken(z)
  BY <1>2 DEF Taken
<1>10. \A j \in Server!Ids :
         /\ j # 0 /\ Server!HASH_ID(j) \in Server!Slot
         /\ Server!HASH_ID(j) # y => (Has(j)' <=> Has(j)) /\ Type(j)' = Type(j)
         /\ Server!HASH_ID(j) = y => (Has(j)' <=> j = i) /\ Type(j) = "INVALID" /\ Type(j)' = "PACCEPT"
  <2> TAKE j \in Server!Ids
  <2>1. Server!HASH_ID(j) \in Server!Slot /\ j # 0
    BY SlotFacts
  <2>2. Server!HASH_ID(j) # y => (Has(j)' <=> Has(j)) /\ Type(j)' = Type(j)
    BY <1>2, <1>7, <1>8, <1>9, <2>1 DEF Has, Type
  <2>3. Server!HASH_ID(j) = y => (Has(j)' <=> j = i) /\ Type(j) = "INVALID" /\ Type(j)' = "PACCEPT"
    BY <1>3, <1>6, <1>8, <1>9, <2>1 DEF Has, Type
  <2> QED
    BY <2>1, <2>2, <2>3
<1>11. l \in Server!Ids /\ Server!HASH_ID(l) = x /\ Has(l) /\ Type(l) = "LISTEN"
  <2>1. ~Taken(x)
    BY <1>2, NotTaken
  <2>2. sock[x].id # 0 /\ sock[x].id \in given /\ Server!HASH_ID(sock[x].id) = x
    BY <1>2, <2>1 DEF SocketInv, Owners
  <2> QED
    BY <1>1, <1>2, <1>4, <2>1, <2>2, SlotFacts DEF Has, Type
<1>12. /\ log' \in [Server!Ids -> Seq(Reports)] /\ Server!CloseOnce'
       /\ \A j \in Server!Ids : \A q \in Reports :
             Server!Reported(j, q)' <=> Server!Reported(j, q) \/ (j = l /\ q = "ACCEPT")
  <2>1. ~Server!Reported(l, "CLOSE")
    BY <1>11 DEF SocketInv, Logs
  <2>2. Server!Report(l, "ACCEPT") /\ "ACCEPT" \in Reports
    BY <1>1, EventFacts DEF Reports
  <2> QED
    BY <1>11, <2>1, <2>2, ReportStep DEF SocketInv
<1>13. \A j \in Server!Ids : /\ Server!Reported(j, "OPEN")' <=> Server!Reported(j, "OPEN")
                             /\ Server!Reported(j, "CLOSE")' <=> Server!Reported(j, "CLOSE")
                             /\ Server!Reported(j, "ERR")' <=> Server!Reported(j, "ERR")
  BY <1>12 DEF Reports
<1>14. SocketTypes'
  <2>1. alloc' \in 0 .. MaxSocket /\ given' \subseteq 1 .. alloc'
    BY <1>3
  <2>2. \A k \in DOMAIN pipe' : pipe'[k][2] <= alloc'
    BY <1>2, <1>3, <1>4, SlotFacts
  <2> QED
    BY <1>2, <1>8, <1>12, <2>1, <2>2 DEF SocketInv, SocketTypes
<1>15. Owners'
  <2> SUFFICES ASSUME NEW z \in Server!Slot
               PROVE  /\ sock'[z].id # 0 => /\ sock'[z].id \in given' \ {reserving.id}
                                            /\ Server!HASH_ID(sock'[z].id) = z
                      /\ sock'[z].id = 0 => sock'[z].type = "INVALID" \/ Taken(z)
                      /\ sock'[z].closing => sock'[z].type \in {"INVALID", "RESERVE", "HALFCLOSE_READ"}
    BY <1>2, <1>9 DEF Owners
  <2>0. i \in given' \ {reserving.id} /\ given \ {reserving.id} \subseteq given' \ {reserving.id}
        /\ i # 0 /\ Server!HASH_ID(i) = y
    BY <1>1, <1>3, SlotFacts
  <2>1. CASE z = y
    BY <1>6, <1>8, <2>0, <2>1
  <2>2. /\ sock[z].id # 0 => /\ sock[z].id \in given \ {reserving.id}
                             /\ Server!HASH_ID(sock[z].id) = z
        /\ sock[z].id = 0 => sock[z].type = "INVALID" \/ Taken(z)
        /\ sock[z].closing => sock[z].type \in {"INVALID", "RESERVE", "HALFCLOSE_READ"}
    BY DEF SocketInv, Owners
  <2>3. CASE z = x
    <3>1. sock'[z].id = sock[z].id /\ sock'[z].closing = sock[z].closing /\ sock'[z].type = sock[z].type
      BY <1>2, <1>7, <1>8, <2>3
    <3> QED
      BY <2>0, <2>2, <3>1
  <2>4. CASE z # x /\ z # y
    <3>1. sock'[z] = sock[z]
      BY <1>8, <2>4
    <3> QED
      BY <2>0, <2>2, <3>1
  <2> QED
    BY <2>1, <2>3, <2>4
<1>16. Reserves'
  <2>1. CASE reserving = Server!NoReserve
    BY <1>2, <2>1 DEF Reserves
  <2>2. CASE reserving # Server!NoReserve
    <3>1. /\ reserving.slot \in Server!Slot /\ sock[reserving.slot].type = "RESERVE"
          /\ reserving.id \in given
      BY <2>2 DEF SocketInv, Reserves
    <3>2. sock'[reserving.slot].type = "RESERVE"
      BY <1>2, <1>3, <1>8, <3>1
    <3> QED
      BY <1>2, <2>2, <3>1, <3>2 DEF SocketInv, Reserves
  <2> QED
    BY <2>1, <2>2
<1>17. Commands'
  <2>1. ASSUME NEW k \in DOMAIN pipe, Opens(pipe[k])
        PROVE  /\ Has(pipe[k][2])' /\ Type(pipe[k][2])' = "RESERVE"
               /\ \A j \in DOMAIN pipe : Opens(pipe[j]) /\ pipe[j][2] = pipe[k][2] => j = k
    <3>1. /\ Has(pipe[k][2]) /\ Type(pipe[k][2]) = "RESERVE" /\ pipe[k][2] \in Server!Ids
          /\ \A j \in DOMAIN pipe : Opens(pipe[j]) /\ pipe[j][2] = pipe[k][2] => j = k
      BY <1>4, <2>1 DEF SocketInv, Commands
    <3>2. PICK h \in Server!Ids : h = pipe[k][2]
      BY <3>1
    <3>3. Has(h) /\ Type(h) = "RESERVE" /\ Server!HASH_ID(h) # y
      BY <1>10, <3>1, <3>2
    <3>4. Has(h)' /\ Type(h)' = "RESERVE"
      BY <1>10, <3>3
    <3> QED
      BY <1>2, <3>1, <3>2, <3>4 DEF Has, Type, Taken
  <2> QED
    BY <1>2, <2>1 DEF Commands, Opens, Has, Type, Taken
<1>18. Logs'
  <2> SUFFICES ASSUME NEW j \in Server!Ids
        PROVE
        /\ Server!Reported(j, "OPEN") \/ Server!Reported(j, "CLOSE") => j \in given' \ {reserving.id}
        /\ Has(j)' /\ Type(j)' \in {"RESERVE", "CONNECTING"} => ~Server!Reported(j, "OPEN")
        /\ Has(j)' /\ Server!Reported(j, "CLOSE") => Type(j)' \in {"INVALID", "HALFCLOSE_READ"}
        /\ Has(j)' /\ Type(j)' = "HALFCLOSE_READ" => Server!Reported(j, "CLOSE")
        /\ j \in given' \ {reserving.id} /\ ~(Has(j)' /\ Type(j)' # "INVALID") =>
              \/ Server!Reported(j, "CLOSE")
              \/ Server!Reported(j, "ERR") /\ ~Server!Reported(j, "OPEN")
    BY <1>2, <1>13 DEF Logs
  <2>1. CASE j = i
    BY <1>1, <1>3, <1>10, <2>1
  <2>2. CASE Server!HASH_ID(j) # y
    BY <1>1, <1>10, <2>2 DEF SocketInv, Logs
  <2>3. CASE j # i /\ Server!HASH_ID(j) = y
    BY <1>10, <2>3 DEF SocketInv, Logs
  <2> QED
    BY <2>1, <2>2, <2>3
<1> QED
  BY <1>12, <1>14, <1>15, <1>16, <1>17, <1>18 DEF SocketInv

LEMMA EventListenStep == SocketInv /\ Server!EventListen => SocketInv'
<1> SUFFICES ASSUME SocketInv, Server!EventListen PROVE SocketInv'
  OBVIOUS
<1> DEFINE T == {"LISTEN"}
           s == [Server!S EXCEPT !.peer = "quiet"]
<1>1. Server!Event(T) /\ Server!Handled
  BY DEF Server!EventListen
<1>2. /\ Server!S \in Sock /\ Server!S = sock[Server!X]
  BY <1>1, EventFacts
<1>3. s \in Sock /\ s.id = Server!S.id /\ s.type = Server!S.type /\ s.closing = Server!S.closing
  BY <1>2 DEF Sock, Peer
<1>4. CASE sock' = [sock EXCEPT ![Server!X].peer = "quiet"] /\ UNCHANGED <<Server!issued, log>>
  <2>1. sock' = [sock EXCEPT ![Server!X] = s]
    BY <1>2, <1>4
  <2> HIDE DEF s, T
  <2> QED
    BY <1>1, <1>3, <1>4, <2>1, EventQuiet
<1>5. ASSUME NEW i \in Server!NextId,
             alloc' = i, given' = given \cup {i},
             sock' = [sock EXCEPT ![Server!X].peer = "quiet",
                        ![Server!HASH_ID(i)] = Server!NewFd(i, "PACCEPT", "up", FALSE, FALSE)],
             Server!Report(Server!S.id, "ACCEPT")
      PROVE  SocketInv'
  BY <1>1, <1>5, AcceptStep
<1> QED
  BY <1>4, <1>5 DEF Server!EventListen

LEMMA SocketInit == Server!Init => SocketInv
<1> SUFFICES ASSUME Server!Init PROVE SocketInv
  OBVIOUS
<1> USE DEF Server!Init
<1>1. Slots \in Nat \ {0} /\ MaxSocket \in Nat /\ 0 \in 0 .. MaxSocket
  BY SlotFacts
<1>2. Server!Free \in Sock /\ Server!Free.id = 0 /\ Server!Free.type = "INVALID" /\ Server!Free.closing = FALSE
  BY <1>1 DEF Server!Free, Sock, SocketType, Peer
<1>3. \A x \in Server!Slot : sock[x] = Server!Free
  OBVIOUS
<1>4. \A i \in Server!Ids : ~Server!Reported(i, "OPEN") /\ ~Server!Reported(i, "CLOSE")
  BY DEF Server!Reported
<1>5. \A i \in Server!Ids : Server!HASH_ID(i) \in Server!Slot /\ i # 0
  BY SlotFacts
<1>6. SocketTypes
  BY <1>1, <1>2, EmptySeq DEF SocketTypes
<1>7. Owners /\ Reserves /\ Commands
  BY <1>2, <1>3 DEF Owners, Reserves, Commands
<1>8. Logs
  BY <1>2, <1>3, <1>4, <1>5 DEF Logs, Has
<1>9. Server!CloseOnce
  BY DEF Server!CloseOnce
<1> QED
  BY <1>6, <1>7, <1>8, <1>9 DEF SocketInv

LEMMA SocketNext == SocketInv /\ ~LateWrite /\ [Server!Next]_server_vars => SocketInv'
<1> SUFFICES ASSUME SocketInv, ~LateWrite, [Server!Next]_server_vars PROVE SocketInv'
  OBVIOUS
<1>1. CASE Server!SocketThread
  BY <1>1, OpenStep, ListenStep, CloseStep, ResumeStep, PauseStep, ClearStep, FetchStep,
     EventNullStep, EventInvalidStep, EventConnectingStep, EventListenStep, EventReservedStep,
     ReadDataStep, ReadEndStep, ReadErrorStep, NothingStep, WriteAllStep, WriteErrorStep, EventEofStep
     DEF Server!SocketThread
<1>2. CASE Server!Reserved
  BY <1>2, ReservedStep
<1>3. ASSUME NEW x \in Server!Slot, Server!PeerStep(x) PROVE SocketInv'
  BY <1>3, PeerKeeps
<1>4. ASSUME NEW cmd \in {"O", "L"}, Server!Reserve(cmd) PROVE SocketInv'
  BY <1>4, ReserveStep
<1>5. ASSUME NEW cmd \in {"K", "X", "R", "S", "D"}, NEW i \in Server!Ids, Server!Command(cmd, i)
      PROVE  SocketInv'
  BY <1>5, AskStep
<1>6. CASE UNCHANGED server_vars
  <2>1. UNCHANGED <<sock, log, alloc, given, reserving, pipe, events>>
    BY <1>6 DEF server_vars
  <2>2. pipe' \in Seq(Requests) /\ events' \in Seq(EventRecord) /\ Kept(0)
    BY <2>1, PipeKept DEF SocketInv, SocketTypes
  <2> QED
    BY <2>1, <2>2, StayStep
<1> QED
  BY <1>1, <1>2, <1>3, <1>4, <1>5, <1>6 DEF Server!Next

\* A step of the core is one of the sockets, or leaves them alone.
LEMMA SocketStep == [CoreNext]_core => [Server!Next]_server_vars
  BY DEF CoreNext, In, core

LEMMA SocketInvTells == SocketInv => CloseOnce
<1> SUFFICES ASSUME SocketInv PROVE Server!EndTold
  BY DEF CloseOnce, SocketInv
<1>1. given \subseteq Server!Ids
  <2>1. alloc \in 0 .. MaxSocket /\ given \subseteq 1 .. alloc
    BY DEF SocketInv, SocketTypes
  <2> QED
    BY <2>1, SlotFacts
<1>2. ASSUME NEW i \in given \ {reserving.id}, Server!socket_invalid(i)
      PROVE  \/ Server!Reported(i, "CLOSE")
             \/ Server!Reported(i, "ERR") /\ ~Server!Reported(i, "OPEN")
  <2>1. ~(Has(i) /\ Type(i) # "INVALID")
    BY <1>2 DEF Server!socket_invalid, Has, Type
  <2> QED
    BY <1>1, <2>1 DEF SocketInv, Logs
<1> QED
  BY <1>2 DEF Server!EndTold

\* What is reported of a socket (report_message and the events of
\* socket_server_poll): its close once and as the last there is to say, and its
\* end, for every number of slots and sockets and every interleaving, unless a
\* late write meets a slot that is reserved again.
THEOREM SocketsCloseOnce == CoreSpec /\ [](~LateWrite) => []CloseOnce
<1>1. CoreInit => SocketInv
  BY SocketInit DEF CoreInit
<1>2. SocketInv /\ ~LateWrite /\ [CoreNext]_core => SocketInv'
  BY SocketStep, SocketNext
<1>3. SocketInv => CloseOnce
  BY SocketInvTells
<1> QED
  BY <1>1, <1>2, <1>3, PTL DEF CoreSpec

\* Where services only connect, listen, close, start and pause, nothing waits to be sent.
NoneUnsent ==
    /\ \A x \in Server!Slot : ~sock[x].unsent
    /\ \A k \in DOMAIN pipe : pipe[k][1] # "D"

LEMMA UnsentKept ==
  ASSUME SocketInv, NoneUnsent, "D" \notin Cmds, [Server!Next]_server_vars
  PROVE  NoneUnsent'
<1>0. /\ sock \in [Server!Slot -> Sock] /\ pipe \in Seq(Requests)
      /\ \A i \in Server!Ids : Server!HASH_ID(i) \in Server!Slot
  BY SlotFacts DEF SocketInv, SocketTypes
<1>1. ASSUME NEW x \in Server!Slot, NEW s, ~s.unsent,
             sock' = [sock EXCEPT ![x] = s] \/ UNCHANGED sock
      PROVE  \A y \in Server!Slot : ~sock'[y].unsent
  BY <1>0, <1>1 DEF NoneUnsent
<1>2. ASSUME UNCHANGED pipe, \A y \in Server!Slot : ~sock'[y].unsent PROVE NoneUnsent'
  BY <1>2 DEF NoneUnsent
<1>3. ASSUME NEW T, Server!Take(T)
      PROVE  /\ \A k \in DOMAIN pipe' : pipe'[k][1] # "D"
             /\ Head(pipe)[1] # "D" /\ Head(pipe)[1] \in T
             /\ Server!ArgSlot \in Server!Slot
  <2>1. Kept(1) /\ 1 \in DOMAIN pipe /\ Head(pipe) = pipe[1]
    BY <1>3, PipeTaken DEF Server!Take, SocketInv
  <2> QED
    BY <1>3, <2>1, TakeFacts DEF Kept, NoneUnsent
<1>4. ASSUME NEW T, Server!Take(T), \A y \in Server!Slot : ~sock'[y].unsent PROVE NoneUnsent'
  BY <1>3, <1>4 DEF NoneUnsent
<1>5. ASSUME NEW T, Server!Event(T)
      PROVE  /\ UNCHANGED pipe /\ Server!X \in Server!Slot /\ Server!S = sock[Server!X]
             /\ Server!S \in Sock /\ ~Server!S.unsent
  BY <1>5, EventFacts DEF NoneUnsent
<1>6. CASE Server!Open
  <2>1. Server!Take({"O"})
    BY <1>6 DEF Server!Open
  <2>2. PICK x \in Server!Slot : x = Server!ArgSlot
    BY <1>3, <2>1
  <2>3. ~Server!NewFd(Server!Arg, "CONNECTED", "up", TRUE, FALSE).unsent
        /\ ~Server!NewFd(Server!Arg, "CONNECTING", "pending", TRUE, TRUE).unsent
    BY DEF Server!NewFd, Server!Free
  <2>4. ~[sock[x] EXCEPT !.type = "INVALID"].unsent
    BY <1>0 DEF NoneUnsent, Sock
  <2>5. sock' = [sock EXCEPT ![x].type = "INVALID"] \/ \E s : ~s.unsent /\ sock' = [sock EXCEPT ![x] = s]
    BY <1>6, <2>2, <2>3 DEF Server!Open
  <2>6. \A y \in Server!Slot : ~sock'[y].unsent
    BY <1>0, <1>1, <2>4, <2>5 DEF NoneUnsent
  <2> QED
    BY <1>4, <2>1, <2>6
<1>7. CASE Server!Listen
  BY <1>0, <1>3, <1>4, <1>7 DEF Server!Listen, Server!NewFd, Server!Free, NoneUnsent, Sock
<1>8. CASE Server!Close
  <2>1. Server!Take({"K", "X"})
    BY <1>8 DEF Server!Close
  <2>2. PICK x \in Server!Slot : x = Server!ArgSlot
    BY <1>3, <2>1
  <2> DEFINE free == [sock[x] EXCEPT !.type = "INVALID", !.unsent = FALSE, !.peer = "none", !.inbox = 0]
             half == [sock[x] EXCEPT !.closing = TRUE, !.type = "HALFCLOSE_READ", !.reading = FALSE]
  <2>3. ~free.unsent /\ ~half.unsent
    BY <1>0 DEF NoneUnsent, Sock
  <2>4. sock' = sock \/ sock' = [sock EXCEPT ![x] = free] \/ sock' = [sock EXCEPT ![x] = half]
    BY <1>8, <2>2 DEF Server!Close, Server!ForceClose
  <2> HIDE DEF free, half
  <2>5. \A y \in Server!Slot : ~sock'[y].unsent
    BY <1>1, <2>3, <2>4
  <2> QED
    BY <1>4, <2>1, <2>5
<1>9. CASE Server!Resume
  <2>1. Server!Take({"R"})
    BY <1>9 DEF Server!Resume
  <2>2. PICK x, t : x = Server!ArgSlot /\ t = sock[x].type
    OBVIOUS
  <2> DEFINE s == [sock[x] EXCEPT !.reading = TRUE,
                                  !.type = CASE t = "PACCEPT" -> "CONNECTED"
                                             [] t = "PLISTEN" -> "LISTEN"
                                             [] OTHER -> t]
  <2>3. x \in Server!Slot /\ ~s.unsent
    BY <1>0, <1>3, <2>1, <2>2 DEF NoneUnsent, Sock
  <2>4. sock' = sock \/ sock' = [sock EXCEPT ![x] = s]
    BY <1>9, <2>2 DEF Server!Resume
  <2> HIDE DEF s
  <2>5. \A y \in Server!Slot : ~sock'[y].unsent
    BY <1>1, <2>3, <2>4
  <2> QED
    BY <1>4, <2>1, <2>5
<1>10. CASE Server!Pause
  BY <1>0, <1>3, <1>4, <1>10 DEF Server!Pause, NoneUnsent, Sock
<1>11. ~Server!Send
  BY <1>3 DEF Server!Send
<1>12. CASE UNCHANGED <<sock, pipe>>
  BY <1>12 DEF NoneUnsent
<1>13. CASE Server!EventConnecting
  BY <1>0, <1>2, <1>5, <1>13 DEF Server!EventConnecting, Server!ForceClose, NoneUnsent, Sock
<1>14. CASE Server!EventListen
  <2>1. UNCHANGED pipe /\ Server!X \in Server!Slot
    BY <1>5, <1>14 DEF Server!EventListen
  <2>2. CASE sock' = [sock EXCEPT ![Server!X].peer = "quiet"]
    BY <1>0, <1>2, <2>1, <2>2 DEF NoneUnsent, Sock
  <2>3. ASSUME NEW i \in Server!NextId, NEW s, ~s.unsent,
               sock' = [sock EXCEPT ![Server!X].peer = "quiet", ![Server!HASH_ID(i)] = s]
        PROVE  NoneUnsent'
    <3>1. Server!HASH_ID(i) \in Server!Slot
      BY IdFacts
    <3> QED
      BY <1>0, <1>2, <2>1, <2>3, <3>1 DEF NoneUnsent, Sock
  <2>4. \A i : ~Server!NewFd(i, "PACCEPT", "up", FALSE, FALSE).unsent
    BY DEF Server!NewFd, Server!Free
  <2> QED
    BY <1>14, <2>2, <2>3, <2>4 DEF Server!EventListen
<1>15. CASE Server!EventReserved
  BY <1>0, <1>2, <1>5, <1>15 DEF Server!EventReserved, NoneUnsent, Sock
<1>16. CASE Server!ReadData \/ Server!ReadEnd
  BY <1>0, <1>2, <1>5, <1>16 DEF Server!ReadData, Server!ReadEnd, Server!ForceClose, NoneUnsent, Sock
<1>17. CASE Server!ReadError \/ Server!EventError
  BY <1>0, <1>2, <1>5, <1>17 DEF Server!ReadError, Server!EventError, Server!TakeError, NoneUnsent, Sock
<1>18. CASE Server!WriteAll \/ Server!WriteError \/ Server!EventEof
  BY <1>0, <1>2, <1>5, <1>18 DEF Server!WriteAll, Server!WriteError, Server!EventEof, Server!Writing,
     Server!ForceClose, NoneUnsent, Sock
<1>19. Server!ReadNothing \/ Server!WriteSome \/ Server!EventNull \/ Server!EventInvalid
          \/ Server!Clear \/ Server!CtrlDone \/ Server!Fetch => UNCHANGED <<sock, pipe>>
  BY DEF Server!ReadNothing, Server!WriteSome, Server!Writing, Server!EventNull, Server!EventInvalid,
     Server!Event, Server!Clear, Server!CtrlDone, Server!Fetch
<1>20. CASE Server!SocketThread
  BY <1>6, <1>7, <1>8, <1>9, <1>10, <1>11, <1>12, <1>13, <1>14, <1>15, <1>16, <1>17, <1>18, <1>19, <1>20
     DEF Server!SocketThread
<1>21. CASE Server!Reserved
  BY <1>0, <1>21, PipeGrows DEF Server!Reserved, NoneUnsent, Sock, SocketInv, Reserves
<1>22. ASSUME NEW x \in Server!Slot, Server!PeerStep(x) PROVE NoneUnsent'
  BY <1>0, <1>2, <1>22 DEF Server!PeerStep, NoneUnsent, Sock
<1>23. ASSUME NEW cmd \in {"O", "L"}, Server!Reserve(cmd) PROVE NoneUnsent'
  BY <1>0, <1>2, <1>23, IdFacts DEF Server!Reserve, NoneUnsent, Sock
<1>24. ASSUME NEW cmd \in {"K", "X", "R", "S", "D"}, NEW i \in Server!Ids, Server!Command(cmd, i)
      PROVE  NoneUnsent'
  <2>1. cmd # "D" /\ <<cmd, i>> \in Requests /\ pipe' = Append(pipe, <<cmd, i>>) /\ UNCHANGED sock
    BY <1>24 DEF Server!Command, Requests
  <2> QED
    BY <2>1, PipeGrows DEF NoneUnsent
<1>25. CASE UNCHANGED server_vars
  BY <1>12, <1>25 DEF server_vars
<1> QED
  BY <1>20, <1>21, <1>22, <1>23, <1>24, <1>25 DEF Server!Next

\* What is reported of a socket (report_message and the events of
\* socket_server_poll): its close once and as the last there is to say, and its
\* end, where services send nothing, for every number of slots and sockets.
THEOREM CloseOnceUnsent == "D" \notin Cmds /\ CoreSpec => []CloseOnce
<1> SUFFICES ASSUME "D" \notin Cmds PROVE CoreSpec => []CloseOnce
  OBVIOUS
<1>1. CoreInit => SocketInv /\ NoneUnsent
  <2>1. Server!Init => NoneUnsent
    BY DEF Server!Init, Server!Free, NoneUnsent
  <2> QED
    BY <2>1, SocketInit DEF CoreInit
<1>2. SocketInv /\ NoneUnsent => ~LateWrite
  <2> SUFFICES ASSUME SocketInv, NoneUnsent, LateWrite PROVE FALSE
    OBVIOUS
  <2>1. Server!E \in EventRecord
    BY HeadTailProperties DEF SocketInv, SocketTypes, LateWrite, Server!E
  <2>2. Server!X \in Server!Slot
    BY <2>1 DEF EventRecord, LateWrite, Server!X
  <2> QED
    BY <2>2 DEF NoneUnsent, LateWrite, Server!S
<1>3. SocketInv /\ NoneUnsent /\ [CoreNext]_core => (SocketInv /\ NoneUnsent)'
  BY <1>2, SocketStep, SocketNext, UnsentKept
<1>4. SocketInv => CloseOnce
  BY SocketInvTells
<1> QED
  BY <1>1, <1>3, <1>4, PTL DEF CoreSpec
=============================================================================
