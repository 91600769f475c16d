---------------------------- MODULE DispatchProof ----------------------------
(***************************************************************************)
(* Proofs about Dispatch: for every set of services, threads and weights,  *)
(* the reference counts are exact, every queue is in one place at a time,  *)
(* none is forgotten, and nothing is used after it is freed; services are  *)
(* actors (module Actor), and the messages of one service to another are   *)
(* handled in the order in which they were sent.                           *)
(***************************************************************************)
EXTENDS Dispatch, SequenceTheorems, FiniteSetTheorems, TLAPS

-----------------------------------------------------------------------------
(***************************************************************************)
(* The inductive invariant: TypeOK and the four parts below.               *)
(***************************************************************************)

\* What the control state of a thread says of its local variables.
LoopShape(w) ==
    /\ pc[w] = "fetch" => cur[w] = None /\ ctx[w] = None
    /\ pc[w] \in {"grab", "orphan"} => cur[w] \in Service /\ ctx[w] = None
    /\ pc[w] \in {"first", "weigh", "call", "again", "rotate", "push_back"}
         => cur[w] \in Service /\ ctx[w] = cur[w]
    /\ pc[w] = "put" => ctx[w] \in Service
    /\ pc[w] = "push_back" <=> nxt[w] # None
    /\ pc[w] = "again" => left[w] > 0
    /\ pc[w] = "weigh" => Weight[w] >= 0

CallShape(t) ==
    /\ op[t].do # "idle" => op[t].svc \in Service
    /\ launch[t] = None <=> lstep[t] = "idle"
    /\ t \notin Worker => launch[t] = None

Shape == /\ \A w \in Worker : LoopShape(w)
         /\ \A t \in Thread : CallShape(t)

\* The life of a context follows its reference count, that of its queue the
\* release mark, and one thread deletes it.
Lives ==
    /\ \A s \in Service :
         /\ context[s] = "none" <=> queue[s] = "none"
         /\ context[s] = "freed" <=> release[s]
         /\ queue[s] = "freed" => release[s]
         /\ ref[s] > 0 => context[s] = "live"
    /\ \A t \in Thread :
         /\ del[t] # None => ref[del[t]] = 0 /\ context[del[t]] = "live"
         /\ dropq[t] # None => release[dropq[t]]
    /\ \A t, u \in Thread : del[t] # None /\ del[t] = del[u] => t = u

\* A queue is in one place at most, and in none exactly when nobody has to
\* look at it: its in_global is clear and its context is not deleted.
Alone(s) == /\ \A g, h \in Hands(s) : g = h
            /\ \A i, j \in Waits(s) : i = j
            /\ Hands(s) = {} \/ Waits(s) = {}
Somewhere(s) == Hands(s) # {} \/ Waits(s) # {}
Wanted(s) == queue[s] = "live" /\ (inGlobal[s] \/ release[s])

Placed ==
    \A s \in Service : /\ Alone(s)
                       /\ Somewhere(s) <=> Wanted(s)
                       /\ queue[s] = "live" /\ mq[s] # <<>> => inGlobal[s]

\* A service in the table that is not initialised is still being launched.
Launching(s) == \E t \in Thread : /\ launch[t] = s
                                  /\ lstep[t] \in {"init", "ready", "retire"}
Ready ==
    /\ \A s \in Service : slot[s] /\ ~init[s] => Launching(s)
    /\ \A w \in Worker : ctx[w] # None => init[ctx[w]]

DispatchInv == TypeOK /\ Shape /\ RefCountExact /\ Lives /\ Placed /\ Ready

\* A consequence of the counts: whoever gives up a reference has one.
RefPositive ==
    /\ \A s \in Service : slot[s] => ref[s] > 0
    /\ \A w \in Worker : ctx[w] # None => ref[ctx[w]] > 0
    /\ \A t \in Thread :
         /\ op[t].do \in {"push", "put"} => ref[op[t].svc] > 0
         /\ lstep[t] = "init" => ref[launch[t]] > 0

-----------------------------------------------------------------------------
\* Sequences and the operations of the code on them keep their elements.
LEMMA SeqTypes ==
  ASSUME NEW S, NEW q \in Seq(S)
  PROVE  /\ \A x \in S : Append(q, x) \in Seq(S)
         /\ q # <<>> => Head(q) \in S /\ Tail(q) \in Seq(S)
         /\ Len(q) \in Nat
  BY AppendProperties, HeadTailProperties, LenProperties

\* The types hold initially.
LEMMA InitTypes == Init => TypeOK
<1> SUFFICES ASSUME Init PROVE TypeOK
  OBVIOUS
<1>1. NoOp \in Call
  BY DispatchAssumption DEF NoOp, NoMsg, Call, Message, MaybeService
<1>2. globalQ \in Seq(Service)
  BY DispatchAssumption DEF Init
<1>3. mq \in [Service -> Seq(Message)]
  BY EmptySeq DEF Init
<1>4. op \in [Thread -> Call]
  BY <1>1 DEF Init
<1>5. sent \in 0 .. MaxMsg
  BY DispatchAssumption DEF Init
<1>6. /\ ref \in [Service -> Nat]
      /\ seen \in [Service -> [Service -> Nat]]
      /\ left \in [Worker -> Nat]
  BY DEF Init
<1>7. /\ slot \in [Service -> BOOLEAN] /\ init \in [Service -> BOOLEAN]
      /\ inGlobal \in [Service -> BOOLEAN]
      /\ release \in [Service -> BOOLEAN]
  BY Zenon DEF Init, Booted
<1>8. /\ context \in [Service -> {"none", "live", "freed"}]
      /\ queue \in [Service -> {"none", "live", "freed"}]
      /\ pc \in [Worker -> Labels]
      /\ lstep \in [Thread -> LaunchSteps]
      /\ fate \in [1 .. MaxMsg -> Fates]
  BY DEF Init, Labels, LaunchSteps, Fates
<1>9. /\ cur \in [Worker -> MaybeService]
      /\ nxt \in [Worker -> MaybeService]
      /\ ctx \in [Worker -> MaybeService]
      /\ del \in [Thread -> MaybeService]
      /\ dropq \in [Thread -> MaybeService]
      /\ launch \in [Thread -> MaybeService]
  BY DEF Init, MaybeService
<1> QED
  BY <1>2, <1>3, <1>4, <1>5, <1>6, <1>7, <1>8, <1>9 DEF TypeOK

\* The records that the actions put together are calls and messages.
LEMMA Calls ==
  /\ NoOp \in Call /\ NoMsg \in Message
  /\ \A c \in Call : /\ [do |-> "push", svc |-> c.svc, msg |-> c.msg] \in Call
                     /\ [do |-> "put", svc |-> c.svc, msg |-> c.msg] \in Call
  /\ \A c \in Call : c.svc \in MaybeService /\ c.msg \in Message
  /\ \A m \in Message : m.id \in Nat /\ m.src \in MaybeService
  /\ \A s \in Service, m \in Message :
       /\ [do |-> "put", svc |-> s, msg |-> m] \in Call
       /\ [do |-> "grab", svc |-> s, msg |-> m] \in Call
  BY DispatchAssumption DEF NoOp, NoMsg, Call, Message, MaybeService

\* A reference given up by a holder leaves a natural number.
LEMMA PutTypes ==
  ASSUME TypeOK, NEW t \in Thread, NEW s \in Service, ref[s] > 0, Put(t, s)
  PROVE  ref' \in [Service -> Nat] /\ del' \in [Thread -> MaybeService]
  BY DEF TypeOK, Put, MaybeService

\* The operation skynet_mq_release keeps the types of the two variables it changes.
LEMMA MqReleaseTypes ==
  ASSUME TypeOK, NEW t \in Thread, NEW s \in Service, MqRelease(t, s)
  PROVE  globalQ' \in Seq(Service) /\ dropq' \in [Thread -> MaybeService]
<1>1. globalQ \in Seq(Service) /\ Append(globalQ, s) \in Seq(Service)
  BY SeqTypes DEF TypeOK
<1>2. dropq \in [Thread -> MaybeService] /\ s \in MaybeService
  BY DEF TypeOK, MaybeService
<1> QED
  BY <1>1, <1>2 DEF MqRelease

\* The types of the variables that skynet_mq_pop changes.
TakeTypes ==
  /\ mq' \in [Service -> Seq(Message)]
  /\ fate' \in [1 .. MaxMsg -> Fates]
  /\ seen' \in [Service -> [Service -> Nat]]

\* Popping a message keeps them.
LEMMA TakenTypes ==
  ASSUME TypeOK, NEW w \in Worker, cur[w] \in Service, Take(w)
  PROVE  TakeTypes
<1> DEFINE s == cur[w]
           m == Head(mq[s])
<1>1. m \in Message /\ Tail(mq[s]) \in Seq(Message)
  BY SeqTypes DEF Take, TypeOK
<1>2. m.id \in Nat /\ m.src \in MaybeService
  BY <1>1 DEF Message
<1>3. /\ mq' = [mq EXCEPT ![s] = Tail(@)]
      /\ fate' = IF m.err THEN fate ELSE [fate EXCEPT ![m.id] = "handled"]
      /\ seen' = IF m.err \/ m.src = None THEN seen
                 ELSE [seen EXCEPT ![m.src][s] = m.id]
  BY DEF Take
<1> HIDE DEF m, s
<1>4. s \in Service
  BY DEF s
<1> QED
  BY <1>1, <1>2, <1>3, <1>4 DEF TypeOK, TakeTypes, Fates, MaybeService

\* The type invariant is inductive given the shape and the counts.
LEMMA TypeStep ==
  ASSUME TypeOK, Shape, RefPositive, [Next]_vars
  PROVE  TypeOK'
<1> USE DEF service, queues, loop, calls, history
<1>1. ASSUME NEW t \in Thread, SendRefused(t) PROVE TypeOK'
  BY <1>1, Calls DEF SendRefused, Fates, TypeOK
<1>2. ASSUME NEW t \in Thread, SendGrab(t) PROVE TypeOK'
  <2>1. op[t].svc \in Service /\ op[t] \in Call
    BY <1>2 DEF SendGrab, TypeOK, Shape, LoopShape, CallShape
  <2>2. ref' \in [Service -> Nat]
    BY <1>2, <2>1 DEF SendGrab, Grab, TypeOK
  <2>3. op' \in [Thread -> Call]
    BY <1>2, <2>1, Calls DEF SendGrab, Advance, TypeOK
  <2> QED
    BY <1>2, <2>2, <2>3 DEF SendGrab, TypeOK
<1>3. ASSUME NEW t \in Thread, SendPush(t) PROVE TypeOK'
  <2>1. op[t].svc \in Service /\ op[t].msg \in Message /\ op[t] \in Call
    BY <1>3, Calls DEF SendPush, TypeOK, Shape, CallShape
  <2>2. op' \in [Thread -> Call]
    BY <1>3, <2>1, Calls DEF SendPush, Advance, TypeOK
  <2>3. /\ mq' \in [Service -> Seq(Message)]
        /\ inGlobal' \in [Service -> BOOLEAN]
    BY <1>3, <2>1, SeqTypes DEF SendPush, Enqueue, TypeOK
  <2>4. globalQ' \in Seq(Service)
    BY <1>3, <2>1, SeqTypes DEF SendPush, Enqueue, TypeOK
  <2>5. fate' \in [1 .. MaxMsg -> Fates]
    BY <1>3 DEF SendPush, Fates, TypeOK
  <2> QED
    BY <1>3, <2>2, <2>3, <2>4, <2>5 DEF SendPush, TypeOK
<1>4. ASSUME NEW t \in Thread, OpPut(t) PROVE TypeOK'
  <2>1. op[t].svc \in Service /\ ref[op[t].svc] > 0
    BY <1>4 DEF OpPut, Shape, LoopShape, CallShape, RefPositive
  <2>2. ref' \in [Service -> Nat] /\ del' \in [Thread -> MaybeService]
    BY <1>4, <2>1, PutTypes DEF OpPut
  <2>3. op' \in [Thread -> Call]
    BY <1>4, Calls DEF OpPut, TypeOK
  <2> QED
    BY <1>4, <2>2, <2>3 DEF OpPut, TypeOK
<1>5. ASSUME NEW t \in Thread, Delete(t) PROVE TypeOK'
  BY <1>5, SeqTypes DEF Delete, MarkRelease, MaybeService, TypeOK
<1>6. ASSUME NEW t \in Thread, DropMessage(t) PROVE TypeOK'
  <2> DEFINE m == Head(mq[dropq[t]])
  <2>1. /\ dropq[t] \in Service /\ m \in Message
        /\ Tail(mq[dropq[t]]) \in Seq(Message)
    BY <1>6, SeqTypes DEF DropMessage, TypeOK, MaybeService
  <2> HIDE DEF m
  <2>2. mq' \in [Service -> Seq(Message)]
    BY <1>6, <2>1 DEF DropMessage, TypeOK
  <2>3. m.id \in 0 .. MaxMsg /\ m.src \in MaybeService /\ m.err \in BOOLEAN
    BY <2>1 DEF Message
  <2>4. op' \in [Thread -> Call]
    <3>1. [id |-> m.id, src |-> dropq[t], err |-> TRUE] \in Message
      BY <2>1, <2>3 DEF Message, MaybeService
    <3>2. m.src # None => [do |-> "grab", svc |-> m.src,
             msg |-> [id |-> m.id, src |-> dropq[t], err |-> TRUE]] \in Call
      BY <2>3, <3>1, Calls DEF MaybeService
    <3> QED
      BY <1>6, <3>2 DEF DropMessage, TypeOK, m
  <2>5. fate' \in [1 .. MaxMsg -> Fates]
    BY <1>6 DEF DropMessage, TypeOK, Fates
  <2> QED
    BY <1>6, <2>2, <2>4, <2>5 DEF DropMessage, TypeOK
<1>7. ASSUME NEW t \in Thread, DropDone(t) PROVE TypeOK'
  BY <1>7 DEF DropDone, MaybeService, TypeOK
<1>8. ASSUME NEW w \in Worker, InitOk(w) PROVE TypeOK'
  <2>1. w \in Thread /\ launch[w] \in Service /\ ref[launch[w]] > 0
    BY <1>8, DispatchAssumption
       DEF InitOk, TypeOK, Shape, LoopShape, CallShape, RefPositive,
           MaybeService
  <2>2. ref' \in [Service -> Nat] /\ del' \in [Thread -> MaybeService]
    BY <1>8, <2>1, PutTypes DEF InitOk
  <2> QED
    BY <1>8, <2>2 DEF InitOk, TypeOK, LaunchSteps
<1>9. ASSUME NEW w \in Worker, InitReady(w) PROVE TypeOK'
  BY <1>9, DispatchAssumption DEF InitReady, LaunchSteps, TypeOK
<1>10. ASSUME NEW w \in Worker, LaunchEnqueue(w) PROVE TypeOK'
  BY <1>10, SeqTypes, DispatchAssumption
     DEF LaunchEnqueue, LaunchDone, Shape, LoopShape, CallShape, MaybeService,
         LaunchSteps, TypeOK
<1>11. ASSUME NEW w \in Worker, InitFail(w) PROVE TypeOK'
  <2>1. w \in Thread /\ launch[w] \in Service /\ ref[launch[w]] > 0
    BY <1>11, DispatchAssumption
       DEF InitFail, TypeOK, Shape, CallShape, RefPositive, MaybeService
  <2>2. ref' \in [Service -> Nat] /\ del' \in [Thread -> MaybeService]
    BY <1>11, <2>1, PutTypes DEF InitFail
  <2>3. lstep' \in [Thread -> LaunchSteps]
    BY <1>11 DEF InitFail, LaunchSteps, TypeOK
  <2> QED
    BY <1>11, <2>2, <2>3 DEF InitFail, TypeOK
<1>12. ASSUME NEW w \in Worker, InitFailRetire(w) PROVE TypeOK'
  <2>1. w \in Thread /\ launch[w] \in Service
    BY <1>12, DispatchAssumption
       DEF InitFailRetire, TypeOK, Shape, LoopShape, CallShape, MaybeService
  <2>2. slot' \in [Service -> BOOLEAN]
    BY <1>12, <2>1 DEF InitFailRetire, Retire, TypeOK
  <2>3. [do |-> "put", svc |-> launch[w], msg |-> NoMsg] \in Call
    BY <2>1, Calls
  <2>4. op' \in [Thread -> Call]
    BY <1>12, <2>1, <2>3 DEF InitFailRetire, Retire, TypeOK
  <2> QED
    BY <1>12, <2>2, <2>4 DEF InitFailRetire, TypeOK, LaunchSteps
<1>13. ASSUME NEW w \in Worker, InitFailRelease(w) PROVE TypeOK'
  <2>1. w \in Thread /\ launch[w] \in Service
    BY <1>13, DispatchAssumption
       DEF InitFailRelease, TypeOK, Shape, LoopShape, CallShape, MaybeService
  <2>2. globalQ' \in Seq(Service) /\ dropq' \in [Thread -> MaybeService]
    BY <1>13, <2>1, MqReleaseTypes DEF InitFailRelease
  <2> QED
    BY <1>13, <2>2
       DEF InitFailRelease, LaunchDone, TypeOK, LaunchSteps, MaybeService
<1>14. ASSUME NEW w \in Worker, Fetch(w) PROVE TypeOK'
  BY <1>14, SeqTypes DEF Fetch, Goto, Labels, MaybeService, TypeOK
<1>15. ASSUME NEW w \in Worker, GrabContext(w) PROVE TypeOK'
  BY <1>15
     DEF GrabContext, At, Grab, Goto, Labels, Shape, LoopShape, CallShape,
         TypeOK
<1>16. ASSUME NEW w \in Worker, GrabFails(w) PROVE TypeOK'
  BY <1>16 DEF GrabFails, Goto, Labels, TypeOK
<1>17. ASSUME NEW w \in Worker, ReleaseQueue(w) PROVE TypeOK'
  <2>1. w \in Thread /\ cur[w] \in Service
    BY <1>17, DispatchAssumption
       DEF ReleaseQueue, At, Shape, LoopShape, CallShape
  <2>2. globalQ' \in Seq(Service) /\ dropq' \in [Thread -> MaybeService]
    BY <1>17, <2>1, MqReleaseTypes DEF ReleaseQueue
  <2> QED
    BY <1>17, <2>2 DEF ReleaseQueue, TypeOK, Goto, Labels, MaybeService
<1>18. ASSUME NEW w \in Worker, PopEmpty(w) PROVE TypeOK'
  BY <1>18 DEF PopEmpty, Goto, Labels, MaybeService, TypeOK
<1>19. ASSUME NEW w \in Worker, PopFirst(w) PROVE TypeOK'
  <2>1. cur[w] \in Service
    BY <1>19 DEF PopFirst, At, Shape, LoopShape, CallShape
  <2>2. TakeTypes
    BY <1>19, <2>1, TakenTypes DEF PopFirst
  <2> QED
    BY <1>19, <2>2 DEF PopFirst, TypeOK, Goto, Labels, TakeTypes
<1>20. ASSUME NEW w \in Worker, Weigh(w) PROVE TypeOK'
  <2>1. cur[w] \in Service
    BY <1>20 DEF Weigh, At, Shape, LoopShape, CallShape
  <2>2. Len(mq[cur[w]]) \in Nat
    BY <2>1, SeqTypes DEF TypeOK
  <2> DEFINE n == Len(mq[cur[w]]) \div (2 ^ Weight[w])
  <2>3. n \in Int
    <3>1. 2 ^ Weight[w] \in Nat \ {0}
      BY <1>20, ShiftAssumption DEF Weigh, At, Shape, LoopShape, CallShape
    <3> HIDE DEF n
    <3> DEFINE d == 2 ^ Weight[w]
    <3>2. n = Len(mq[cur[w]]) \div d
      BY DEF n
    <3> HIDE DEF d
    <3> QED
      BY <2>2, <3>1, <3>2 DEF d
  <2> HIDE DEF n
  <2>4. left' \in [Worker -> Nat]
    BY <1>20, <2>3 DEF Weigh, TypeOK, n
  <2> QED
    BY <1>20, <2>4 DEF Weigh, TypeOK, Goto, Labels
<1>21. ASSUME NEW w \in Worker, PopAgain(w) PROVE TypeOK'
  <2>1. cur[w] \in Service /\ left[w] \in Nat /\ left[w] > 0
    BY <1>21 DEF PopAgain, At, Shape, LoopShape, CallShape, TypeOK
  <2>2. TakeTypes
    BY <1>21, <2>1, TakenTypes DEF PopAgain
  <2>3. left' \in [Worker -> Nat]
    BY <1>21, <2>1 DEF PopAgain, TypeOK
  <2> QED
    BY <1>21, <2>2, <2>3 DEF PopAgain, TypeOK, Goto, Labels, TakeTypes
<1>22. ASSUME NEW w \in Worker, Return(w) PROVE TypeOK'
  BY <1>22 DEF Return, Goto, Labels, TypeOK
<1>23. ASSUME NEW w \in Worker, Rotate(w) PROVE TypeOK'
  <2>1. CASE globalQ = <<>>
    BY <1>23, <2>1 DEF Rotate, Goto, Labels, TypeOK
  <2>2. CASE globalQ # <<>>
    <3>1. Head(globalQ) \in Service /\ Tail(globalQ) \in Seq(Service)
      BY <2>2, SeqTypes DEF TypeOK
    <3> QED
      BY <1>23, <2>2, <3>1 DEF Rotate, Goto, Labels, MaybeService, TypeOK
  <2> QED
    BY <2>1, <2>2
<1>24. ASSUME NEW w \in Worker, PushBack(w) PROVE TypeOK'
  BY <1>24, SeqTypes
     DEF PushBack, At, Goto, Labels, Shape, LoopShape, CallShape, MaybeService,
         TypeOK
<1>25. ASSUME NEW w \in Worker, PutContext(w) PROVE TypeOK'
  <2>1. w \in Thread /\ ctx[w] \in Service /\ ref[ctx[w]] > 0
    BY <1>25, DispatchAssumption
       DEF PutContext, At, TypeOK, Shape, LoopShape, CallShape, RefPositive,
           MaybeService
  <2>2. ref' \in [Service -> Nat] /\ del' \in [Thread -> MaybeService]
    BY <1>25, <2>1, PutTypes DEF PutContext
  <2> QED
    BY <1>25, <2>2 DEF PutContext, TypeOK, Goto, Labels, MaybeService
<1>26. ASSUME NEW t \in Thread, NEW s \in Service, BeginSend(t, s) PROVE TypeOK'
  <2>1. Running(t) \in MaybeService
    BY <1>26 DEF Running, TypeOK, MaybeService
  <2>2. sent + 1 \in 1 .. MaxMsg
    BY <1>26, DispatchAssumption DEF BeginSend, TypeOK
  <2>3. [do |-> "grab", svc |-> s,
         msg |-> [id |-> sent + 1, src |-> Running(t), err |-> FALSE]] \in Call
    BY <2>1, <2>2 DEF Call, Message, MaybeService
  <2> QED
    BY <1>26, <2>2, <2>3 DEF BeginSend, TypeOK, Fates
<1>27. ASSUME NEW t \in Thread, NEW s \in Service, Kill(t, s) PROVE TypeOK'
  BY <1>27, Calls DEF Kill, Retire, TypeOK
<1>28. ASSUME NEW t \in Thread, NEW s \in Service, BeginLaunch(t, s) PROVE TypeOK'
  BY <1>28 DEF BeginLaunch, LaunchSteps, MaybeService, TypeOK
<1>29. CASE UNCHANGED vars
  BY <1>29 DEF vars, TypeOK
<1> QED
  BY <1>1, <1>2, <1>3, <1>4, <1>5, <1>6, <1>7, <1>8, <1>9, <1>10, <1>11, <1>12,
     <1>13, <1>14, <1>15, <1>16, <1>17, <1>18, <1>19, <1>20, <1>21, <1>22,
     <1>23, <1>24, <1>25, <1>26, <1>27, <1>28, <1>29
     DEF Next, CallStep, LaunchStep, LoopStep, Choice

\* The shape is inductive given the types.
LEMMA ShapeStep ==
  ASSUME TypeOK, Shape, [Next]_vars
  PROVE  Shape'
<1> USE DEF service, queues, loop, calls, history
<1>1. ASSUME NEW t \in Thread, SendRefused(t) PROVE Shape'
  BY <1>1 DEF SendRefused, NoOp, TypeOK, Shape, LoopShape, CallShape
<1>2. ASSUME NEW t \in Thread, SendGrab(t) PROVE Shape'
  BY <1>2 DEF SendGrab, Advance, TypeOK, Shape, LoopShape, CallShape
<1>3. ASSUME NEW t \in Thread, SendPush(t) PROVE Shape'
  BY <1>3 DEF SendPush, Advance, TypeOK, Shape, LoopShape, CallShape
<1>4. ASSUME NEW t \in Thread, OpPut(t) PROVE Shape'
  BY <1>4 DEF OpPut, NoOp, TypeOK, Shape, LoopShape, CallShape
<1>5. ASSUME NEW t \in Thread, Delete(t) PROVE Shape'
  BY <1>5 DEF Delete, TypeOK, Shape, LoopShape, CallShape
<1>6. ASSUME NEW t \in Thread, DropMessage(t) PROVE Shape'
  <2>1. dropq[t] \in Service /\ Head(mq[dropq[t]]) \in Message
    BY <1>6, SeqTypes DEF DropMessage, TypeOK, MaybeService
  <2>2. Head(mq[dropq[t]]).src \in MaybeService
    BY <2>1 DEF Message
  <2> QED
    BY <1>6, <2>1, <2>2
       DEF DropMessage, MaybeService, TypeOK, Shape, LoopShape, CallShape
<1>7. ASSUME NEW t \in Thread, DropDone(t) PROVE Shape'
  BY <1>7 DEF DropDone, TypeOK, Shape, LoopShape, CallShape
<1>8. ASSUME NEW w \in Worker, InitOk(w) PROVE Shape'
  BY <1>8, DispatchAssumption
     DEF InitOk, MaybeService, TypeOK, Shape, LoopShape, CallShape
<1>9. ASSUME NEW w \in Worker, InitReady(w) PROVE Shape'
  BY <1>9, DispatchAssumption
     DEF InitReady, MaybeService, TypeOK, Shape, LoopShape, CallShape
<1>10. ASSUME NEW w \in Worker, LaunchEnqueue(w) PROVE Shape'
  BY <1>10, DispatchAssumption
     DEF LaunchEnqueue, LaunchDone, MaybeService, TypeOK, Shape, LoopShape,
         CallShape
<1>11. ASSUME NEW w \in Worker, InitFail(w) PROVE Shape'
  BY <1>11, DispatchAssumption
     DEF InitFail, MaybeService, TypeOK, Shape, LoopShape, CallShape
<1>12. ASSUME NEW w \in Worker, InitFailRetire(w) PROVE Shape'
  BY <1>12, DispatchAssumption
     DEF InitFailRetire, Retire, MaybeService, TypeOK, Shape, LoopShape,
         CallShape
<1>13. ASSUME NEW w \in Worker, InitFailRelease(w) PROVE Shape'
  BY <1>13, DispatchAssumption
     DEF InitFailRelease, LaunchDone, MaybeService, TypeOK, Shape, LoopShape,
         CallShape
<1>14. ASSUME NEW w \in Worker, Fetch(w) PROVE Shape'
  BY <1>14, DispatchAssumption
     DEF Fetch, At, Goto, MaybeService, TypeOK, Shape, LoopShape, CallShape
<1>15. ASSUME NEW w \in Worker, GrabContext(w) PROVE Shape'
  BY <1>15, DispatchAssumption
     DEF GrabContext, At, Goto, MaybeService, TypeOK, Shape, LoopShape,
         CallShape
<1>16. ASSUME NEW w \in Worker, GrabFails(w) PROVE Shape'
  BY <1>16, DispatchAssumption
     DEF GrabFails, At, Goto, MaybeService, TypeOK, Shape, LoopShape, CallShape
<1>17. ASSUME NEW w \in Worker, ReleaseQueue(w) PROVE Shape'
  BY <1>17, DispatchAssumption
     DEF ReleaseQueue, At, Goto, MaybeService, TypeOK, Shape, LoopShape,
         CallShape
<1>18. ASSUME NEW w \in Worker, PopEmpty(w) PROVE Shape'
  <2>1. \A t \in Thread : CallShape(t)'
    BY <1>18 DEF PopEmpty, Shape, CallShape
  <2>2. \A x \in Worker : LoopShape(x)'
    BY <1>18 DEF PopEmpty, At, Goto, TypeOK, Shape, LoopShape
  <2> QED
    BY <2>1, <2>2 DEF Shape
<1>19. ASSUME NEW w \in Worker, PopFirst(w) PROVE Shape'
  <2>1. \A t \in Thread : CallShape(t)'
    BY <1>19 DEF PopFirst, Shape, CallShape
  <2>2. \A x \in Worker : LoopShape(x)'
    BY <1>19 DEF PopFirst, At, Goto, TypeOK, Shape, LoopShape
  <2> QED
    BY <2>1, <2>2 DEF Shape
<1>20. ASSUME NEW w \in Worker, Weigh(w) PROVE Shape'
  <2>1. \A t \in Thread : CallShape(t)'
    BY <1>20 DEF Weigh, Shape, CallShape
  <2>2. \A x \in Worker : LoopShape(x)'
    BY <1>20 DEF Weigh, At, Goto, TypeOK, Shape, LoopShape
  <2> QED
    BY <2>1, <2>2 DEF Shape
<1>21. ASSUME NEW w \in Worker, PopAgain(w) PROVE Shape'
  <2>1. \A t \in Thread : CallShape(t)'
    BY <1>21 DEF PopAgain, Shape, CallShape
  <2>2. \A x \in Worker : LoopShape(x)'
    BY <1>21 DEF PopAgain, At, Goto, TypeOK, Shape, LoopShape
  <2> QED
    BY <2>1, <2>2 DEF Shape
<1>22. ASSUME NEW w \in Worker, Return(w) PROVE Shape'
  <2>1. \A t \in Thread : CallShape(t)'
    BY <1>22 DEF Return, Shape, CallShape
  <2>2. \A x \in Worker : LoopShape(x)'
    BY <1>22 DEF Return, At, Goto, TypeOK, Shape, LoopShape
  <2> QED
    BY <2>1, <2>2 DEF Shape
<1>23. ASSUME NEW w \in Worker, Rotate(w) PROVE Shape'
  <2>1. globalQ # <<>> => Head(globalQ) \in Service
    BY SeqTypes DEF TypeOK
  <2>2. CASE globalQ = <<>>
    BY <1>23, <2>2, DispatchAssumption
       DEF Rotate, At, Goto, TypeOK, Shape, LoopShape, CallShape
  <2>3. CASE globalQ # <<>>
    <3>1. /\ pc[w] = "rotate" /\ pc' = [pc EXCEPT ![w] = "push_back"]
          /\ nxt' = [nxt EXCEPT ![w] = Head(globalQ)]
          /\ cur' = cur /\ ctx' = ctx /\ left' = left
          /\ op' = op /\ launch' = launch /\ lstep' = lstep
      BY <1>23, <2>3 DEF Rotate, At, Goto
    <3>2. Head(globalQ) # None
      BY <2>1, <2>3, DispatchAssumption
    <3>3. \A t \in Thread : CallShape(t)'
      BY <3>1 DEF Shape, CallShape
    <3>4. \A u \in Worker : LoopShape(u)'
      BY <3>1, <3>2 DEF Shape, LoopShape, TypeOK
    <3> QED
      BY <3>3, <3>4 DEF Shape
  <2> QED
    BY <2>2, <2>3
<1>24. ASSUME NEW w \in Worker, PushBack(w) PROVE Shape'
  BY <1>24, DispatchAssumption
     DEF PushBack, At, Goto, MaybeService, TypeOK, Shape, LoopShape, CallShape
<1>25. ASSUME NEW w \in Worker, PutContext(w) PROVE Shape'
  BY <1>25, DispatchAssumption
     DEF PutContext, At, Goto, MaybeService, TypeOK, Shape, LoopShape,
         CallShape
<1>26. ASSUME NEW t \in Thread, NEW s \in Service, BeginSend(t, s) PROVE Shape'
  BY <1>26, DispatchAssumption
     DEF BeginSend, MaybeService, TypeOK, Shape, LoopShape, CallShape
<1>27. ASSUME NEW t \in Thread, NEW s \in Service, Kill(t, s) PROVE Shape'
  BY <1>27, DispatchAssumption
     DEF Kill, Retire, MaybeService, TypeOK, Shape, LoopShape, CallShape
<1>28. ASSUME NEW t \in Thread, NEW s \in Service, BeginLaunch(t, s) PROVE Shape'
  BY <1>28, DispatchAssumption
     DEF BeginLaunch, InService, MaybeService, TypeOK, Shape, LoopShape,
         CallShape
<1>29. CASE UNCHANGED vars
  BY <1>29 DEF vars, Shape, LoopShape, CallShape
<1> QED
  BY <1>1, <1>2, <1>3, <1>4, <1>5, <1>6, <1>7, <1>8, <1>9, <1>10, <1>11, <1>12,
     <1>13, <1>14, <1>15, <1>16, <1>17, <1>18, <1>19, <1>20, <1>21, <1>22,
     <1>23, <1>24, <1>25, <1>26, <1>27, <1>28, <1>29
     DEF Next, CallStep, LaunchStep, LoopStep, Choice

-----------------------------------------------------------------------------
(***************************************************************************)
(* Counting references.                                                    *)
(***************************************************************************)
\* The sets of holders are finite, so that they have a cardinality.
LEMMA RefsFinite ==
  ASSUME NEW s \in Service
  PROVE  /\ IsFiniteSet(LoopRefs(s)) /\ Cardinality(LoopRefs(s)) \in Nat
         /\ IsFiniteSet(OpRefs(s)) /\ Cardinality(OpRefs(s)) \in Nat
         /\ IsFiniteSet(LaunchRefs(s)) /\ Cardinality(LaunchRefs(s)) \in Nat
<1>1. IsFiniteSet(Thread) /\ Worker \subseteq Thread
  BY DispatchAssumption
<1>2. /\ LoopRefs(s) \subseteq Thread /\ OpRefs(s) \subseteq Thread
      /\ LaunchRefs(s) \subseteq Thread
  BY <1>1 DEF LoopRefs, OpRefs, LaunchRefs
<1> QED
  BY <1>1, <1>2, FS_Subset, FS_CardinalityType

\* A set that gains or loses one element.
LEMMA Counted ==
  ASSUME NEW S, IsFiniteSet(S), Cardinality(S) \in Nat, NEW x
  PROVE  /\ x \notin S => Cardinality(S \cup {x}) = Cardinality(S) + 1
         /\ x \in S => /\ Cardinality(S) > 0
                       /\ Cardinality(S \ {x}) = Cardinality(S) - 1
<1>1. x \notin S => Cardinality(S \cup {x}) = Cardinality(S) + 1
  BY FS_AddElement
<1>2. x \in S => Cardinality(S) # 0
  BY FS_EmptySet
<1>3. x \in S => Cardinality(S \ {x}) = Cardinality(S) - 1
  BY FS_RemoveElement
<1> QED
  BY <1>1, <1>2, <1>3

\* A holder is counted.
LEMMA CountsPositive ==
  ASSUME TypeOK, Shape, RefCountExact
  PROVE  RefPositive
<1>1. ASSUME NEW s \in Service
      PROVE  /\ ref[s] \in Nat
             /\ slot[s] => ref[s] > 0
             /\ LoopRefs(s) # {} => ref[s] > 0
             /\ OpRefs(s) # {} => ref[s] > 0
             /\ LaunchRefs(s) # {} => ref[s] > 0
  <2>1. /\ LoopRefs(s) # {} => Cardinality(LoopRefs(s)) > 0
        /\ OpRefs(s) # {} => Cardinality(OpRefs(s)) > 0
        /\ LaunchRefs(s) # {} => Cardinality(LaunchRefs(s)) > 0
    BY RefsFinite, Counted
  <2> QED
    BY <2>1, RefsFinite DEF RefCountExact, TypeOK
<1>2. ASSUME NEW w \in Worker, ctx[w] # None PROVE ref[ctx[w]] > 0
  <2>1. ctx[w] \in Service /\ w \in LoopRefs(ctx[w])
    BY <1>2 DEF LoopRefs, TypeOK, MaybeService
  <2> QED
    BY <2>1, <1>1
<1>3. ASSUME NEW t \in Thread, op[t].do \in {"push", "put"}
      PROVE  ref[op[t].svc] > 0
  <2>1. op[t].svc \in Service /\ t \in OpRefs(op[t].svc)
    BY <1>3 DEF OpRefs, Shape, CallShape
  <2> QED
    BY <2>1, <1>1
<1>4. ASSUME NEW t \in Thread, lstep[t] = "init"
      PROVE  ref[launch[t]] > 0
  <2>1. launch[t] \in Service /\ t \in LaunchRefs(launch[t])
    BY <1>4 DEF LaunchRefs, Shape, CallShape, TypeOK, MaybeService
  <2> QED
    BY <2>1, <1>1
<1> QED
  BY <1>1, <1>2, <1>3, <1>4 DEF RefPositive

\* What a step of one thread does to the three sets of holders: a send or a
\* kill takes a reference,
LEMMA OpJoins ==
  ASSUME TypeOK, TypeOK', NEW t \in Thread, NEW s \in Service,
         \A u \in Thread : u # t => op'[u] = op[u],
         op[t].do \notin {"push", "put"},
         op'[t].do \in {"push", "put"}, op'[t].svc = s
  PROVE  \A x \in Service :
           Cardinality(OpRefs(x))' =
             IF x = s THEN Cardinality(OpRefs(x)) + 1
                      ELSE Cardinality(OpRefs(x))
<1>1. t \notin OpRefs(s) /\ OpRefs(s)' = OpRefs(s) \cup {t}
  BY DEF OpRefs
<1>2. \A x \in Service : x # s => OpRefs(x)' = OpRefs(x)
  BY DEF OpRefs
<1> QED
  BY <1>1, <1>2, RefsFinite, Counted

\* and gives it up.
LEMMA OpLeaves ==
  ASSUME TypeOK, TypeOK', NEW t \in Thread, NEW s \in Service,
         \A u \in Thread : u # t => op'[u] = op[u],
         op'[t].do \notin {"push", "put"},
         op[t].do \in {"push", "put"}, op[t].svc = s
  PROVE  \A x \in Service :
           Cardinality(OpRefs(x))' =
             IF x = s THEN Cardinality(OpRefs(x)) - 1
                      ELSE Cardinality(OpRefs(x))
<1>1. t \in OpRefs(s) /\ OpRefs(s)' = OpRefs(s) \ {t}
  BY DEF OpRefs
<1>2. \A x \in Service : x # s => OpRefs(x)' = OpRefs(x)
  BY DEF OpRefs
<1> QED
  BY <1>1, <1>2, RefsFinite, Counted

\* A worker grabs the context of a batch.
LEMMA LoopJoins ==
  ASSUME TypeOK, NEW w \in Worker, NEW s \in Service,
         ctx[w] = None, ctx' = [ctx EXCEPT ![w] = s]
  PROVE  \A x \in Service :
           Cardinality(LoopRefs(x))' =
             IF x = s THEN Cardinality(LoopRefs(x)) + 1
                      ELSE Cardinality(LoopRefs(x))
<1>1. w \notin LoopRefs(s) /\ LoopRefs(s)' = LoopRefs(s) \cup {w}
  BY DispatchAssumption DEF LoopRefs, TypeOK
<1>2. \A x \in Service : x # s => LoopRefs(x)' = LoopRefs(x)
  BY DispatchAssumption DEF LoopRefs, TypeOK
<1> QED
  BY <1>1, <1>2, RefsFinite, Counted

\* It gives the context back.
LEMMA LoopLeaves ==
  ASSUME TypeOK, NEW w \in Worker, NEW s \in Service,
         ctx[w] = s, ctx' = [ctx EXCEPT ![w] = None]
  PROVE  \A x \in Service :
           Cardinality(LoopRefs(x))' =
             IF x = s THEN Cardinality(LoopRefs(x)) - 1
                      ELSE Cardinality(LoopRefs(x))
<1>1. w \in LoopRefs(s) /\ LoopRefs(s)' = LoopRefs(s) \ {w}
  BY DispatchAssumption DEF LoopRefs, TypeOK
<1>2. \A x \in Service : x # s => LoopRefs(x)' = LoopRefs(x)
  BY DispatchAssumption DEF LoopRefs, TypeOK
<1> QED
  BY <1>1, <1>2, RefsFinite, Counted

\* A launch holds the reference of its caller,
LEMMA LaunchJoins ==
  ASSUME TypeOK, NEW t \in Thread, NEW s \in Service,
         launch[t] = None, launch' = [launch EXCEPT ![t] = s],
         lstep' = [lstep EXCEPT ![t] = "init"]
  PROVE  \A x \in Service :
           Cardinality(LaunchRefs(x))' =
             IF x = s THEN Cardinality(LaunchRefs(x)) + 1
                      ELSE Cardinality(LaunchRefs(x))
<1>1. t \notin LaunchRefs(s) /\ LaunchRefs(s)' = LaunchRefs(s) \cup {t}
  BY DispatchAssumption DEF LaunchRefs, TypeOK
<1>2. \A x \in Service : x # s => LaunchRefs(x)' = LaunchRefs(x)
  BY DispatchAssumption DEF LaunchRefs, TypeOK
<1> QED
  BY <1>1, <1>2, RefsFinite, Counted

\* until the init function returns.
LEMMA LaunchLeaves ==
  ASSUME TypeOK, TypeOK', NEW t \in Thread, NEW s \in Service,
         launch[t] = s, launch' = launch, lstep[t] = "init", lstep'[t] # "init",
         \A u \in Thread : u # t => lstep'[u] = lstep[u]
  PROVE  \A x \in Service :
           Cardinality(LaunchRefs(x))' =
             IF x = s THEN Cardinality(LaunchRefs(x)) - 1
                      ELSE Cardinality(LaunchRefs(x))
<1>1. t \in LaunchRefs(s) /\ LaunchRefs(s)' = LaunchRefs(s) \ {t}
  BY DEF LaunchRefs
<1>2. \A x \in Service : x # s => LaunchRefs(x)' = LaunchRefs(x)
  BY DEF LaunchRefs
<1> QED
  BY <1>1, <1>2, RefsFinite, Counted

\* Steps that move no reference.
LEMMA OpKeeps ==
  ASSUME NEW t \in Thread,
         \A u \in Thread : u # t => op'[u] = op[u],
         \/ op[t].do \notin {"push", "put"} /\ op'[t].do \notin {"push", "put"}
         \/ /\ op[t].do \in {"push", "put"} /\ op'[t].do \in {"push", "put"}
            /\ op'[t].svc = op[t].svc
  PROVE  \A x \in Service : Cardinality(OpRefs(x))' = Cardinality(OpRefs(x))
<1>1. \A x \in Service : OpRefs(x)' = OpRefs(x)
  BY DEF OpRefs
<1> QED
  BY <1>1

\* The other steps of a launch.
LEMMA LaunchKeeps ==
  ASSUME NEW t \in Thread,
         \A u \in Thread :
           u # t => lstep'[u] = lstep[u] /\ launch'[u] = launch[u],
         lstep[t] # "init", lstep'[t] # "init"
  PROVE  \A x \in Service : Cardinality(LaunchRefs(x))' = Cardinality(LaunchRefs(x))
<1>1. \A x \in Service : LaunchRefs(x)' = LaunchRefs(x)
  BY DEF LaunchRefs
<1> QED
  BY <1>1

\* Steps that touch none of the variables.
LEMMA HoldersSame ==
  /\ ctx' = ctx =>
       \A x \in Service : Cardinality(LoopRefs(x))' = Cardinality(LoopRefs(x))
  /\ op' = op =>
       \A x \in Service : Cardinality(OpRefs(x))' = Cardinality(OpRefs(x))
  /\ launch' = launch /\ lstep' = lstep =>
       \A x \in Service : Cardinality(LaunchRefs(x))' = Cardinality(LaunchRefs(x))
  BY DEF LoopRefs, OpRefs, LaunchRefs

\* The reference count goes with the holders.
LEMMA CountStep ==
  ASSUME TypeOK, TypeOK', Shape, RefCountExact, Lives, [Next]_vars
  PROVE  RefCountExact'
<1> USE DEF service, queues, loop, calls, history
<1>0. RefPositive
  BY CountsPositive
<1>a. \A x \in Service : /\ Cardinality(LoopRefs(x)) \in Nat
                         /\ Cardinality(OpRefs(x)) \in Nat
                         /\ Cardinality(LaunchRefs(x)) \in Nat
  BY RefsFinite
<1>b. \A x \in Service :
        ref[x] = (IF slot[x] THEN 1 ELSE 0) + Cardinality(LoopRefs(x))
                 + Cardinality(OpRefs(x)) + Cardinality(LaunchRefs(x))
  BY DEF RefCountExact
<1>c. ref \in [Service -> Nat] /\ slot \in [Service -> BOOLEAN]
  BY DEF TypeOK
<1>d. Worker \subseteq Thread /\ None \notin Service
  BY DispatchAssumption
<1>1. ASSUME NEW t \in Thread, SendRefused(t) \/ SendPush(t) \/ DropMessage(t)
      PROVE  RefCountExact'
  <2>1. /\ ref' = ref /\ slot' = slot /\ ctx' = ctx
        /\ launch' = launch /\ lstep' = lstep
    BY <1>1 DEF SendRefused, SendPush, DropMessage
  <2>2. /\ \A u \in Thread : u # t => op'[u] = op[u]
        /\ \/ op[t].do \notin {"push", "put"} /\ op'[t].do \notin {"push", "put"}
           \/ /\ op[t].do \in {"push", "put"} /\ op'[t].do \in {"push", "put"}
              /\ op'[t].svc = op[t].svc
    <3>0. op \in [Thread -> Call]
      BY DEF TypeOK
    <3>1. CASE SendRefused(t)
      <4>1. op[t].do = "grab" /\ op' = [op EXCEPT ![t] = NoOp]
        BY <3>1 DEF SendRefused
      <4> QED
        BY <3>0, <4>1 DEF NoOp
    <3>2. CASE SendPush(t)
      <4>1. op[t].do = "push"
        BY <3>2 DEF SendPush
      <4>2. op' = [op EXCEPT ![t] =
                     [do |-> "put", svc |-> op[t].svc, msg |-> op[t].msg]]
        BY <3>2 DEF SendPush, Advance
      <4> QED
        BY <3>0, <4>1, <4>2
    <3>3. CASE DropMessage(t)
      <4>1. op[t].do = "idle"
        BY <3>3 DEF DropMessage, CallsDone
      <4>2. \/ op' = op
            \/ \E m, s : op' = [op EXCEPT ![t] =
                     [do |-> "grab", svc |-> m.src,
                      msg |-> [id |-> m.id, src |-> s, err |-> TRUE]]]
        BY <3>3 DEF DropMessage
      <4> QED
        BY <3>0, <4>1, <4>2
    <3> QED
      BY <1>1, <3>1, <3>2, <3>3
  <2> QED
    BY <2>1, <2>2, <1>b, OpKeeps, HoldersSame DEF RefCountExact
<1>2. ASSUME NEW t \in Thread, SendGrab(t) PROVE RefCountExact'
  <2> DEFINE s == op[t].svc
  <2>1. /\ s \in Service /\ slot' = slot /\ ctx' = ctx
        /\ ref' = [ref EXCEPT ![s] = @ + 1]
        /\ launch' = launch /\ lstep' = lstep
    BY <1>2 DEF SendGrab, Grab, Shape, CallShape
  <2>2. /\ \A u \in Thread : u # t => op'[u] = op[u]
        /\ op[t].do \notin {"push", "put"}
        /\ op'[t].do \in {"push", "put"} /\ op'[t].svc = s
    BY <1>2 DEF SendGrab, Advance, TypeOK
  <2> HIDE DEF s
  <2>3. \A x \in Service :
          Cardinality(OpRefs(x))' =
            IF x = s THEN Cardinality(OpRefs(x)) + 1 ELSE Cardinality(OpRefs(x))
    BY <2>1, <2>2, OpJoins
  <2> QED
    BY <2>1, <2>3, <1>a, <1>b, <1>c, HoldersSame DEF RefCountExact
<1>3. ASSUME NEW t \in Thread, OpPut(t) PROVE RefCountExact'
  <2> DEFINE s == op[t].svc
  <2>1. /\ s \in Service /\ slot' = slot /\ ctx' = ctx
        /\ ref' = [ref EXCEPT ![s] = @ - 1]
        /\ launch' = launch /\ lstep' = lstep
    BY <1>3 DEF OpPut, Put, Shape, CallShape
  <2>2. /\ \A u \in Thread : u # t => op'[u] = op[u]
        /\ op'[t].do \notin {"push", "put"}
        /\ op[t].do \in {"push", "put"} /\ op[t].svc = s
    BY <1>3 DEF OpPut, NoOp, TypeOK
  <2> HIDE DEF s
  <2>3. \A x \in Service :
          Cardinality(OpRefs(x))' =
            IF x = s THEN Cardinality(OpRefs(x)) - 1 ELSE Cardinality(OpRefs(x))
    BY <2>1, <2>2, OpLeaves
  <2> QED
    BY <2>1, <2>3, <1>a, <1>b, <1>c, HoldersSame DEF RefCountExact
<1>4. ASSUME NEW w \in Worker, GrabContext(w) PROVE RefCountExact'
  <2> DEFINE s == cur[w]
  <2>1. /\ s \in Service /\ slot' = slot /\ op' = op
        /\ ref' = [ref EXCEPT ![s] = @ + 1]
        /\ launch' = launch /\ lstep' = lstep
        /\ ctx[w] = None /\ ctx' = [ctx EXCEPT ![w] = s]
    BY <1>4 DEF GrabContext, Grab, At, Shape, LoopShape
  <2> HIDE DEF s
  <2>2. \A x \in Service :
          Cardinality(LoopRefs(x))' =
            IF x = s THEN Cardinality(LoopRefs(x)) + 1
                     ELSE Cardinality(LoopRefs(x))
    BY <2>1, LoopJoins
  <2> QED
    BY <2>1, <2>2, <1>a, <1>b, <1>c, HoldersSame DEF RefCountExact
<1>5. ASSUME NEW w \in Worker, PutContext(w) PROVE RefCountExact'
  <2> DEFINE s == ctx[w]
  <2>1. /\ s \in Service /\ slot' = slot /\ op' = op
        /\ ref' = [ref EXCEPT ![s] = @ - 1]
        /\ launch' = launch /\ lstep' = lstep
        /\ ctx[w] = s /\ ctx' = [ctx EXCEPT ![w] = None]
    BY <1>5 DEF PutContext, Put, At, Shape, LoopShape
  <2> HIDE DEF s
  <2>2. \A x \in Service :
          Cardinality(LoopRefs(x))' =
            IF x = s THEN Cardinality(LoopRefs(x)) - 1
                     ELSE Cardinality(LoopRefs(x))
    BY <2>1, LoopLeaves
  <2> QED
    BY <2>1, <2>2, <1>a, <1>b, <1>c, HoldersSame DEF RefCountExact
<1>6. ASSUME NEW t \in Worker, InitOk(t) \/ InitFail(t) PROVE RefCountExact'
  <2> DEFINE s == launch[t]
  <2>1. /\ t \in Thread /\ s \in Service /\ slot' = slot /\ op' = op /\ ctx' = ctx
        /\ ref' = [ref EXCEPT ![s] = @ - 1]
        /\ launch' = launch /\ lstep[t] = "init" /\ lstep'[t] # "init"
        /\ \A u \in Thread : u # t => lstep'[u] = lstep[u]
    BY <1>6, <1>d
       DEF InitOk, InitFail, Put, Shape, CallShape, TypeOK, MaybeService
  <2>2. launch[t] = s
    OBVIOUS
  <2> HIDE DEF s
  <2>3. \A x \in Service :
          Cardinality(LaunchRefs(x))' =
            IF x = s THEN Cardinality(LaunchRefs(x)) - 1
                     ELSE Cardinality(LaunchRefs(x))
    BY <2>1, <2>2, LaunchLeaves
  <2> QED
    BY <2>1, <2>3, <1>a, <1>b, <1>c, HoldersSame DEF RefCountExact
<1>7. ASSUME NEW t \in Worker,
             InitReady(t) \/ LaunchEnqueue(t) \/ InitFailRelease(t)
      PROVE  RefCountExact'
  <2>1. /\ t \in Thread /\ slot' = slot /\ op' = op /\ ctx' = ctx /\ ref' = ref
        /\ lstep[t] # "init" /\ lstep'[t] # "init"
        /\ \A u \in Thread :
             u # t => lstep'[u] = lstep[u] /\ launch'[u] = launch[u]
    BY <1>7, <1>d
       DEF InitReady, LaunchEnqueue, InitFailRelease, LaunchDone, TypeOK
  <2>2. \A x \in Service :
          Cardinality(LaunchRefs(x))' = Cardinality(LaunchRefs(x))
    BY <2>1, LaunchKeeps
  <2> QED
    BY <2>1, <2>2, <1>b, HoldersSame DEF RefCountExact
<1>8. ASSUME NEW t \in Worker, InitFailRetire(t) PROVE RefCountExact'
  <2> DEFINE s == launch[t]
  <2>1. /\ t \in Thread /\ s \in Service /\ ctx' = ctx /\ ref' = ref
        /\ lstep[t] # "init" /\ lstep'[t] # "init"
        /\ \A u \in Thread :
             u # t => lstep'[u] = lstep[u] /\ launch'[u] = launch[u]
        /\ op[t].do \notin {"push", "put"}
    BY <1>8, <1>d
       DEF InitFailRetire, Free, CallsDone, Shape, CallShape, TypeOK,
           MaybeService
  <2>2. \A x \in Service :
          Cardinality(LaunchRefs(x))' = Cardinality(LaunchRefs(x))
    BY <2>1, LaunchKeeps
  <2>3. CASE slot[s]
    <3>1. slot' = [slot EXCEPT ![s] = FALSE]
      BY <1>8, <2>3 DEF InitFailRetire, Retire
    <3>2. /\ \A u \in Thread : u # t => op'[u] = op[u]
          /\ op'[t].do \in {"push", "put"} /\ op'[t].svc = s
      BY <1>8, <2>1, <2>3 DEF InitFailRetire, Retire, TypeOK
    <3> HIDE DEF s
    <3>3. \A x \in Service :
            Cardinality(OpRefs(x))' =
              IF x = s THEN Cardinality(OpRefs(x)) + 1
                       ELSE Cardinality(OpRefs(x))
      BY <2>1, <3>2, OpJoins
    <3> QED
      BY <2>1, <2>2, <2>3, <3>1, <3>3, <1>a, <1>b, <1>c, HoldersSame
         DEF RefCountExact
  <2>4. CASE ~slot[s]
    <3>1. slot' = slot /\ op' = op
      BY <1>8, <2>4 DEF InitFailRetire
    <3> QED
      BY <2>1, <2>2, <3>1, <1>b, HoldersSame DEF RefCountExact
  <2> QED
    BY <2>3, <2>4
<1>9. ASSUME NEW t \in Thread, NEW s \in Service, BeginSend(t, s)
      PROVE  RefCountExact'
  <2>1. /\ ref' = ref /\ slot' = slot /\ ctx' = ctx
        /\ launch' = launch /\ lstep' = lstep
    BY <1>9 DEF BeginSend
  <2>2. /\ \A u \in Thread : u # t => op'[u] = op[u]
        /\ op[t].do \notin {"push", "put"} /\ op'[t].do \notin {"push", "put"}
    BY <1>9 DEF BeginSend, MaySend, InService, Free, CallsDone, TypeOK
  <2> QED
    BY <2>1, <2>2, <1>b, OpKeeps, HoldersSame DEF RefCountExact
<1>10. ASSUME NEW t \in Thread, NEW s \in Service, Kill(t, s)
       PROVE  RefCountExact'
  <2>1. /\ ref' = ref /\ ctx' = ctx /\ launch' = launch /\ lstep' = lstep
        /\ slot[s] /\ slot' = [slot EXCEPT ![s] = FALSE]
    BY <1>10 DEF Kill, Retire
  <2>2. /\ \A u \in Thread : u # t => op'[u] = op[u]
        /\ op[t].do \notin {"push", "put"}
        /\ op'[t].do \in {"push", "put"} /\ op'[t].svc = s
    BY <1>10 DEF Kill, Retire, InService, Free, CallsDone, TypeOK
  <2>3. \A x \in Service :
          Cardinality(OpRefs(x))' =
            IF x = s THEN Cardinality(OpRefs(x)) + 1 ELSE Cardinality(OpRefs(x))
    BY <2>2, OpJoins
  <2> QED
    BY <2>1, <2>3, <1>a, <1>b, <1>c, HoldersSame DEF RefCountExact
<1>11. ASSUME NEW t \in Thread, NEW s \in Service, BeginLaunch(t, s)
       PROVE  RefCountExact'
  <2>1. /\ ref' = [ref EXCEPT ![s] = 2] /\ slot' = [slot EXCEPT ![s] = TRUE]
        /\ ctx' = ctx /\ op' = op
        /\ launch[t] = None /\ launch' = [launch EXCEPT ![t] = s]
        /\ lstep' = [lstep EXCEPT ![t] = "init"]
    BY <1>11 DEF BeginLaunch
  <2>2. ref[s] = 0
    BY <1>11, <1>c DEF BeginLaunch, Lives
  <2>3. \A x \in Service :
          Cardinality(LaunchRefs(x))' =
            IF x = s THEN Cardinality(LaunchRefs(x)) + 1
                     ELSE Cardinality(LaunchRefs(x))
    BY <2>1, LaunchJoins
  <2> QED
    BY <2>1, <2>2, <2>3, <1>a, <1>b, <1>c, HoldersSame DEF RefCountExact
<1>12. ASSUME NEW t \in Thread, Delete(t) \/ DropDone(t) PROVE RefCountExact'
  BY <1>12, <1>b, HoldersSame DEF Delete, DropDone, RefCountExact
<1>13. ASSUME NEW w \in Worker,
              \/ Fetch(w) \/ GrabFails(w) \/ ReleaseQueue(w) \/ PopEmpty(w)
              \/ PopFirst(w) \/ Weigh(w) \/ PopAgain(w) \/ Return(w)
              \/ Rotate(w) \/ PushBack(w)
       PROVE  RefCountExact'
  <2>1. /\ ref' = ref /\ slot' = slot /\ ctx' = ctx /\ op' = op
        /\ launch' = launch /\ lstep' = lstep
    BY <1>13
       DEF Fetch, GrabFails, ReleaseQueue, PopEmpty, PopFirst, Weigh, PopAgain,
           Return, Rotate, PushBack
  <2> QED
    BY <2>1, <1>b, HoldersSame DEF RefCountExact
<1>14. CASE UNCHANGED vars
  BY <1>14, <1>b, HoldersSame DEF vars, RefCountExact
<1> QED
  BY <1>1, <1>2, <1>3, <1>4, <1>5, <1>6, <1>7, <1>8, <1>9, <1>10, <1>11, <1>12,
     <1>13, <1>14
     DEF Next, CallStep, LaunchStep, LoopStep, Choice

-----------------------------------------------------------------------------
(***************************************************************************)
(* The life of a context and of its queue.                                 *)
(***************************************************************************)

\* A reference taken from somebody who has one finds the context alive.
LEMMA GrabLives ==
  ASSUME TypeOK, Lives, NEW s \in Service, ref[s] > 0, Grab(s),
         UNCHANGED <<context, queue, release, del, dropq>>
  PROVE  Lives'
  BY DEF TypeOK, Lives, Grab, MaybeService

\* Whoever takes the count to zero is the only one to delete the context.
LEMMA PutLives ==
  ASSUME TypeOK, Lives, NEW t \in Thread, NEW s \in Service,
         ref[s] > 0, del[t] = None, Put(t, s),
         UNCHANGED <<context, queue, release, dropq>>
  PROVE  Lives'
<1>1. /\ ref' = [ref EXCEPT ![s] = @ - 1]
      /\ del' = [del EXCEPT ![t] = IF ref[s] = 1 THEN s ELSE None]
  BY DEF Put
<1>2. context[s] = "live" /\ \A u \in Thread : del[u] # s
  BY DispatchAssumption DEF Lives
<1>3. \A x \in Service : ref'[x] > 0 => ref[x] > 0
  BY <1>1 DEF TypeOK
<1>4. ASSUME NEW u \in Thread, del'[u] # None
      PROVE  ref'[del'[u]] = 0 /\ context[del'[u]] = "live"
  <2>1. CASE u = t
    BY <1>1, <1>2, <1>4, <2>1 DEF TypeOK
  <2>2. CASE u # t
    <3>1. del'[u] = del[u] /\ del[u] \in Service /\ del[u] # s
      BY <1>1, <1>2, <1>4, <2>2 DEF TypeOK, MaybeService
    <3> QED
      BY <1>1, <1>4, <3>1 DEF TypeOK, Lives
  <2> QED
    BY <2>1, <2>2
<1>5. \A u, v \in Thread : del'[u] # None /\ del'[u] = del'[v] => u = v
  BY <1>1, <1>2 DEF TypeOK, Lives
<1> QED
  BY <1>3, <1>4, <1>5 DEF Lives

\* A queue is dropped only when it is marked.
LEMMA MqReleaseLives ==
  ASSUME TypeOK, Lives, NEW t \in Thread, NEW s \in Service, MqRelease(t, s),
         UNCHANGED <<context, queue, release, ref, del>>
  PROVE  Lives'
<1>1. \A u \in Thread : dropq'[u] # None => release[dropq'[u]]
  <2>1. CASE release[s]
    <3>1. dropq' = [dropq EXCEPT ![t] = s]
      BY <2>1 DEF MqRelease
    <3> QED
      BY <2>1, <3>1 DEF TypeOK, Lives
  <2>2. CASE ~release[s]
    BY <2>2 DEF MqRelease, Lives
  <2> QED
    BY <2>1, <2>2
<1> QED
  BY <1>1 DEF Lives

\* The life of contexts and queues is inductive given the counts.
LEMMA LivesStep ==
  ASSUME TypeOK, Shape, RefCountExact, Lives, [Next]_vars
  PROVE  Lives'
<1> USE DEF service, queues, loop, calls, history
<1>0. RefPositive
  BY CountsPositive
<1>a. Worker \subseteq Thread /\ None \notin Service
  BY DispatchAssumption
<1>1. ASSUME NEW t \in Thread, SendGrab(t) PROVE Lives'
  <2>1. op[t].svc \in Service /\ ref[op[t].svc] > 0
    BY <1>0, <1>1 DEF SendGrab, Shape, CallShape, RefPositive
  <2> QED
    BY <1>1, <2>1, GrabLives DEF SendGrab
<1>2. ASSUME NEW t \in Thread, OpPut(t) PROVE Lives'
  <2>1. op[t].svc \in Service /\ ref[op[t].svc] > 0
    BY <1>0, <1>2 DEF OpPut, Shape, CallShape, RefPositive
  <2> QED
    BY <1>2, <2>1, PutLives DEF OpPut
<1>3. ASSUME NEW w \in Worker, GrabContext(w) PROVE Lives'
  <2>1. cur[w] \in Service /\ ref[cur[w]] > 0
    BY <1>0, <1>3 DEF GrabContext, At, Shape, LoopShape, RefPositive
  <2> QED
    BY <1>3, <2>1, GrabLives DEF GrabContext
<1>4. ASSUME NEW w \in Worker, PutContext(w) PROVE Lives'
  <2>1. w \in Thread /\ ctx[w] \in Service /\ ref[ctx[w]] > 0 /\ del[w] = None
    BY <1>0, <1>4, <1>a
       DEF PutContext, At, Free, CallsDone, Shape, LoopShape, RefPositive
  <2> QED
    BY <1>4, <2>1, PutLives DEF PutContext
<1>5. ASSUME NEW t \in Worker, InitOk(t) \/ InitFail(t) PROVE Lives'
  <2>1. /\ t \in Thread /\ launch[t] \in Service /\ ref[launch[t]] > 0
        /\ del[t] = None /\ Put(t, launch[t])
        /\ UNCHANGED <<context, queue, release, dropq>>
    BY <1>0, <1>5, <1>a
       DEF InitOk, InitFail, Free, CallsDone, Shape, CallShape, RefPositive,
           TypeOK, MaybeService
  <2> QED
    BY <2>1, PutLives
<1>6. ASSUME NEW t \in Worker, InitFailRelease(t) PROVE Lives'
  <2>1. t \in Thread /\ launch[t] \in Service
    BY <1>6, <1>a DEF InitFailRelease, Shape, CallShape, TypeOK, MaybeService
  <2> QED
    BY <1>6, <2>1, MqReleaseLives DEF InitFailRelease
<1>7. ASSUME NEW w \in Worker, ReleaseQueue(w) PROVE Lives'
  <2>1. w \in Thread /\ cur[w] \in Service
    BY <1>7, <1>a DEF ReleaseQueue, At, Shape, LoopShape
  <2> QED
    BY <1>7, <2>1, MqReleaseLives DEF ReleaseQueue
<1>8. ASSUME NEW t \in Thread, Delete(t) PROVE Lives'
  <2> DEFINE s == del[t]
  <2>1. /\ s \in Service /\ del[t] = s /\ s # None
        /\ release' = [release EXCEPT ![s] = TRUE]
        /\ context' = [context EXCEPT ![s] = "freed"]
        /\ del' = [del EXCEPT ![t] = None]
        /\ queue' = queue /\ ref' = ref /\ dropq' = dropq
    BY <1>8 DEF Delete, MarkRelease, TypeOK, MaybeService
  <2> HIDE DEF s
  <2>2. ref[s] = 0 /\ context[s] = "live" /\ queue[s] # "none"
    BY <2>1 DEF Lives
  <2>3. \A u \in Thread : u # t => del[u] # s
    BY <2>1 DEF Lives
  <2>4. \A x \in Service :
          /\ context'[x] = "none" <=> queue'[x] = "none"
          /\ context'[x] = "freed" <=> release'[x]
          /\ queue'[x] = "freed" => release'[x]
          /\ ref'[x] > 0 => context'[x] = "live"
    BY <2>1, <2>2 DEF Lives, TypeOK
  <2>5. \A u \in Thread :
          /\ del'[u] # None => ref'[del'[u]] = 0 /\ context'[del'[u]] = "live"
          /\ dropq'[u] # None => release'[dropq'[u]]
    BY <2>1, <2>3 DEF Lives, TypeOK, MaybeService
  <2>6. \A u, v \in Thread : del'[u] # None /\ del'[u] = del'[v] => u = v
    BY <2>1 DEF Lives, TypeOK
  <2> QED
    BY <2>4, <2>5, <2>6 DEF Lives
<1>9. ASSUME NEW t \in Thread, DropDone(t) PROVE Lives'
  <2>1. dropq[t] \in Service /\ release[dropq[t]] /\ queue[dropq[t]] # "none"
    BY <1>9 DEF DropDone, Lives, TypeOK, MaybeService
  <2> QED
    BY <1>9, <2>1 DEF DropDone, Lives, TypeOK
<1>10. ASSUME NEW t \in Thread, NEW s \in Service, BeginLaunch(t, s) PROVE Lives'
  <2>1. /\ ref' = [ref EXCEPT ![s] = 2]
        /\ context' = [context EXCEPT ![s] = "live"]
        /\ queue' = [queue EXCEPT ![s] = "live"]
        /\ release' = release /\ del' = del /\ dropq' = dropq
    BY <1>10 DEF BeginLaunch
  <2>2. context[s] = "none" /\ ~release[s] /\ \A u \in Thread : del[u] # s
    BY <1>10, <1>a DEF BeginLaunch, Lives
  <2> QED
    BY <2>1, <2>2 DEF Lives, TypeOK, MaybeService
<1>11. ASSUME UNCHANGED <<ref, context, queue, release, del, dropq>>
       PROVE  Lives'
  BY <1>11 DEF Lives
<1>12. ASSUME NEW t \in Thread, SendRefused(t) \/ SendPush(t) \/ DropMessage(t)
       PROVE  Lives'
  BY <1>11, <1>12 DEF SendRefused, SendPush, DropMessage
<1>13. ASSUME NEW t \in Worker,
              InitReady(t) \/ LaunchEnqueue(t) \/ InitFailRetire(t)
       PROVE  Lives'
  BY <1>11, <1>13 DEF InitReady, LaunchEnqueue, InitFailRetire
<1>14. ASSUME NEW w \in Worker,
              \/ Fetch(w) \/ GrabFails(w) \/ PopEmpty(w) \/ PopFirst(w)
              \/ Weigh(w) \/ PopAgain(w) \/ Return(w) \/ Rotate(w) \/ PushBack(w)
       PROVE  Lives'
  BY <1>11, <1>14
     DEF Fetch, GrabFails, PopEmpty, PopFirst, Weigh, PopAgain, Return, Rotate,
         PushBack
<1>15. ASSUME NEW t \in Thread, NEW s \in Service, BeginSend(t, s) \/ Kill(t, s)
       PROVE  Lives'
  BY <1>11, <1>15 DEF BeginSend, Kill
<1>16. CASE UNCHANGED vars
  BY <1>11, <1>16 DEF vars
<1> QED
  BY <1>1, <1>2, <1>3, <1>4, <1>5, <1>6, <1>7, <1>8, <1>9, <1>10, <1>12, <1>13,
     <1>14, <1>15, <1>16
     DEF Next, CallStep, LaunchStep, LoopStep, Choice

-----------------------------------------------------------------------------
(***************************************************************************)
(* Queues move between the global queue and the hands of threads.          *)
(***************************************************************************)
\* A push to the global queue adds one place.
LEMMA WaitsAppend ==
  ASSUME TypeOK, NEW s \in Service, globalQ' = Append(globalQ, s)
  PROVE  \A x \in Service :
           Waits(x)' = IF x = s THEN Waits(x) \cup {Len(globalQ) + 1} ELSE Waits(x)
<1>1. /\ Len(globalQ) \in Nat /\ Len(globalQ') = Len(globalQ) + 1
      /\ \A i \in 1 .. Len(globalQ) : globalQ'[i] = globalQ[i]
      /\ globalQ'[Len(globalQ) + 1] = s
  BY AppendProperties, LenProperties DEF TypeOK
<1> QED
  BY <1>1 DEF Waits

\* A pop shifts the places down.
LEMMA WaitsTail ==
  ASSUME TypeOK, globalQ # <<>>, globalQ' = Tail(globalQ)
  PROVE  /\ Head(globalQ) \in Service /\ 1 \in Waits(Head(globalQ))
         /\ \A x \in Service, i \in Int :
              i \in Waits(x)' <=> i > 0 /\ i + 1 \in Waits(x)
<1>1. /\ Len(globalQ) \in Nat \ {0} /\ Len(globalQ') = Len(globalQ) - 1
      /\ \A i \in 1 .. Len(globalQ) - 1 : globalQ'[i] = globalQ[i + 1]
      /\ Head(globalQ) = globalQ[1] /\ globalQ[1] \in Service
  BY HeadTailProperties, LenProperties, EmptySeq, ElementOfSeq DEF TypeOK
<1>2. Waits(Head(globalQ)) = {i \in 1 .. Len(globalQ) : globalQ[i] = Head(globalQ)}
  BY DEF Waits
<1>3. 1 \in Waits(Head(globalQ))
  BY <1>1, <1>2
<1>4. ASSUME NEW x \in Service, NEW i \in Int
      PROVE  i \in Waits(x)' <=> i > 0 /\ i + 1 \in Waits(x)
  BY <1>1 DEF Waits
<1> QED
  BY <1>1, <1>3, <1>4

AllAlone == \A x \in Service : Alone(x)

\* A queue that is nowhere is pushed to the global queue.
LEMMA Enters ==
  ASSUME TypeOK, AllAlone, NEW s \in Service, ~Somewhere(s),
         globalQ' = Append(globalQ, s), \A x \in Service : Hands(x)' = Hands(x)
  PROVE  \A x \in Service : Alone(x)' /\ (Somewhere(x)' <=> x = s \/ Somewhere(x))
<1>1. Waits(s) = {} /\ Hands(s) = {}
  BY DEF Somewhere
<1>2. \A x \in Service :
        Waits(x)' = IF x = s THEN {Len(globalQ) + 1} ELSE Waits(x)
  BY <1>1, WaitsAppend
<1> QED
  BY <1>1, <1>2 DEF AllAlone, Alone, Somewhere

\* A thread pushes the queue in its hand to the global queue.
LEMMA HandToWait ==
  ASSUME TypeOK, AllAlone, NEW s \in Service, NEW h \in Hands(s),
         globalQ' = Append(globalQ, s), Hands(s)' = Hands(s) \ {h},
         \A x \in Service : x # s => Hands(x)' = Hands(x)
  PROVE  \A x \in Service : Alone(x)' /\ (Somewhere(x)' <=> Somewhere(x))
<1>1. Hands(s)' = {} /\ Waits(s) = {}
  BY DEF AllAlone, Alone
<1>2. \A x \in Service :
        Waits(x)' = IF x = s THEN {Len(globalQ) + 1} ELSE Waits(x)
  BY <1>1, WaitsAppend
<1> QED
  BY <1>1, <1>2 DEF AllAlone, Alone, Somewhere

\* It keeps the queue, in another way.
LEMMA HandToHand ==
  ASSUME AllAlone, NEW s \in Service, NEW g \in Hands(s), NEW h,
         globalQ' = globalQ, Hands(s)' = (Hands(s) \ {g}) \cup {h},
         \A x \in Service : x # s => Hands(x)' = Hands(x)
  PROVE  \A x \in Service : Alone(x)' /\ (Somewhere(x)' <=> Somewhere(x))
<1>1. Hands(s)' = {h} /\ Waits(s) = {}
  BY DEF AllAlone, Alone
<1>2. \A x \in Service : Waits(x)' = Waits(x)
  BY DEF Waits
<1> QED
  BY <1>1, <1>2 DEF AllAlone, Alone, Somewhere

\* It is done with the queue.
LEMMA HandGone ==
  ASSUME AllAlone, NEW s \in Service, NEW g \in Hands(s),
         globalQ' = globalQ, Hands(s)' = Hands(s) \ {g},
         \A x \in Service : x # s => Hands(x)' = Hands(x)
  PROVE  \A x \in Service : Alone(x)' /\ (Somewhere(x)' <=> x # s /\ Somewhere(x))
<1>1. Hands(s)' = {} /\ Waits(s) = {}
  BY DEF AllAlone, Alone
<1>2. \A x \in Service : Waits(x)' = Waits(x)
  BY DEF Waits
<1> QED
  BY <1>1, <1>2 DEF AllAlone, Alone, Somewhere

\* It has made the queue.
LEMMA HandNew ==
  ASSUME AllAlone, NEW s \in Service, NEW h, ~Somewhere(s),
         globalQ' = globalQ, Hands(s)' = Hands(s) \cup {h},
         \A x \in Service : x # s => Hands(x)' = Hands(x)
  PROVE  \A x \in Service : Alone(x)' /\ (Somewhere(x)' <=> x = s \/ Somewhere(x))
<1>1. \A x \in Service : Waits(x)' = Waits(x)
  BY DEF Waits
<1> QED
  BY <1>1 DEF AllAlone, Alone, Somewhere

\* A worker takes the head of the global queue.
LEMMA WaitToHand ==
  ASSUME TypeOK, AllAlone, globalQ # <<>>, globalQ' = Tail(globalQ), NEW h,
         NEW s \in Service, s = Head(globalQ),
         Hands(s)' = Hands(s) \cup {h},
         \A x \in Service : x # s => Hands(x)' = Hands(x)
  PROVE  \A x \in Service : Alone(x)' /\ (Somewhere(x)' <=> Somewhere(x))
<1>1. /\ 1 \in Waits(s)
      /\ \A x \in Service, i \in Int :
           i \in Waits(x)' <=> i > 0 /\ i + 1 \in Waits(x)
  BY WaitsTail
<1>2. \A x \in Service : Waits(x) \subseteq Nat \ {0} /\ Waits(x)' \subseteq Int
  BY DEF Waits
<1>3. Waits(s)' = {} /\ Hands(s) = {} /\ Hands(s)' = {h}
  <2>1. /\ \A i, j \in Waits(s) : i = j
        /\ Hands(s) = {}
    BY <1>1 DEF AllAlone, Alone
  <2>2. ASSUME NEW i \in Waits(s)' PROVE FALSE
    <3>0. i \in Int
      BY <1>1, <1>2
    <3>1. i \in Int /\ i > 0 /\ i + 1 \in Waits(s)
      BY <3>0, <1>1
    <3>2. i + 1 = 1
      BY <1>1, <2>1, <3>1
    <3> QED
      BY <3>1, <3>2
  <2> QED
    BY <1>1, <2>1, <2>2
<1>4. ASSUME NEW x \in Service, x # s
      PROVE  Alone(x)' /\ (Somewhere(x)' <=> Somewhere(x))
  <2>1. 1 \notin Waits(x)
    BY <1>1, <1>4 DEF Waits
  <2>2. Waits(x)' = {} <=> Waits(x) = {}
    <3>1. ASSUME NEW i \in Waits(x) PROVE i - 1 \in Waits(x)'
      BY <1>1, <1>2, <2>1
    <3>2. ASSUME NEW i \in Waits(x)' PROVE i + 1 \in Waits(x)
      BY <1>1, <1>2
    <3> QED
      BY <3>1, <3>2
  <2>3. \A i, j \in Waits(x)' : i = j
    <3>1. SUFFICES ASSUME NEW i \in Waits(x)', NEW j \in Waits(x)' PROVE i = j
      OBVIOUS
    <3>2. i + 1 \in Waits(x) /\ j + 1 \in Waits(x) /\ i \in Int /\ j \in Int
      BY <1>1, <1>2
    <3>3. i + 1 = j + 1
      BY <3>2 DEF AllAlone, Alone
    <3> QED
      BY <3>2, <3>3
  <2> QED
    BY <1>1, <1>4, <2>2, <2>3 DEF AllAlone, Alone, Somewhere
<1>5. Alone(s)' /\ (Somewhere(s)' <=> Somewhere(s))
  BY <1>1, <1>3 DEF Alone, Somewhere
<1> SUFFICES ASSUME NEW x \in Service
             PROVE  Alone(x)' /\ (Somewhere(x)' <=> Somewhere(x))
  OBVIOUS
<1>6. CASE x = s
  BY <1>5, <1>6
<1>7. CASE x # s
  BY <1>4, <1>7
<1> QED
  BY <1>6, <1>7

\* It swaps it for the queue it has.
LEMMA Swap ==
  ASSUME TypeOK, AllAlone, NEW s \in Service, NEW n \in Service,
         NEW g \in Hands(s), NEW h \in Hands(n), s # n,
         globalQ' = Append(globalQ, s),
         Hands(s)' = Hands(s) \ {g}, Hands(n)' = (Hands(n) \ {h}) \cup {g},
         \A x \in Service : x # s /\ x # n => Hands(x)' = Hands(x)
  PROVE  \A x \in Service : Alone(x)' /\ (Somewhere(x)' <=> Somewhere(x))
<1>1. /\ Hands(s)' = {} /\ Waits(s) = {}
      /\ Hands(n)' = {g} /\ Waits(n) = {}
  BY DEF AllAlone, Alone
<1>2. \A x \in Service :
        Waits(x)' = IF x = s THEN {Len(globalQ) + 1} ELSE Waits(x)
  BY <1>1, WaitsAppend
<1>3. ASSUME NEW x \in Service, x # s, x # n
      PROVE  Alone(x)' /\ (Somewhere(x)' <=> Somewhere(x))
  <2>1. Hands(x)' = Hands(x) /\ Waits(x)' = Waits(x)
    BY <1>2, <1>3
  <2> QED
    BY <1>3, <2>1 DEF AllAlone, Alone, Somewhere
<1>4. Alone(s)' /\ (Somewhere(s)' <=> Somewhere(s))
  BY <1>1, <1>2 DEF Alone, Somewhere
<1>5. Alone(n)' /\ (Somewhere(n)' <=> Somewhere(n))
  BY <1>1, <1>2 DEF Alone, Somewhere
<1> QED
  BY <1>3, <1>4, <1>5

\* Steps that move no queue.
LEMMA PlacesSame ==
  /\ UNCHANGED <<cur, nxt, dropq, launch>> =>
       \A x \in Service : Hands(x)' = Hands(x)
  /\ UNCHANGED <<cur, nxt, dropq, launch, globalQ>> =>
       \A x \in Service : (Alone(x)' <=> Alone(x)) /\ (Somewhere(x)' <=> Somewhere(x))
  BY DEF Hands, Waits, Alone, Somewhere

\* A live context has a queue that is not marked.
LEMMA LiveQueue ==
  ASSUME TypeOK, Lives, NEW s \in Service, context[s] = "live"
  PROVE  queue[s] = "live" /\ release[s] = FALSE
  BY DEF TypeOK, Lives

\* Moving a queue without a change of its flags or messages.
LEMMA MovePlaced ==
  ASSUME Placed, UNCHANGED <<mq, queue, inGlobal, release>>,
         \A x \in Service : Alone(x)' /\ (Somewhere(x)' <=> Somewhere(x))
  PROVE  Placed'
  BY DEF Placed, Wanted

\* skynet_mq_release, by a thread that has the queue in its hand as h.
LEMMA MqReleasePlaced ==
  ASSUME TypeOK, Placed, NEW t \in Thread, NEW s \in Service, MqRelease(t, s),
         NEW h \in Hands(s), h # <<t, "drop">>, dropq[t] = None,
         UNCHANGED <<mq, queue, inGlobal, release>>,
         \A x \in Service :
           Hands(x)' = (Hands(x) \ {h}) \cup
             (IF x = s /\ release[s] THEN {<<t, "drop">>} ELSE {})
  PROVE  Placed'
<1>1. AllAlone /\ \A x \in Service : x # s => h \notin Hands(x)
  BY DEF Placed, AllAlone, Hands
<1>2. \A x \in Service : x # s => Hands(x)' = Hands(x)
  BY <1>1
<1>3. CASE release[s]
  <2>1. globalQ' = globalQ /\ Hands(s)' = (Hands(s) \ {h}) \cup {<<t, "drop">>}
    BY <1>3 DEF MqRelease
  <2> QED
    BY <1>1, <1>2, <2>1, HandToHand, MovePlaced
<1>4. CASE ~release[s]
  <2>1. globalQ' = Append(globalQ, s) /\ Hands(s)' = Hands(s) \ {h}
    BY <1>4 DEF MqRelease
  <2> QED
    BY <1>1, <1>2, <2>1, HandToWait, MovePlaced
<1> QED
  BY <1>3, <1>4

\* The placement of the queues is inductive.
LEMMA PlacedStep ==
  ASSUME TypeOK, Shape, RefCountExact, Lives, Placed, [Next]_vars
  PROVE  Placed'
<1> USE DEF service, queues, loop, calls, history
<1>0. RefPositive
  BY CountsPositive
<1>a. Worker \subseteq Thread /\ None \notin Service
  BY DispatchAssumption
<1>b. AllAlone
  BY DEF Placed, AllAlone
<1>1. ASSUME NEW t \in Thread, SendPush(t) PROVE Placed'
  <2>1. PICK s \in Service : s = op[t].svc
    BY <1>1 DEF SendPush, Shape, CallShape
  <2>2. queue[s] = "live" /\ release[s] = FALSE
    BY <1>0, <1>1, <2>1, LiveQueue DEF SendPush, RefPositive, Lives
  <2>3. /\ mq' = [mq EXCEPT ![s] = Append(@, op[t].msg)]
        /\ inGlobal' = [inGlobal EXCEPT ![s] = TRUE]
        /\ globalQ' = IF inGlobal[s] THEN globalQ ELSE Append(globalQ, s)
        /\ UNCHANGED <<queue, release, cur, nxt, dropq, launch>>
    BY <1>1, <2>1 DEF SendPush, Enqueue
  <2>4. \A x \in Service :
          Alone(x)' /\ (Somewhere(x)' <=> x = s \/ Somewhere(x))
    <3>1. CASE inGlobal[s]
      <4>1. Somewhere(s)
        BY <2>2, <3>1 DEF Placed, Wanted
      <4> QED
        BY <2>3, <3>1, <4>1, <1>b, PlacesSame DEF AllAlone
    <3>2. CASE ~inGlobal[s]
      <4>1. ~Somewhere(s)
        BY <2>2, <3>2 DEF Placed, Wanted
      <4> QED
        BY <2>3, <3>2, <4>1, <1>b, PlacesSame, Enters
    <3> QED
      BY <3>1, <3>2
  <2>5. \A x \in Service : Wanted(x)' <=> x = s \/ Wanted(x)
    BY <2>2, <2>3 DEF Wanted, TypeOK
  <2>6. \A x \in Service : queue'[x] = "live" /\ mq'[x] # <<>> => inGlobal'[x]
    BY <2>3 DEF Placed, TypeOK
  <2> QED
    BY <2>4, <2>5, <2>6 DEF Placed
<1>2. ASSUME NEW t \in Thread, Delete(t) PROVE Placed'
  <2>1. PICK s \in Service : s = del[t]
    BY <1>2 DEF Delete, TypeOK, MaybeService
  <2>2. queue[s] = "live" /\ release[s] = FALSE
    BY <1>a, <2>1, LiveQueue DEF Lives
  <2>3. /\ release' = [release EXCEPT ![s] = TRUE]
        /\ globalQ' = IF inGlobal[s] THEN globalQ ELSE Append(globalQ, s)
        /\ UNCHANGED <<mq, queue, inGlobal, cur, nxt, dropq, launch>>
    BY <1>2, <2>1 DEF Delete, MarkRelease
  <2>4. \A x \in Service :
          Alone(x)' /\ (Somewhere(x)' <=> x = s \/ Somewhere(x))
    <3>1. CASE inGlobal[s]
      <4>1. Somewhere(s)
        BY <2>2, <3>1 DEF Placed, Wanted
      <4> QED
        BY <2>3, <3>1, <4>1, <1>b, PlacesSame DEF AllAlone
    <3>2. CASE ~inGlobal[s]
      <4>1. ~Somewhere(s)
        BY <2>2, <3>2 DEF Placed, Wanted
      <4> QED
        BY <2>3, <3>2, <4>1, <1>b, PlacesSame, Enters
    <3> QED
      BY <3>1, <3>2
  <2>5. \A x \in Service : Wanted(x)' <=> x = s \/ Wanted(x)
    BY <2>2, <2>3 DEF Wanted, TypeOK
  <2> QED
    BY <2>3, <2>4, <2>5 DEF Placed
<1>3. ASSUME NEW t \in Thread, DropDone(t) PROVE Placed'
  <2>1. PICK s \in Service : s = dropq[t]
    BY <1>3 DEF DropDone, TypeOK, MaybeService
  <2>2. /\ inGlobal' = [inGlobal EXCEPT ![s] = FALSE]
        /\ queue' = [queue EXCEPT ![s] = "freed"]
        /\ dropq' = [dropq EXCEPT ![t] = None]
        /\ UNCHANGED <<mq, release, globalQ, cur, nxt, launch>>
    BY <1>3, <2>1 DEF DropDone
  <2>3. /\ <<t, "drop">> \in Hands(s) /\ Hands(s)' = Hands(s) \ {<<t, "drop">>}
        /\ \A x \in Service : x # s => Hands(x)' = Hands(x)
    BY <1>a, <2>1, <2>2 DEF Hands, TypeOK
  <2>4. \A x \in Service :
          Alone(x)' /\ (Somewhere(x)' <=> x # s /\ Somewhere(x))
    BY <1>b, <2>2, <2>3, HandGone
  <2>5. \A x \in Service : Wanted(x)' <=> x # s /\ Wanted(x)
    BY <2>2 DEF Wanted, TypeOK
  <2>6. \A x \in Service : queue'[x] = "live" /\ mq'[x] # <<>> => inGlobal'[x]
    BY <2>2 DEF Placed, TypeOK
  <2> QED
    BY <2>4, <2>5, <2>6 DEF Placed
<1>4. ASSUME NEW t \in Worker, LaunchEnqueue(t) PROVE Placed'
  <2>1. PICK s \in Service : s = launch[t]
    BY <1>4, <1>a DEF LaunchEnqueue, TypeOK, Shape, CallShape, MaybeService
  <2>2. /\ globalQ' = Append(globalQ, s) /\ launch' = [launch EXCEPT ![t] = None]
        /\ UNCHANGED <<mq, queue, inGlobal, release, cur, nxt, dropq>>
    BY <1>4, <2>1 DEF LaunchEnqueue, LaunchDone
  <2>3. /\ <<t, "launch">> \in Hands(s)
        /\ Hands(s)' = Hands(s) \ {<<t, "launch">>}
        /\ \A x \in Service : x # s => Hands(x)' = Hands(x)
    BY <1>a, <2>1, <2>2 DEF Hands, TypeOK
  <2> QED
    BY <1>b, <2>2, <2>3, HandToWait, MovePlaced
<1>5. ASSUME NEW t \in Worker, InitFailRelease(t) PROVE Placed'
  <2>1. PICK s \in Service : s = launch[t]
    BY <1>5, <1>a DEF InitFailRelease, TypeOK, Shape, CallShape, MaybeService
  <2>2. /\ t \in Thread /\ dropq[t] = None /\ MqRelease(t, s)
        /\ launch' = [launch EXCEPT ![t] = None]
        /\ UNCHANGED <<mq, queue, inGlobal, release, cur, nxt>>
    BY <1>5, <1>a, <2>1 DEF InitFailRelease, Free, LaunchDone
  <2>3. dropq' = IF release[s] THEN [dropq EXCEPT ![t] = s] ELSE dropq
    BY <2>2 DEF MqRelease
  <2>4. /\ <<t, "launch">> \in Hands(s)
        /\ \A x \in Service :
             Hands(x)' = (Hands(x) \ {<<t, "launch">>}) \cup
               (IF x = s /\ release[s] THEN {<<t, "drop">>} ELSE {})
    BY <1>a, <2>1, <2>2, <2>3 DEF Hands, TypeOK
  <2> QED
    BY <2>2, <2>4, MqReleasePlaced
<1>6. ASSUME NEW w \in Worker, ReleaseQueue(w) PROVE Placed'
  <2>1. PICK s \in Service : s = cur[w]
    BY <1>6 DEF ReleaseQueue, At, Shape, LoopShape
  <2>2. /\ w \in Thread /\ dropq[w] = None /\ MqRelease(w, s)
        /\ cur' = [cur EXCEPT ![w] = None]
        /\ UNCHANGED <<mq, queue, inGlobal, release, launch, nxt>>
    BY <1>6, <1>a, <2>1 DEF ReleaseQueue, At, Free
  <2>3. dropq' = IF release[s] THEN [dropq EXCEPT ![w] = s] ELSE dropq
    BY <2>2 DEF MqRelease
  <2>4. /\ <<w, "cur">> \in Hands(s)
        /\ \A x \in Service :
             Hands(x)' = (Hands(x) \ {<<w, "cur">>}) \cup
               (IF x = s /\ release[s] THEN {<<w, "drop">>} ELSE {})
    BY <1>a, <2>1, <2>2, <2>3 DEF Hands, TypeOK
  <2> QED
    BY <2>2, <2>4, MqReleasePlaced
<1>7. ASSUME NEW w \in Worker, Fetch(w) PROVE Placed'
  <2>1. PICK s \in Service : s = Head(globalQ)
    BY <1>7, SeqTypes DEF Fetch, TypeOK
  <2>2. /\ w \in Thread /\ cur[w] = None /\ cur' = [cur EXCEPT ![w] = s]
        /\ globalQ # <<>> /\ globalQ' = Tail(globalQ)
        /\ UNCHANGED <<mq, queue, inGlobal, release, launch, nxt, dropq>>
    BY <1>7, <1>a, <2>1 DEF Fetch, At, Shape, LoopShape
  <2>3. /\ Hands(s)' = Hands(s) \cup {<<w, "cur">>}
        /\ \A x \in Service : x # s => Hands(x)' = Hands(x)
    <3>1. Hands(s)' = Hands(s) \cup {<<w, "cur">>}
      BY <1>a, <2>2, SMTT(60) DEF Hands, TypeOK
    <3>2. ASSUME NEW x \in Service, x # s PROVE Hands(x)' = Hands(x)
      BY <1>a, <2>2, <3>2 DEF Hands, TypeOK
    <3> QED
      BY <3>1, <3>2
  <2> QED
    BY <1>b, <2>1, <2>2, <2>3, WaitToHand, MovePlaced
<1>8. ASSUME NEW w \in Worker, Rotate(w) PROVE Placed'
  <2>1. CASE globalQ = <<>>
    <3>1. UNCHANGED <<mq, queue, inGlobal, release, cur, nxt, dropq, launch, globalQ>>
      BY <1>8, <2>1 DEF Rotate
    <3> QED
      BY <1>b, <3>1, PlacesSame, MovePlaced DEF AllAlone
  <2>2. CASE globalQ # <<>>
    <3>1. PICK s \in Service : s = Head(globalQ)
      BY <2>2, SeqTypes DEF TypeOK
    <3>2. /\ w \in Thread /\ nxt[w] = None /\ nxt' = [nxt EXCEPT ![w] = s]
          /\ globalQ' = Tail(globalQ)
          /\ UNCHANGED <<mq, queue, inGlobal, release, launch, cur, dropq>>
      BY <1>8, <1>a, <2>2, <3>1 DEF Rotate, At, Shape, LoopShape
    <3>3. /\ Hands(s)' = Hands(s) \cup {<<w, "nxt">>}
          /\ \A x \in Service : x # s => Hands(x)' = Hands(x)
      <4>1. Hands(s)' = Hands(s) \cup {<<w, "nxt">>}
        BY <1>a, <3>2 DEF Hands, TypeOK
      <4>2. ASSUME NEW x \in Service, x # s PROVE Hands(x)' = Hands(x)
        BY <1>a, <3>2, <4>2 DEF Hands, TypeOK
      <4> QED
        BY <4>1, <4>2
    <3> QED
      BY <1>b, <2>2, <3>1, <3>2, <3>3, WaitToHand, MovePlaced
  <2> QED
    BY <2>1, <2>2
<1>9. ASSUME NEW w \in Worker, PushBack(w) PROVE Placed'
  <2>1. PICK s \in Service, n \in Service : s = cur[w] /\ n = nxt[w]
    BY <1>9 DEF PushBack, At, Shape, LoopShape, TypeOK, MaybeService
  <2>2. /\ w \in Thread
        /\ cur' = [cur EXCEPT ![w] = n] /\ nxt' = [nxt EXCEPT ![w] = None]
        /\ globalQ' = Append(globalQ, s)
        /\ UNCHANGED <<mq, queue, inGlobal, release, launch, dropq>>
    BY <1>9, <1>a, <2>1 DEF PushBack
  <2>3. <<w, "cur">> \in Hands(s) /\ <<w, "nxt">> \in Hands(n)
    BY <1>a, <2>1 DEF Hands
  <2>4. s # n
    BY <1>b, <2>3 DEF AllAlone, Alone
  <2>5. /\ Hands(s)' = Hands(s) \ {<<w, "cur">>}
        /\ Hands(n)' = (Hands(n) \ {<<w, "nxt">>}) \cup {<<w, "cur">>}
        /\ \A x \in Service : x # s /\ x # n => Hands(x)' = Hands(x)
    <3>1. Hands(s)' = Hands(s) \ {<<w, "cur">>}
      BY <1>a, <2>1, <2>2, <2>4, SMTT(30) DEF Hands, TypeOK
    <3>2. Hands(n)' = (Hands(n) \ {<<w, "nxt">>}) \cup {<<w, "cur">>}
      BY <1>a, <2>1, <2>2, <2>4, SMTT(60) DEF Hands, TypeOK
    <3>3. ASSUME NEW x \in Service, x # s, x # n PROVE Hands(x)' = Hands(x)
      BY <1>a, <2>1, <2>2, <3>3 DEF Hands, TypeOK
    <3> QED
      BY <3>1, <3>2, <3>3
  <2> QED
    BY <1>b, <2>2, <2>3, <2>4, <2>5, Swap, MovePlaced
<1>10. ASSUME NEW w \in Worker, PopEmpty(w) PROVE Placed'
  <2>1. PICK s \in Service : s = cur[w]
    BY <1>10 DEF PopEmpty, At, Shape, LoopShape
  <2>2. /\ w \in Thread /\ mq[s] = <<>> /\ ctx[w] = s
        /\ inGlobal' = [inGlobal EXCEPT ![s] = FALSE]
        /\ cur' = [cur EXCEPT ![w] = None]
        /\ UNCHANGED <<mq, queue, release, globalQ, nxt, dropq, launch>>
    BY <1>10, <1>a, <2>1 DEF PopEmpty, At, Shape, LoopShape
  <2>3. release[s] = FALSE
    BY <1>0, <1>a, <2>2, LiveQueue DEF RefPositive, Lives
  <2>4. /\ <<w, "cur">> \in Hands(s) /\ Hands(s)' = Hands(s) \ {<<w, "cur">>}
        /\ \A x \in Service : x # s => Hands(x)' = Hands(x)
    BY <1>a, <2>1, <2>2 DEF Hands, TypeOK
  <2>5. \A x \in Service :
          Alone(x)' /\ (Somewhere(x)' <=> x # s /\ Somewhere(x))
    BY <1>b, <2>2, <2>4, HandGone
  <2>6. \A x \in Service : Wanted(x)' <=> x # s /\ Wanted(x)
    BY <2>2, <2>3 DEF Wanted, TypeOK
  <2>7. \A x \in Service : queue'[x] = "live" /\ mq'[x] # <<>> => inGlobal'[x]
    BY <2>2 DEF Placed, TypeOK
  <2> QED
    BY <2>5, <2>6, <2>7 DEF Placed
<1>11. ASSUME NEW t \in Thread, NEW s \in Service, BeginLaunch(t, s) PROVE Placed'
  <2>1. /\ launch[t] = None /\ queue[s] = "none"
        /\ queue' = [queue EXCEPT ![s] = "live"]
        /\ inGlobal' = [inGlobal EXCEPT ![s] = TRUE]
        /\ launch' = [launch EXCEPT ![t] = s]
        /\ UNCHANGED <<mq, release, globalQ, cur, nxt, dropq>>
    BY <1>11 DEF BeginLaunch
  <2>2. ~Somewhere(s)
    BY <2>1 DEF Placed, Wanted
  <2>3. /\ Hands(s)' = Hands(s) \cup {<<t, "launch">>}
        /\ \A x \in Service : x # s => Hands(x)' = Hands(x)
    BY <1>a, <2>1 DEF Hands, TypeOK
  <2>4. \A x \in Service :
          Alone(x)' /\ (Somewhere(x)' <=> x = s \/ Somewhere(x))
    BY <1>b, <2>1, <2>2, <2>3, HandNew
  <2>5. \A x \in Service : Wanted(x)' <=> x = s \/ Wanted(x)
    BY <2>1 DEF Wanted, TypeOK
  <2>6. \A x \in Service : queue'[x] = "live" /\ mq'[x] # <<>> => inGlobal'[x]
    BY <2>1 DEF Placed, TypeOK
  <2> QED
    BY <2>4, <2>5, <2>6 DEF Placed
<1>12. ASSUME UNCHANGED <<queue, inGlobal, release, cur, nxt, dropq, launch, globalQ>>,
              \A x \in Service : mq'[x] # <<>> => mq[x] # <<>>
       PROVE  Placed'
  <2>1. \A x \in Service : Alone(x)' /\ (Somewhere(x)' <=> Somewhere(x))
    BY <1>b, <1>12, PlacesSame DEF AllAlone
  <2> QED
    BY <1>12, <2>1 DEF Placed, Wanted
<1>13. ASSUME NEW t \in Thread, DropMessage(t) PROVE Placed'
  BY <1>12, <1>13 DEF DropMessage, TypeOK
<1>14. ASSUME NEW w \in Worker, PopFirst(w) \/ PopAgain(w) PROVE Placed'
  BY <1>12, <1>14 DEF PopFirst, PopAgain, Take, TypeOK
<1>15. ASSUME NEW t \in Thread, SendRefused(t) \/ SendGrab(t) \/ OpPut(t)
       PROVE  Placed'
  BY <1>12, <1>15 DEF SendRefused, SendGrab, OpPut
<1>16. ASSUME NEW t \in Worker,
              InitOk(t) \/ InitReady(t) \/ InitFail(t) \/ InitFailRetire(t)
       PROVE  Placed'
  BY <1>12, <1>16 DEF InitOk, InitReady, InitFail, InitFailRetire
<1>17. ASSUME NEW w \in Worker,
              \/ GrabContext(w) \/ GrabFails(w) \/ Weigh(w) \/ Return(w)
              \/ PutContext(w)
       PROVE  Placed'
  BY <1>12, <1>17 DEF GrabContext, GrabFails, Weigh, Return, PutContext
<1>18. ASSUME NEW t \in Thread, NEW s \in Service, BeginSend(t, s) \/ Kill(t, s)
       PROVE  Placed'
  BY <1>12, <1>18 DEF BeginSend, Kill
<1>19. CASE UNCHANGED vars
  BY <1>12, <1>19 DEF vars
<1> QED
  BY <1>1, <1>2, <1>3, <1>4, <1>5, <1>6, <1>7, <1>8, <1>9, <1>10, <1>11, <1>13,
     <1>14, <1>15, <1>16, <1>17, <1>18, <1>19
     DEF Next, CallStep, LaunchStep, LoopStep, Choice

-----------------------------------------------------------------------------
(***************************************************************************)
(* The init function of a service returns before its first message.        *)
(***************************************************************************)
\* A message finds its service initialised, or the queue is still in the
\* hand of the launching thread.
LEMMA ReadyStep ==
  ASSUME TypeOK, Shape, RefCountExact, Placed, Ready, [Next]_vars
  PROVE  Ready'
<1> USE DEF service, queues, loop, calls, history
<1>a. Worker \subseteq Thread /\ None \notin Service
  BY DispatchAssumption
<1>1. ASSUME NEW w \in Worker, GrabContext(w) PROVE Ready'
  <2>1. PICK s \in Service : s = cur[w] /\ slot[s]
    BY <1>1 DEF GrabContext, At, Shape, LoopShape
  <2>2. init[s]
    <3>1. SUFFICES ASSUME ~init[s] PROVE FALSE
      OBVIOUS
    <3>2. PICK t \in Thread : launch[t] = s
      BY <2>1, <3>1 DEF Ready, Launching
    <3>3. <<t, "launch">> \in Hands(s) /\ <<w, "cur">> \in Hands(s)
      BY <1>a, <2>1, <3>2 DEF Hands
    <3> QED
      BY <3>3 DEF Placed, Alone
  <2>3. /\ ctx' = [ctx EXCEPT ![w] = s]
        /\ UNCHANGED <<slot, init, launch, lstep>>
    BY <1>1, <2>1 DEF GrabContext
  <2> QED
    BY <2>2, <2>3 DEF Ready, Launching, TypeOK
<1>2. ASSUME NEW w \in Worker, PutContext(w) PROVE Ready'
  BY <1>2 DEF PutContext, Ready, Launching, TypeOK
<1>3. ASSUME NEW t \in Worker, InitOk(t) PROVE Ready'
  <2>1. PICK s \in Service : s = launch[t]
    BY <1>3, <1>a DEF InitOk, Shape, CallShape, TypeOK, MaybeService
  <2>2. t \in LaunchRefs(s)
    BY <1>3, <1>a, <2>1 DEF InitOk, LaunchRefs
  <2>3. ref[s] = 1 => slot[s] = FALSE
    <3>1. /\ Cardinality(LoopRefs(s)) \in Nat /\ Cardinality(OpRefs(s)) \in Nat
          /\ Cardinality(LaunchRefs(s)) \in Nat /\ Cardinality(LaunchRefs(s)) > 0
      BY <2>2, RefsFinite, Counted
    <3>2. ref[s] = (IF slot[s] THEN 1 ELSE 0) + Cardinality(LoopRefs(s))
                   + Cardinality(OpRefs(s)) + Cardinality(LaunchRefs(s))
      BY DEF RefCountExact
    <3> QED
      BY <3>1, <3>2 DEF TypeOK
  <2>4. /\ lstep' = [lstep EXCEPT ![t] = IF ref[s] = 1 THEN "enqueue" ELSE "ready"]
        /\ UNCHANGED <<slot, init, launch, ctx>>
    BY <1>3, <2>1 DEF InitOk
  <2>5. ASSUME NEW x \in Service, slot[x] /\ ~init[x] PROVE Launching(x)'
    <3>1. PICK u \in Thread :
            launch[u] = x /\ lstep[u] \in {"init", "ready", "retire"}
      BY <2>5 DEF Ready, Launching
    <3>2. lstep'[u] \in {"init", "ready", "retire"}
      BY <2>1, <2>3, <2>4, <2>5, <3>1 DEF TypeOK
    <3> QED
      BY <2>4, <3>1, <3>2 DEF Launching
  <2> QED
    BY <2>4, <2>5 DEF Ready
<1>4. ASSUME NEW t \in Worker, InitReady(t) PROVE Ready'
  <2>1. PICK s \in Service : s = launch[t]
    BY <1>4, <1>a DEF InitReady, Shape, CallShape, TypeOK, MaybeService
  <2>2. /\ init' = [init EXCEPT ![s] = TRUE]
        /\ lstep' = [lstep EXCEPT ![t] = "enqueue"]
        /\ UNCHANGED <<slot, launch, ctx>>
    BY <1>4, <2>1 DEF InitReady
  <2> QED
    BY <2>1, <2>2 DEF Ready, Launching, TypeOK, MaybeService
<1>5. ASSUME NEW t \in Worker, InitFail(t) PROVE Ready'
  BY <1>5 DEF InitFail, Ready, Launching, TypeOK
<1>6. ASSUME NEW t \in Worker, InitFailRetire(t) PROVE Ready'
  <2>1. PICK s \in Service : s = launch[t]
    BY <1>6, <1>a DEF InitFailRetire, Shape, CallShape, TypeOK, MaybeService
  <2>2. slot' = [slot EXCEPT ![s] = FALSE]
    BY <1>6, <2>1 DEF InitFailRetire, Retire, TypeOK
  <2>3. /\ lstep' = [lstep EXCEPT ![t] = "mq_release"]
        /\ UNCHANGED <<init, launch, ctx>>
    BY <1>6, <2>1 DEF InitFailRetire
  <2> QED
    BY <2>1, <2>2, <2>3 DEF Ready, Launching, TypeOK
<1>7. ASSUME NEW t \in Worker, LaunchEnqueue(t) \/ InitFailRelease(t)
      PROVE  Ready'
  <2>1. /\ lstep[t] \notin {"init", "ready", "retire"}
        /\ lstep' = [lstep EXCEPT ![t] = "idle"]
        /\ launch' = [launch EXCEPT ![t] = None]
        /\ UNCHANGED <<slot, init, ctx>>
    BY <1>7 DEF LaunchEnqueue, InitFailRelease, LaunchDone
  <2> QED
    BY <2>1 DEF Ready, Launching, TypeOK
<1>8. ASSUME NEW t \in Thread, NEW s \in Service, BeginLaunch(t, s) PROVE Ready'
  <2>1. /\ slot' = [slot EXCEPT ![s] = TRUE]
        /\ launch[t] = None /\ launch' = [launch EXCEPT ![t] = s]
        /\ lstep' = [lstep EXCEPT ![t] = "init"]
        /\ UNCHANGED <<init, ctx>>
    BY <1>8 DEF BeginLaunch
  <2>2. Launching(s)'
    BY <2>1 DEF Launching, TypeOK
  <2>3. ASSUME NEW x \in Service, x # s, slot[x] /\ ~init[x]
        PROVE  Launching(x)'
    <3>1. PICK u \in Thread :
            launch[u] = x /\ lstep[u] \in {"init", "ready", "retire"}
      BY <2>3 DEF Ready, Launching
    <3>2. u # t
      BY <1>a, <2>1, <3>1
    <3> QED
      BY <2>1, <3>1, <3>2 DEF Launching, TypeOK
  <2>4. \A x \in Service : slot'[x] /\ ~init'[x] => Launching(x)'
    <3>1. SUFFICES ASSUME NEW x \in Service, slot'[x] /\ ~init'[x]
                   PROVE  Launching(x)'
      OBVIOUS
    <3>2. CASE x = s
      BY <2>2, <3>2
    <3>3. CASE x # s
      BY <2>1, <2>3, <3>1, <3>3 DEF TypeOK
    <3> QED
      BY <3>2, <3>3
  <2> QED
    BY <2>1, <2>4 DEF Ready
<1>9. ASSUME NEW t \in Thread, NEW s \in Service, Kill(t, s) PROVE Ready'
  BY <1>9 DEF Kill, Retire, Ready, Launching, TypeOK
<1>10. ASSUME UNCHANGED <<slot, init, launch, lstep, ctx>> PROVE Ready'
  BY <1>10 DEF Ready, Launching
<1>11. ASSUME NEW t \in Thread, CallStep(t) PROVE Ready'
  BY <1>10, <1>11
     DEF CallStep, SendRefused, SendGrab, SendPush, OpPut, Delete, DropMessage,
         DropDone
<1>12. ASSUME NEW w \in Worker,
              \/ Fetch(w) \/ GrabFails(w) \/ ReleaseQueue(w) \/ PopEmpty(w)
              \/ PopFirst(w) \/ Weigh(w) \/ PopAgain(w) \/ Return(w)
              \/ Rotate(w) \/ PushBack(w)
       PROVE  Ready'
  BY <1>10, <1>12
     DEF Fetch, GrabFails, ReleaseQueue, PopEmpty, PopFirst, Weigh, PopAgain,
         Return, Rotate, PushBack
<1>13. ASSUME NEW t \in Thread, NEW s \in Service, BeginSend(t, s) PROVE Ready'
  BY <1>10, <1>13 DEF BeginSend
<1>14. CASE UNCHANGED vars
  BY <1>10, <1>14 DEF vars
<1> QED
  BY <1>1, <1>2, <1>3, <1>4, <1>5, <1>6, <1>7, <1>8, <1>9, <1>11, <1>12, <1>13,
     <1>14
     DEF Next, LaunchStep, LoopStep, Choice

-----------------------------------------------------------------------------
(***************************************************************************)
(* The theorems.                                                           *)
(***************************************************************************)
\* The inductive invariant holds initially,
LEMMA InitInv == Init => DispatchInv
<1> SUFFICES ASSUME Init PROVE DispatchInv
  OBVIOUS
<1>1. TypeOK
  BY InitTypes
<1>2. Shape
  BY DispatchAssumption DEF Init, Shape, LoopShape, CallShape, NoOp
<1>3. RefCountExact
  <2>1. \A s \in Service : LoopRefs(s) = {} /\ OpRefs(s) = {} /\ LaunchRefs(s) = {}
    BY DispatchAssumption DEF Init, LoopRefs, OpRefs, LaunchRefs, NoOp
  <2>2. \A s \in Service : /\ Cardinality(LoopRefs(s)) = 0
                           /\ Cardinality(OpRefs(s)) = 0
                           /\ Cardinality(LaunchRefs(s)) = 0
    BY <2>1, FS_EmptySet
  <2>3. \A s \in Service : ref[s] = IF slot[s] THEN 1 ELSE 0
    BY DEF Init
  <2> QED
    BY <2>2, <2>3 DEF RefCountExact
<1>4. Lives
  BY DEF Init, Lives
<1>5. Placed
  <2>1. \A s \in Service : Hands(s) = {}
    BY DispatchAssumption DEF Init, Hands
  <2>2. /\ \A s \in Service : \A i, j \in Waits(s) : i = j
        /\ \A s \in Service : Waits(s) # {} <=> Booted(s)
    <3>1. \A s \in Service : Waits(s) = {i \in 1 .. Len(Boot) : Boot[i] = s}
      BY DEF Init, Waits
    <3> QED
      BY <3>1, DispatchAssumption DEF Booted
  <2>3. \A s \in Service : Wanted(s) <=> Booted(s)
    BY DEF Init, Wanted
  <2> QED
    BY <2>1, <2>2, <2>3 DEF Init, Placed, Alone, Somewhere
<1>6. Ready
  BY DEF Init, Ready
<1> QED
  BY <1>1, <1>2, <1>3, <1>4, <1>5, <1>6 DEF DispatchInv

\* and every step keeps it.
LEMMA StepInv == DispatchInv /\ [Next]_vars => DispatchInv'
<1> SUFFICES ASSUME DispatchInv, [Next]_vars PROVE DispatchInv'
  OBVIOUS
<1>1. TypeOK /\ Shape /\ RefCountExact /\ Lives /\ Placed /\ Ready
  BY DEF DispatchInv
<1>2. TypeOK'
  BY <1>1, CountsPositive, TypeStep
<1>3. Shape' /\ RefCountExact' /\ Lives'
  BY <1>1, <1>2, ShapeStep, CountStep, LivesStep
<1>4. Placed' /\ Ready'
  BY <1>1, PlacedStep, ReadyStep
<1> QED
  BY <1>2, <1>3, <1>4 DEF DispatchInv

\* The invariant of the dispatcher is inductive.
THEOREM DispatchInvariant == Spec => []DispatchInv
  BY InitInv, StepInv, PTL DEF Spec

\* Two of its parts are properties themselves.
LEMMA InvTypes == DispatchInv => TypeOK /\ RefCountExact
  BY DEF DispatchInv

\* Every variable keeps its type under every interleaving.
THEOREM TypeCorrect == Spec => []TypeOK
  BY DispatchInvariant, InvTypes, PTL

\* The reference count of every context is the number of its holders.
THEOREM ReferencesCounted == Spec => []RefCountExact
  BY DispatchInvariant, InvTypes, PTL

\* What is held is held by somebody who keeps it alive.
LEMMA InvUse == DispatchInv => NoUseAfterFree
<1> SUFFICES ASSUME DispatchInv PROVE NoUseAfterFree
  OBVIOUS
<1>1. TypeOK /\ Shape /\ RefPositive /\ Lives /\ Placed
  BY CountsPositive DEF DispatchInv
<1>2. Worker \subseteq Thread /\ None \notin Service
  BY DispatchAssumption
<1>3. ASSUME NEW s \in Service, context[s] = "live" PROVE queue[s] = "live"
  BY <1>1, <1>3, LiveQueue
<1>4. ASSUME NEW s \in Service, Somewhere(s) PROVE queue[s] = "live"
  BY <1>1, <1>4 DEF Placed, Wanted
<1>5. ASSUME NEW w \in Worker
      PROVE  /\ ctx[w] # None => context[ctx[w]] = "live" /\ queue[ctx[w]] = "live"
             /\ cur[w] # None => queue[cur[w]] = "live"
  <2>1. ctx[w] # None => ctx[w] \in Service /\ context[ctx[w]] = "live"
    BY <1>1 DEF TypeOK, MaybeService, RefPositive, Lives
  <2>2. cur[w] # None => cur[w] \in Service /\ Somewhere(cur[w])
    <3>1. ASSUME cur[w] # None PROVE <<w, "cur">> \in Hands(cur[w])
      BY <1>2 DEF Hands
    <3> QED
      BY <1>1, <3>1 DEF TypeOK, MaybeService, Somewhere
  <2> QED
    BY <1>3, <1>4, <2>1, <2>2
<1>6. ASSUME NEW t \in Thread
      PROVE  /\ op[t].do \in {"push", "put"} =>
                  context[op[t].svc] = "live" /\ queue[op[t].svc] = "live"
             /\ del[t] # None => context[del[t]] = "live" /\ queue[del[t]] = "live"
             /\ dropq[t] # None => queue[dropq[t]] = "live"
  <2>1. op[t].do \in {"push", "put"} =>
          op[t].svc \in Service /\ context[op[t].svc] = "live"
    BY <1>1 DEF Shape, CallShape, RefPositive, Lives
  <2>2. del[t] # None => del[t] \in Service /\ context[del[t]] = "live"
    BY <1>1 DEF TypeOK, MaybeService, Lives
  <2>3. dropq[t] # None => dropq[t] \in Service /\ Somewhere(dropq[t])
    <3>1. ASSUME dropq[t] # None PROVE <<t, "drop">> \in Hands(dropq[t])
      BY DEF Hands
    <3> QED
      BY <1>1, <3>1 DEF TypeOK, MaybeService, Somewhere
  <2> QED
    BY <1>3, <1>4, <2>1, <2>2, <2>3
<1>7. ASSUME NEW i \in 1 .. Len(globalQ) PROVE queue[globalQ[i]] = "live"
  <2>1. globalQ[i] \in Service /\ i \in Waits(globalQ[i])
    BY <1>1, <1>7, ElementOfSeq DEF TypeOK, Waits
  <2> QED
    BY <1>4, <2>1 DEF Somewhere
<1> QED
  BY <1>5, <1>6, <1>7 DEF NoUseAfterFree

\* No interleaving of sends, kills, failing launches and dispatch uses a
\* context or a queue after it is freed.
THEOREM NothingUsedAfterFree == Spec => []NoUseAfterFree
  BY DispatchInvariant, InvUse, PTL

\* A queue wanted is in one place, any other in none.
LEMMA InvPlace == DispatchInv => OnePlace /\ NothingForgotten
<1> SUFFICES ASSUME DispatchInv, NEW s \in Service
             PROVE  LET n == Cardinality(Hands(s)) + Cardinality(Waits(s))
                    IN /\ n <= 1
                       /\ queue[s] = "live" /\ (mq[s] # <<>> \/ release[s]) => n = 1
  BY DEF OnePlace, NothingForgotten
<1>1. Alone(s) /\ (Somewhere(s) <=> Wanted(s))
      /\ (queue[s] = "live" /\ mq[s] # <<>> => inGlobal[s])
  BY DEF DispatchInv, Placed
<1>2. /\ Hands(s) = {} \/ \E h : Hands(s) = {h}
      /\ Waits(s) = {} \/ \E i : Waits(s) = {i}
      /\ Hands(s) = {} \/ Waits(s) = {}
  BY <1>1 DEF Alone
<1>3. Cardinality({}) = 0 /\ \A x : Cardinality({x}) = 1
  BY FS_EmptySet, FS_Singleton
<1>4. CASE Hands(s) = {} /\ Waits(s) = {}
  BY <1>1, <1>3, <1>4 DEF Somewhere, Wanted
<1>5. CASE Hands(s) # {} \/ Waits(s) # {}
  <2>1. Cardinality(Hands(s)) + Cardinality(Waits(s)) = 1
    <3>1. CASE Hands(s) = {}
      <4>1. PICK i : Waits(s) = {i}
        BY <1>2, <1>5, <3>1
      <4>2. Cardinality(Hands(s)) = 0 /\ Cardinality(Waits(s)) = 1
        BY <1>3, <3>1, <4>1
      <4> QED
        BY <4>2
    <3>2. CASE Waits(s) = {}
      <4>1. PICK h : Hands(s) = {h}
        BY <1>2, <1>5, <3>2
      <4>2. Cardinality(Hands(s)) = 1 /\ Cardinality(Waits(s)) = 0
        BY <1>3, <3>2, <4>1
      <4> QED
        BY <4>2
    <3> QED
      BY <1>2, <3>1, <3>2
  <2> QED
    BY <2>1
<1> QED
  BY <1>4, <1>5

\* No queue is ever twice in the global queue, nor there while a worker
\* dispatches it, nor in the hands of two threads.
THEOREM QueueInOnePlace == Spec => []OnePlace
  BY DispatchInvariant, InvPlace, PTL

\* No queue with messages, and no queue to free, is out of everybody's sight.
THEOREM QueueNotForgotten == Spec => []NothingForgotten
  BY DispatchInvariant, InvPlace, PTL

\* A handler runs on a context that is initialised.
LEMMA InvReady == DispatchInv => InitBeforeDispatch
  BY DispatchAssumption
     DEF DispatchInv, Shape, LoopShape, Ready, InitBeforeDispatch

\* assert(ctx->init) of dispatch_message never fails.
THEOREM InitFirst == Spec => []InitBeforeDispatch
  BY DispatchInvariant, InvReady, PTL

-----------------------------------------------------------------------------
(***************************************************************************)
(* Services are actors: what a step of Dispatch does to the mailboxes, the *)
(* running handlers and the status of the services.                        *)
(***************************************************************************)

\* Worker w runs a handler of s.
Handles(w, s) == cur[w] = s /\ pc[w] \in {"weigh", "call"}

\* A handler of a service runs as long as no worker begins or ends one.
LEMMA BusySame ==
  ASSUME NEW w \in Worker,
         \A u \in Worker : u # w => cur'[u] = cur[u] /\ pc'[u] = pc[u],
         \A s \in Service : Handles(w, s)' <=> Handles(w, s)
  PROVE  \A s \in Service : Busy(s)' <=> Busy(s)
<1> SUFFICES ASSUME NEW s \in Service PROVE Busy(s)' <=> Busy(s)
  OBVIOUS
<1>1. \A u \in Worker : Handles(u, s)' <=> Handles(u, s)
  BY DEF Handles
<1> QED
  BY <1>1 DEF Busy, Handles

\* Steps of which nobody is told.
LEMMA Unseen ==
  /\ UNCHANGED <<cur, pc>> => \A s \in Service : Busy(s)' <=> Busy(s)
  /\ UNCHANGED <<queue, slot, dropq>> => \A s \in Service : Status(s)' = Status(s)
  BY DEF Busy, Status

\* Whoever has a queue in hand is alone to have it, and the queue is live.
LEMMA OnlyHand ==
  ASSUME DispatchInv, NEW s \in Service, NEW h \in Hands(s)
  PROVE  /\ queue[s] = "live"
         /\ \A w \in Worker : cur[w] = s => h = <<w, "cur">>
         /\ \A t \in Thread : dropq[t] = s => h = <<t, "drop">>
<1>1. Alone(s) /\ Somewhere(s) /\ Wanted(s)
  BY DEF DispatchInv, Placed, Somewhere
<1>2. ASSUME NEW w \in Worker, cur[w] = s PROVE <<w, "cur">> \in Hands(s)
  BY <1>2, DispatchAssumption DEF Hands
<1>3. ASSUME NEW t \in Thread, dropq[t] = s PROVE <<t, "drop">> \in Hands(s)
  BY <1>3 DEF Hands
<1> QED
  BY <1>1, <1>2, <1>3 DEF Alone, Wanted

\* A worker that has a queue is the only one to run its service.
LEMMA OnlyWorker ==
  ASSUME DispatchInv, NEW w \in Worker, NEW s \in Service, cur[w] = s
  PROVE  /\ queue[s] = "live"
         /\ \A u \in Worker : cur[u] = s => u = w
         /\ \A t \in Thread : dropq[t] # s
         /\ Busy(s) <=> pc[w] \in {"weigh", "call"}
<1>1. <<w, "cur">> \in Hands(s)
  BY DispatchAssumption DEF Hands
<1>2. /\ queue[s] = "live"
      /\ \A u \in Worker : cur[u] = s => u = w
      /\ \A t \in Thread : dropq[t] # s
  BY <1>1, OnlyHand
<1> QED
  BY <1>2 DEF Busy

\* A service whose context is live is not drained.
LEMMA LiveStatus ==
  ASSUME DispatchInv, NEW s \in Service, context[s] = "live"
  PROVE  /\ \A t \in Thread : dropq[t] # s
         /\ Status(s) = IF slot[s] THEN "running" ELSE "stopped"
<1>1. queue[s] = "live" /\ release[s] = FALSE
  BY LiveQueue DEF DispatchInv
<1>2. \A t \in Thread : dropq[t] # s
  BY <1>1, DispatchAssumption DEF DispatchInv, Lives
<1> QED
  BY <1>1, <1>2 DEF Status

\* A service whose queue is marked for release is out of the handle table.
LEMMA MarkedStatus ==
  ASSUME DispatchInv, NEW s \in Service, release[s]
  PROVE  slot[s] = FALSE
<1>1. TypeOK /\ RefPositive /\ Lives
  BY CountsPositive DEF DispatchInv
<1> QED
  BY <1>1 DEF RefPositive, Lives, TypeOK

\* skynet_handle_retire stops a service.
LEMMA Retired ==
  ASSUME DispatchInv, NEW s \in Service, slot[s],
         slot' = [slot EXCEPT ![s] = FALSE], UNCHANGED <<queue, dropq>>
  PROVE  /\ Status(s) = "running"
         /\ \A x \in Service : Status(x)' = IF x = s THEN "stopped" ELSE Status(x)
<1>1. TypeOK /\ context[s] = "live"
  BY CountsPositive DEF DispatchInv, RefPositive, Lives
<1>2. /\ queue[s] = "live" /\ Status(s) = "running"
      /\ \A t \in Thread : dropq[t] # s
  BY <1>1, LiveQueue, LiveStatus DEF DispatchInv
<1> QED
  BY <1>1, <1>2 DEF Status, TypeOK

\* A thread begins to drop a queue: the service is drained.
LEMMA Drained ==
  ASSUME DispatchInv, NEW t \in Thread, NEW s \in Service, release[s],
         dropq[t] = None, dropq' = [dropq EXCEPT ![t] = s],
         \A u \in Thread : dropq[u] # s, queue[s] = "live",
         UNCHANGED <<queue, slot>>
  PROVE  /\ Status(s) = "stopped"
         /\ \A x \in Service : Status(x)' = IF x = s THEN "drained" ELSE Status(x)
<1>1. TypeOK /\ slot[s] = FALSE
  BY MarkedStatus DEF DispatchInv
<1>2. \A x \in Service : (\E u \in Thread : dropq'[u] = x)
                           <=> x = s \/ \E u \in Thread : dropq[u] = x
  BY <1>1, DispatchAssumption DEF TypeOK
<1> QED
  BY <1>1, <1>2 DEF Status

-----------------------------------------------------------------------------
(***************************************************************************)
(* The actions of Actor, recognised by what a step changes.                *)
(***************************************************************************)
LEMMA ToStutter ==
  ASSUME mq' = mq, \A s \in Service : Busy(s)' <=> Busy(s),
         \A s \in Service : Status(s)' = Status(s)
  PROVE  UNCHANGED Actors!actorVars
  BY DEF Actors!actorVars, Busy

LEMMA ToCreate ==
  ASSUME NEW x \in Service, mq' = mq, \A s \in Service : Busy(s)' <=> Busy(s),
         Status(x) = "absent",
         \A s \in Service : Status(s)' = IF s = x THEN "running" ELSE Status(s)
  PROVE  Actors!Create(x)
  BY DEF Actors!Create, Busy

LEMMA ToPost ==
  ASSUME NEW x \in Service, NEW m \in Message, mq' = [mq EXCEPT ![x] = Append(@, m)],
         \A s \in Service : Busy(s)' <=> Busy(s),
         Status(x) \in {"running", "stopped"},
         \A s \in Service : Status(s)' = Status(s)
  PROVE  Actors!Post(x, m)
  BY DEF Actors!Post, Busy

\* The function of the running handlers when one starts.
LEMMA BusyStarts ==
  ASSUME NEW x \in Service, \A s \in Service : Busy(s)' <=> s = x \/ Busy(s)
  PROVE  [s \in Service |-> Busy(s)]' = [[s \in Service |-> Busy(s)] EXCEPT ![x] = TRUE]
<1>1. [s \in Service |-> Busy(s)]' = [s \in Service |-> s = x \/ Busy(s)]
  BY DEF Busy
<1>2. [[s \in Service |-> Busy(s)] EXCEPT ![x] = TRUE]
        = [s \in Service |-> s = x \/ Busy(s)]
  BY DEF Busy
<1> QED
  BY <1>1, <1>2, Zenon

\* The function of the running handlers when one ends.
LEMMA BusyStops ==
  ASSUME NEW x \in Service, \A s \in Service : Busy(s)' <=> s # x /\ Busy(s)
  PROVE  [s \in Service |-> Busy(s)]' = [[s \in Service |-> Busy(s)] EXCEPT ![x] = FALSE]
<1>1. [s \in Service |-> Busy(s)]' = [s \in Service |-> IF s = x THEN FALSE ELSE Busy(s)]
  BY DEF Busy
<1>2. [[s \in Service |-> Busy(s)] EXCEPT ![x] = FALSE]
        = [s \in Service |-> IF s = x THEN FALSE ELSE Busy(s)]
  BY DEF Busy
<1> QED
  BY <1>1, <1>2, Zenon

LEMMA ToStart ==
  ASSUME NEW x \in Service, mq[x] # <<>>, mq' = [mq EXCEPT ![x] = Tail(@)],
         ~Busy(x), \A s \in Service : Busy(s)' <=> s = x \/ Busy(s),
         Status(x) \in {"running", "stopped"},
         \A s \in Service : Status(s)' = Status(s)
  PROVE  Actors!Start(x)
<1>1. ~[s \in Service |-> Busy(s)][x]
  BY Zenon
<1>2. [s \in Service |-> Busy(s)]' = [[s \in Service |-> Busy(s)] EXCEPT ![x] = TRUE]
  BY BusyStarts
<1>3. /\ [s \in Service |-> Status(s)][x] \in {"running", "stopped"}
      /\ UNCHANGED [s \in Service |-> Status(s)]
  OBVIOUS
<1> QED
  BY <1>1, <1>2, <1>3, Zenon DEF Actors!Start

LEMMA ToFinish ==
  ASSUME NEW x \in Service, mq' = mq,
         Busy(x), \A s \in Service : Busy(s)' <=> s # x /\ Busy(s),
         \A s \in Service : Status(s)' = Status(s)
  PROVE  Actors!Finish(x)
<1>1. [s \in Service |-> Busy(s)][x]
  BY Zenon
<1>2. [s \in Service |-> Busy(s)]' = [[s \in Service |-> Busy(s)] EXCEPT ![x] = FALSE]
  BY BusyStops
<1>3. UNCHANGED <<mq, [s \in Service |-> Status(s)]>>
  OBVIOUS
<1> QED
  BY <1>1, <1>2, <1>3, Zenon DEF Actors!Finish

LEMMA ToStop ==
  ASSUME NEW x \in Service, mq' = mq, \A s \in Service : Busy(s)' <=> Busy(s),
         Status(x) = "running",
         \A s \in Service : Status(s)' = IF s = x THEN "stopped" ELSE Status(s)
  PROVE  Actors!Stop(x)
  BY DEF Actors!Stop, Busy

LEMMA ToDrain ==
  ASSUME NEW x \in Service, mq' = mq, \A s \in Service : Busy(s)' <=> Busy(s),
         ~Busy(x), Status(x) = "stopped",
         \A s \in Service : Status(s)' = IF s = x THEN "drained" ELSE Status(s)
  PROVE  Actors!Drain(x)
<1>1. ~[s \in Service |-> Busy(s)][x]
  BY Zenon
<1>2. UNCHANGED [s \in Service |-> Busy(s)]
  BY DEF Busy
<1> QED
  BY <1>1, <1>2 DEF Actors!Drain

LEMMA ToGiveBack ==
  ASSUME NEW x \in Service, mq[x] # <<>>, mq' = [mq EXCEPT ![x] = Tail(@)],
         \A s \in Service : Busy(s)' <=> Busy(s),
         Status(x) = "drained", \A s \in Service : Status(s)' = Status(s)
  PROVE  Actors!GiveBack(x)
  BY DEF Actors!GiveBack, Busy
-----------------------------------------------------------------------------
\* The services of Boot run, the others are absent, no handler runs.
LEMMA InitActors == Init => Actors!ActorInit
<1> SUFFICES ASSUME Init PROVE Actors!ActorInit
  OBVIOUS
<1>1. [s \in Service |-> Busy(s)] = [s \in Service |-> FALSE]
  BY DispatchAssumption DEF Init, Busy
<1>2. \A s \in Service : Status(s) \in {"absent", "running"}
  BY DEF Init, Status
<1>3. mq = [s \in Service |-> <<>>]
  BY DEF Init
<1> QED
  BY <1>1, <1>2, <1>3 DEF Actors!ActorInit

\* The steps of a send, a kill and the deletion of a context: a push posts a
\* message, a kill stops the service.
LEMMA CallActs ==
  ASSUME DispatchInv, NEW t \in Thread,
         \/ SendRefused(t) \/ SendGrab(t) \/ SendPush(t) \/ OpPut(t) \/ Delete(t)
         \/ \E s \in Service : BeginSend(t, s) \/ Kill(t, s) \/ BeginLaunch(t, s)
  PROVE  Actors!ActorNext \/ UNCHANGED Actors!actorVars
<1> USE DEF service, queues, loop, calls, history
<1>0. TypeOK /\ Shape /\ RefPositive /\ Lives
  BY CountsPositive DEF DispatchInv
<1>1. CASE SendRefused(t) \/ SendGrab(t) \/ OpPut(t) \/ Delete(t)
  <2>1. UNCHANGED <<mq, queue, slot, dropq, cur, pc>>
    BY <1>1 DEF SendRefused, SendGrab, OpPut, Delete
  <2> QED
    BY <2>1, Unseen, ToStutter
<1>2. CASE SendPush(t)
  <2>1. PICK s \in Service, m \in Message : s = op[t].svc /\ m = op[t].msg
    BY <1>0, <1>2, Calls DEF SendPush, Shape, CallShape, TypeOK
  <2>2. context[s] = "live"
    BY <1>0, <1>2, <2>1 DEF SendPush, RefPositive, Lives
  <2>3. /\ mq' = [mq EXCEPT ![s] = Append(@, m)]
        /\ UNCHANGED <<queue, slot, dropq, cur, pc>>
    BY <1>2, <2>1 DEF SendPush, Enqueue
  <2>4. Status(s) \in {"running", "stopped"}
    BY <2>2, LiveStatus
  <2>5. Actors!Post(s, m)
    BY <2>3, <2>4, Unseen, ToPost
  <2> QED
    BY <2>5 DEF Actors!ActorNext
<1>3. ASSUME NEW s \in Service, BeginSend(t, s)
      PROVE  UNCHANGED Actors!actorVars
  <2>1. UNCHANGED <<mq, queue, slot, dropq, cur, pc>>
    BY <1>3 DEF BeginSend
  <2> QED
    BY <2>1, Unseen, ToStutter
<1>4. ASSUME NEW s \in Service, Kill(t, s) PROVE Actors!Stop(s)
  <2>1. /\ slot[s] /\ slot' = [slot EXCEPT ![s] = FALSE]
        /\ UNCHANGED <<mq, queue, dropq, cur, pc>>
    BY <1>4 DEF Kill, Retire
  <2> QED
    BY <1>0, <2>1, Retired, Unseen, ToStop
<1>5. ASSUME NEW s \in Service, BeginLaunch(t, s) PROVE Actors!Create(s)
  <2>1. /\ queue[s] = "none"
        /\ slot' = [slot EXCEPT ![s] = TRUE] /\ queue' = [queue EXCEPT ![s] = "live"]
        /\ UNCHANGED <<mq, dropq, cur, pc>>
    BY <1>5 DEF BeginLaunch
  <2>2. \A x \in Service : Status(x)' = IF x = s THEN "running" ELSE Status(x)
    BY <1>0, <2>1 DEF Status, TypeOK
  <2>3. Status(s) = "absent"
    BY <2>1 DEF Status
  <2> QED
    BY <2>1, <2>2, <2>3, Unseen, ToCreate
<1> QED
  BY <1>1, <1>2, <1>3, <1>4, <1>5 DEF Actors!ActorNext

\* Dropping a queue: its messages go back one by one.
LEMMA DropActs ==
  ASSUME DispatchInv, NEW t \in Thread, DropMessage(t) \/ DropDone(t)
  PROVE  Actors!ActorNext \/ UNCHANGED Actors!actorVars
<1> USE DEF service, queues, loop, calls, history
<1>0. TypeOK /\ Lives
  BY DEF DispatchInv
<1>1. PICK s \in Service : s = dropq[t]
  BY <1>0 DEF DropMessage, DropDone, TypeOK, MaybeService
<1>2. release[s] /\ slot[s] = FALSE
  BY <1>0, <1>1, MarkedStatus, DispatchAssumption DEF Lives
<1>3. <<t, "drop">> \in Hands(s)
  BY <1>1 DEF Hands
<1>4. queue[s] = "live" /\ \A u \in Thread : dropq[u] = s => u = t
  BY <1>3, OnlyHand
<1>5. Status(s) = "drained"
  BY <1>1, <1>2, <1>4 DEF Status
<1>6. CASE DropMessage(t)
  <2>1. /\ mq[s] # <<>> /\ mq' = [mq EXCEPT ![s] = Tail(@)]
        /\ UNCHANGED <<queue, slot, dropq, cur, pc>>
    BY <1>1, <1>6 DEF DropMessage
  <2>2. Actors!GiveBack(s)
    BY <1>5, <2>1, Unseen, ToGiveBack
  <2> QED
    BY <2>2 DEF Actors!ActorNext
<1>7. CASE DropDone(t)
  <2>1. /\ queue' = [queue EXCEPT ![s] = "freed"]
        /\ dropq' = [dropq EXCEPT ![t] = None]
        /\ UNCHANGED <<mq, slot, cur, pc>>
    BY <1>1, <1>7 DEF DropDone
  <2>2. Status(s)' = "drained"
    BY <1>0, <1>2, <2>1 DEF Status, TypeOK
  <2>3. ASSUME NEW x \in Service, x # s PROVE Status(x)' = Status(x)
    <3>1. (\E u \in Thread : dropq'[u] = x) <=> (\E u \in Thread : dropq[u] = x)
      BY <1>0, <1>1, <2>1, <2>3, DispatchAssumption DEF TypeOK
    <3> QED
      BY <1>0, <2>1, <2>3, <3>1 DEF Status, TypeOK
  <2> QED
    BY <1>5, <2>1, <2>2, <2>3, Unseen, ToStutter
<1> QED
  BY <1>6, <1>7

\* The steps of a launch: a failed one stops the service and drops its queue.
LEMMA LaunchActs ==
  ASSUME DispatchInv, NEW t \in Worker, LaunchStep(t)
  PROVE  Actors!ActorNext \/ UNCHANGED Actors!actorVars
<1> USE DEF service, queues, loop, calls, history
<1>0. TypeOK /\ Shape /\ t \in Thread
  BY DispatchAssumption DEF DispatchInv
<1>1. CASE InitOk(t) \/ InitReady(t) \/ LaunchEnqueue(t) \/ InitFail(t)
  <2>1. UNCHANGED <<mq, queue, slot, dropq, cur, pc>>
    BY <1>1 DEF InitOk, InitReady, LaunchEnqueue, InitFail
  <2> QED
    BY <2>1, Unseen, ToStutter
<1>2. CASE InitFailRetire(t) \/ InitFailRelease(t)
  <2>1. PICK s \in Service : s = launch[t]
    BY <1>0, <1>2
       DEF InitFailRetire, InitFailRelease, TypeOK, Shape, CallShape, MaybeService
  <2>2. CASE InitFailRetire(t) /\ slot[s]
    <3>1. /\ slot' = [slot EXCEPT ![s] = FALSE]
          /\ UNCHANGED <<mq, queue, dropq, cur, pc>>
      BY <2>1, <2>2 DEF InitFailRetire, Retire
    <3>2. Actors!Stop(s)
      BY <2>2, <3>1, Retired, Unseen, ToStop
    <3> QED
      BY <3>2 DEF Actors!ActorNext
  <2>3. CASE InitFailRetire(t) /\ ~slot[s]
    <3>1. UNCHANGED <<mq, queue, slot, dropq, cur, pc>>
      BY <2>1, <2>3 DEF InitFailRetire
    <3> QED
      BY <3>1, Unseen, ToStutter
  <2>4. CASE InitFailRelease(t) /\ release[s]
    <3>1. /\ dropq[t] = None /\ dropq' = [dropq EXCEPT ![t] = s]
          /\ UNCHANGED <<mq, queue, slot, cur, pc>>
      BY <2>1, <2>4 DEF InitFailRelease, Free, MqRelease
    <3>2. <<t, "launch">> \in Hands(s)
      BY <1>0, <2>1 DEF Hands
    <3>3. /\ queue[s] = "live" /\ \A u \in Thread : dropq[u] # s
          /\ \A w \in Worker : cur[w] # s
      BY <3>2, OnlyHand
    <3>4. ~Busy(s)
      BY <3>3 DEF Busy
    <3>5. Actors!Drain(s)
      BY <1>0, <2>4, <3>1, <3>3, <3>4, Drained, Unseen, ToDrain
    <3> QED
      BY <3>5 DEF Actors!ActorNext
  <2>5. CASE InitFailRelease(t) /\ ~release[s]
    <3>1. UNCHANGED <<mq, queue, slot, dropq, cur, pc>>
      BY <2>1, <2>5 DEF InitFailRelease, MqRelease
    <3> QED
      BY <3>1, Unseen, ToStutter
  <2> QED
    BY <1>2, <2>2, <2>3, <2>4, <2>5
<1> QED
  BY <1>1, <1>2 DEF LaunchStep

\* A worker takes a message: its service starts to handle it.
LEMMA TakeActs ==
  ASSUME DispatchInv, NEW w \in Worker, PopFirst(w) \/ PopAgain(w)
  PROVE  Actors!ActorNext
<1> USE DEF service, queues, loop, calls, history
<1>0. TypeOK /\ Shape
  BY DEF DispatchInv
<1>1. PICK s \in Service : s = cur[w] /\ s = ctx[w]
  BY <1>0 DEF PopFirst, PopAgain, At, Shape, LoopShape
<1>2. /\ mq[s] # <<>> /\ mq' = [mq EXCEPT ![s] = Tail(@)]
      /\ pc[w] \in {"first", "again"}
      /\ \E l \in {"weigh", "call"} : pc' = [pc EXCEPT ![w] = l]
      /\ UNCHANGED <<queue, slot, dropq, cur>>
  BY <1>1 DEF PopFirst, PopAgain, At, Goto, Take
<1>3. /\ context[s] = "live" /\ Status(s) \in {"running", "stopped"}
  BY <1>0, <1>1, CountsPositive, LiveStatus, DispatchAssumption
     DEF DispatchInv, RefPositive, Lives
<1>4. ~Busy(s)
  BY <1>1, <1>2, OnlyWorker
<1>5. \A x \in Service : Busy(x)' <=> x = s \/ Busy(x)
  <2> SUFFICES ASSUME NEW x \in Service PROVE Busy(x)' <=> x = s \/ Busy(x)
    OBVIOUS
  <2>1. pc'[w] \in {"weigh", "call"} /\ \A u \in Worker : u # w => pc'[u] = pc[u]
    BY <1>0, <1>2 DEF TypeOK
  <2>2. CASE x = s
    BY <1>1, <1>2, <2>1, <2>2 DEF Busy
  <2>3. CASE x # s
    BY <1>1, <1>2, <2>1, <2>3 DEF Busy
  <2> QED
    BY <2>2, <2>3
<1>6. Actors!Start(s)
  BY <1>2, <1>3, <1>4, <1>5, Unseen, ToStart
<1> QED
  BY <1>6 DEF Actors!ActorNext

\* The other steps of the dispatch loop: the return of a handler finishes it,
\* a queue without a context is drained once its context is deleted.
LEMMA LoopActs ==
  ASSUME DispatchInv, NEW w \in Worker, LoopStep(w)
  PROVE  Actors!ActorNext \/ UNCHANGED Actors!actorVars
<1> USE DEF service, queues, loop, calls, history
<1>0. TypeOK /\ Shape /\ w \in Thread /\ None \notin Service
  BY DispatchAssumption DEF DispatchInv
<1>1. CASE PopFirst(w) \/ PopAgain(w)
  BY <1>1, TakeActs
<1>2. CASE Return(w)
  <2>1. PICK s \in Service : s = cur[w]
    BY <1>0, <1>2 DEF Return, At, Shape, LoopShape
  <2>2. /\ pc[w] = "call" /\ pc'[w] \in {"again", "rotate"}
        /\ \A u \in Worker : u # w => pc'[u] = pc[u]
        /\ UNCHANGED <<mq, queue, slot, dropq, cur>>
    BY <1>0, <1>2 DEF Return, At, Goto, TypeOK
  <2>3. Busy(s) /\ \A u \in Worker : cur[u] = s => u = w
    BY <2>1, <2>2, OnlyWorker
  <2>4. \A x \in Service : Busy(x)' <=> x # s /\ Busy(x)
    <3> SUFFICES ASSUME NEW x \in Service PROVE Busy(x)' <=> x # s /\ Busy(x)
      OBVIOUS
    <3>1. CASE x = s
      BY <2>1, <2>2, <2>3, <3>1 DEF Busy
    <3>2. CASE x # s
      BY <2>1, <2>2, <3>2 DEF Busy
    <3> QED
      BY <3>1, <3>2
  <2>5. Actors!Finish(s)
    BY <2>2, <2>3, <2>4, Unseen, ToFinish
  <2> QED
    BY <2>5 DEF Actors!ActorNext
<1>3. CASE ReleaseQueue(w)
  <2>1. PICK s \in Service : s = cur[w]
    BY <1>0, <1>3 DEF ReleaseQueue, At, Shape, LoopShape
  <2>2. /\ pc[w] = "orphan" /\ pc' = [pc EXCEPT ![w] = "fetch"]
        /\ cur' = [cur EXCEPT ![w] = None] /\ dropq[w] = None
        /\ dropq' = IF release[s] THEN [dropq EXCEPT ![w] = s] ELSE dropq
        /\ UNCHANGED <<mq, queue, slot>>
    BY <1>3, <2>1 DEF ReleaseQueue, At, Free, Goto, MqRelease
  <2>3. \A x \in Service : Busy(x)' <=> Busy(x)
    <3>1. \A u \in Worker : u # w => cur'[u] = cur[u] /\ pc'[u] = pc[u]
      BY <2>2 DEF TypeOK
    <3>2. \A x \in Service : Handles(w, x)' <=> Handles(w, x)
      BY <1>0, <2>2 DEF Handles, TypeOK
    <3> QED
      BY <3>1, <3>2, BusySame
  <2>4. queue[s] = "live" /\ ~Busy(s) /\ \A u \in Thread : dropq[u] # s
    BY <2>1, <2>2, OnlyWorker
  <2>5. CASE release[s]
    <3>1. Actors!Drain(s)
      BY <1>0, <2>2, <2>3, <2>4, <2>5, Drained, ToDrain
    <3> QED
      BY <3>1 DEF Actors!ActorNext
  <2>6. CASE ~release[s]
    BY <2>2, <2>3, <2>6, Unseen, ToStutter
  <2> QED
    BY <2>5, <2>6
<1>4. CASE \/ Fetch(w) \/ GrabContext(w) \/ GrabFails(w) \/ PopEmpty(w) \/ Weigh(w)
           \/ Rotate(w) \/ PushBack(w) \/ PutContext(w)
  <2>1. UNCHANGED <<mq, queue, slot, dropq>>
    BY <1>4 DEF Fetch, GrabContext, GrabFails, PopEmpty, Weigh, Rotate, PushBack,
                PutContext
  <2>2. \A u \in Worker : u # w => cur'[u] = cur[u] /\ pc'[u] = pc[u]
    BY <1>0, <1>4
       DEF Fetch, GrabContext, GrabFails, PopEmpty, Weigh, Rotate, PushBack,
           PutContext, Goto, TypeOK
  <2>3. \A x \in Service : Handles(w, x)' <=> Handles(w, x)
    BY <1>0, <1>4
       DEF Fetch, GrabContext, GrabFails, PopEmpty, Weigh, Rotate, PushBack,
           PutContext, At, Goto, Handles, TypeOK
  <2>4. \A x \in Service : Busy(x)' <=> Busy(x)
    BY <2>2, <2>3, BusySame
  <2> QED
    BY <2>1, <2>4, Unseen, ToStutter
<1> QED
  BY <1>1, <1>2, <1>3, <1>4 DEF LoopStep

\* Every step of Dispatch is a step of the actors, or none they see.
LEMMA StepActors ==
  ASSUME DispatchInv, [Next]_vars
  PROVE  [Actors!ActorNext]_Actors!actorVars
<1>1. CASE UNCHANGED vars
  <2>1. UNCHANGED <<mq, queue, slot, dropq, cur, pc>>
    BY <1>1 DEF vars
  <2> QED
    BY <2>1, Unseen, ToStutter
<1>2. CASE \E t \in Thread : CallStep(t) \/ Choice(t)
  BY <1>2, CallActs, DropActs DEF CallStep, Choice
<1>3. CASE \E w \in Worker : LaunchStep(w) \/ LoopStep(w)
  BY <1>3, LaunchActs, LoopActs
<1> QED
  BY <1>1, <1>2, <1>3 DEF Next

\* Services are actors: whatever the threads do, the messages of a service are
\* handled one at a time, in the order in which its queue received them, and
\* what is left when it is killed goes back to the senders.
THEOREM ServicesAreActors == Spec => ActorSpec
<1>1. DispatchInv /\ [Next]_vars => [Actors!ActorNext]_Actors!actorVars
  BY StepActors
<1> QED
  BY <1>1, InitActors, DispatchInvariant, PTL DEF Spec, ActorSpec, Actors!ActorSpec

-----------------------------------------------------------------------------
(***************************************************************************)
(* Messages in order.  The property speaks of the last message handled;    *)
(* the invariant adds the messages on the way to it.                       *)
(***************************************************************************)
\* Message m was sent by s, and is not an error report.
From(m, s) == m.src = s /\ ~m.err

\* Thread t is in a send of service s to service d that is not pushed yet.
Sends(t, s, d) == /\ op[t].do \in {"grab", "push"}
                  /\ op[t].svc = d
                  /\ From(op[t].msg, s)

\* The messages of s to d that wait, and the one on its way, were sent in this
\* order after the last one that d has handled.
InLine(s, d) ==
    LET q == mq[d]
    IN /\ seen[s][d] <= sent
       /\ \A i \in 1 .. Len(q) :
            From(q[i], s) => q[i].id > seen[s][d] /\ q[i].id <= sent
       /\ \A i, j \in 1 .. Len(q) :
            i < j /\ From(q[i], s) /\ From(q[j], s) => q[i].id < q[j].id
       /\ \A t \in Thread :
            Sends(t, s, d) =>
              /\ op[t].msg.id > seen[s][d] /\ op[t].msg.id <= sent
              /\ \A i \in 1 .. Len(q) : From(q[i], s) => q[i].id < op[t].msg.id

\* A service that sends is run by the thread that sends for it.
SenderRuns ==
    \A t \in Thread, s, d \in Service :
        Sends(t, s, d) => t \in Worker /\ pc[t] = "call" /\ Running(t) = s

OrderInv == SenderRuns /\ \A s, d \in Service : InLine(s, d)

\* No two threads send for one service.
LEMMA OneSender ==
  ASSUME DispatchInv, SenderRuns, NEW s \in Service, NEW d \in Service,
         NEW e \in Service, NEW t \in Thread, NEW u \in Thread,
         Sends(t, s, d), Sends(u, s, e)
  PROVE  t = u
<1>1. ASSUME NEW v \in Thread, v \in Worker, pc[v] = "call", Running(v) = s
      PROVE  \E h \in Hands(s) : h[1] = v
  <2>1. launch[v] = s \/ cur[v] = s
    BY <1>1, DispatchAssumption DEF Running, DispatchInv, Shape, LoopShape
  <2>2. CASE launch[v] = s
    <3>1. <<v, "launch">> \in Hands(s)
      BY <2>2 DEF Hands
    <3> QED
      BY <3>1
  <2>3. CASE cur[v] = s
    <3>1. <<v, "cur">> \in Hands(s)
      BY <1>1, <2>3 DEF Hands
    <3> QED
      BY <3>1
  <2> QED
    BY <2>1, <2>2, <2>3
<1>2. /\ \E h \in Hands(s) : h[1] = t
      /\ \E h \in Hands(s) : h[1] = u
  BY <1>1 DEF SenderRuns
<1>3. \A g, h \in Hands(s) : g = h
  BY DEF DispatchInv, Placed, Alone
<1> QED
  BY <1>2, <1>3

\* The other threads go on sending as they did.
LEMMA SendersKept ==
  ASSUME SenderRuns, NEW t \in Thread,
         \A u \in Thread : u # t => op'[u] = op[u] /\ launch'[u] = launch[u],
         \A u \in Worker : u # t => pc'[u] = pc[u] /\ ctx'[u] = ctx[u],
         \A s, d \in Service :
           Sends(t, s, d)' => t \in Worker /\ pc'[t] = "call" /\ Running(t)' = s
  PROVE  SenderRuns'
<1> SUFFICES ASSUME NEW u \in Thread, NEW s \in Service, NEW d \in Service,
                    Sends(u, s, d)'
             PROVE  u \in Worker /\ pc'[u] = "call" /\ Running(u)' = s
  BY DEF SenderRuns
<1>1. CASE u = t
  BY <1>1
<1>2. CASE u # t
  <2>1. Sends(u, s, d)
    BY <1>2 DEF Sends
  <2>2. u \in Worker /\ pc[u] = "call" /\ Running(u) = s
    BY <2>1 DEF SenderRuns
  <2> QED
    BY <1>2, <2>2 DEF Running
<1> QED
  BY <1>1, <1>2

\* Who sends for a service goes on running it until the message is pushed.
LEMMA SendersStep ==
  ASSUME DispatchInv, SenderRuns, [Next]_vars
  PROVE  SenderRuns'
<1> USE DEF service, queues, loop, calls, history
<1>0. TypeOK /\ Shape /\ Worker \subseteq Thread /\ None \notin Service
  BY DispatchAssumption DEF DispatchInv
<1>1. ASSUME NEW t \in Thread, NEW x \in Service, BeginSend(t, x) PROVE SenderRuns'
  <2>1. /\ op' = [op EXCEPT ![t] =
                    [do |-> "grab", svc |-> x,
                     msg |-> [id |-> sent + 1, src |-> Running(t), err |-> FALSE]]]
        /\ MaySend(t) /\ UNCHANGED <<pc, ctx, launch>>
    BY <1>1 DEF BeginSend
  <2>2. ASSUME NEW s \in Service, NEW d \in Service, Sends(t, s, d)'
        PROVE  t \in Worker /\ pc[t] = "call" /\ Running(t) = s
    <3>1. Running(t) = s
      BY <1>0, <2>1, <2>2 DEF Sends, From, TypeOK
    <3>2. t \in Worker
      BY <1>0, <3>1 DEF Running, Shape, CallShape
    <3> QED
      BY <2>1, <3>1, <3>2 DEF MaySend, InService
  <2>3. Running(t)' = Running(t)
    BY <2>1 DEF Running
  <2>4. \A u \in Thread : u # t => op'[u] = op[u]
    BY <1>0, <2>1 DEF TypeOK
  <2> QED
    BY <2>1, <2>2, <2>3, <2>4, SendersKept
<1>2. ASSUME NEW t \in Thread, SendGrab(t) PROVE SenderRuns'
  <2>1. /\ \A u \in Thread : u # t => op'[u] = op[u]
        /\ \A s, d \in Service : Sends(t, s, d)' => Sends(t, s, d)
        /\ UNCHANGED <<pc, ctx, launch>>
    BY <1>0, <1>2 DEF SendGrab, Advance, Sends, TypeOK
  <2>2. \A s, d \in Service :
          Sends(t, s, d)' => t \in Worker /\ pc[t] = "call" /\ Running(t) = s
    BY <2>1 DEF SenderRuns
  <2>3. Running(t)' = Running(t)
    BY <2>1 DEF Running
  <2> QED
    BY <2>1, <2>2, <2>3, SendersKept
<1>3. ASSUME NEW t \in Thread,
             \/ SendRefused(t) \/ SendPush(t) \/ OpPut(t) \/ DropMessage(t)
             \/ InitFailRetire(t) \/ \E x \in Service : Kill(t, x)
      PROVE  SenderRuns'
  <2>1. /\ \A u \in Thread : u # t => op'[u] = op[u]
        /\ UNCHANGED <<pc, ctx, launch>>
    BY <1>0, <1>3
       DEF SendRefused, SendPush, OpPut, DropMessage, InitFailRetire, Kill, Retire,
           Advance, TypeOK
  <2>2. op'[t] = op[t] \/ op'[t].do \notin {"grab", "push"} \/ op'[t].msg.err
    BY <1>0, <1>3
       DEF SendRefused, SendPush, OpPut, DropMessage, InitFailRetire, Kill, Retire,
           Advance, NoOp, TypeOK
  <2>3. op'[t] = op[t] => op[t].do \notin {"grab", "push"}
    BY <1>0, <1>3
       DEF SendRefused, SendPush, OpPut, DropMessage, InitFailRetire, Kill, Retire,
           Advance, NoOp, TypeOK, CallsDone, Free
  <2>4. \A s, d \in Service : ~Sends(t, s, d)'
    BY <2>2, <2>3 DEF Sends, From
  <2> QED
    BY <2>1, <2>4, SendersKept
<1>4. ASSUME NEW t \in Thread,
             \/ Delete(t) \/ DropDone(t) \/ \E x \in Service : BeginLaunch(t, x)
             \/ t \in Worker /\ LoopStep(t)
             \/ InitOk(t) \/ InitReady(t) \/ LaunchEnqueue(t)
             \/ InitFail(t) \/ InitFailRelease(t)
      PROVE  SenderRuns'
  <2>1. CASE Delete(t)
    <3>1. UNCHANGED <<op, pc, ctx, launch>>
      BY <2>1 DEF Delete
    <3> QED
      BY <3>1 DEF SenderRuns, Sends, Running
  <2>2. CASE ~Delete(t)
    <3>1. op' = op /\ op[t].do = "idle"
      BY <1>4, <2>2
         DEF DropDone, BeginLaunch, InService, LoopStep, Fetch, GrabContext,
             GrabFails, ReleaseQueue, PopEmpty, PopFirst, Weigh, PopAgain, Return,
             Rotate, PushBack, PutContext, InitOk, InitReady, LaunchEnqueue,
             InitFail, InitFailRelease, At, Free, CallsDone
    <3>2. \A u \in Thread : u # t => launch'[u] = launch[u]
      BY <1>0, <1>4, <2>2
         DEF DropDone, BeginLaunch, LoopStep, Fetch, GrabContext,
             GrabFails, ReleaseQueue, PopEmpty, PopFirst, Weigh, PopAgain, Return,
             Rotate, PushBack, PutContext, InitOk, InitReady, LaunchEnqueue,
             InitFail, InitFailRelease, LaunchDone, TypeOK
    <3>3. \A u \in Worker : u # t => pc'[u] = pc[u] /\ ctx'[u] = ctx[u]
      BY <1>0, <1>4, <2>2
         DEF DropDone, BeginLaunch, LoopStep, Fetch, GrabContext,
             GrabFails, ReleaseQueue, PopEmpty, PopFirst, Weigh, PopAgain, Return,
             Rotate, PushBack, PutContext, InitOk, InitReady, LaunchEnqueue,
             InitFail, InitFailRelease, Goto, TypeOK
    <3>4. \A s, d \in Service : ~Sends(t, s, d)'
      BY <3>1 DEF Sends
    <3> QED
      BY <3>1, <3>2, <3>3, <3>4, SendersKept
  <2> QED
    BY <2>1, <2>2
<1>5. CASE UNCHANGED vars
  BY <1>5 DEF vars, SenderRuns, Sends, Running
<1> QED
  BY <1>0, <1>1, <1>2, <1>3, <1>4, <1>5 DEF Next, CallStep, Choice, LaunchStep

-----------------------------------------------------------------------------
\* Steps that move no message and begin no send.
LEMMA LineKept ==
  ASSUME NEW s \in Service, NEW d \in Service, InLine(s, d),
         UNCHANGED <<mq, seen, sent>>,
         \A t \in Thread :
           Sends(t, s, d)' => Sends(t, s, d) /\ op'[t].msg = op[t].msg
  PROVE  InLine(s, d)'
  BY DEF InLine

\* The first message leaves the queue of x, handled or given back.
LEMMA LineTail ==
  ASSUME TypeOK, NEW x \in Service, NEW s \in Service, NEW d \in Service,
         InLine(s, d), mq[x] # <<>>, mq' = [mq EXCEPT ![x] = Tail(@)], sent' = sent,
         \/ seen'[s][d] = seen[s][d]
         \/ d = x /\ From(Head(mq[x]), s) /\ seen'[s][d] = Head(mq[x]).id,
         \A t \in Thread :
           Sends(t, s, d)' => Sends(t, s, d) /\ op'[t].msg = op[t].msg
  PROVE  InLine(s, d)'
<1>1. CASE d # x
  <2>1. mq'[d] = mq[d] /\ seen'[s][d] = seen[s][d]
    BY <1>1 DEF TypeOK
  <2> QED
    BY <2>1 DEF InLine
<1>2. CASE d = x
  <2> DEFINE q == mq[d]
             r == mq'[d]
  <2>1. /\ q \in Seq(Message) /\ q # <<>> /\ r = Tail(q)
        /\ \/ seen'[s][d] = seen[s][d]
           \/ From(Head(q), s) /\ seen'[s][d] = Head(q).id
    BY <1>2 DEF TypeOK
  <2>2. /\ Len(q) \in Nat \ {0} /\ Len(r) = Len(q) - 1 /\ Head(q) = q[1]
        /\ \A i \in 1 .. Len(r) : r[i] = q[i + 1]
    <3> HIDE DEF q, r
    <3> QED
      BY <2>1, HeadTailProperties, LenProperties, EmptySeq
  <2>3. \A i \in 1 .. Len(q) : q[i].id \in Nat
    BY <2>1, ElementOfSeq, Calls
  <2>4. /\ seen[s][d] <= sent
        /\ \A i \in 1 .. Len(q) :
             From(q[i], s) => q[i].id > seen[s][d] /\ q[i].id <= sent
        /\ \A i, j \in 1 .. Len(q) :
             i < j /\ From(q[i], s) /\ From(q[j], s) => q[i].id < q[j].id
        /\ \A t \in Thread :
             Sends(t, s, d) =>
               /\ op[t].msg.id > seen[s][d] /\ op[t].msg.id <= sent
               /\ \A i \in 1 .. Len(q) : From(q[i], s) => q[i].id < op[t].msg.id
    BY DEF InLine
  <2> HIDE DEF q, r
  <2>5. seen'[s][d] <= sent
    BY <2>1, <2>2, <2>4
  <2>6. \A i \in 1 .. Len(r) :
          From(r[i], s) => r[i].id > seen'[s][d] /\ r[i].id <= sent
    BY <2>1, <2>2, <2>3, <2>4
  <2>7. \A i, j \in 1 .. Len(r) :
          i < j /\ From(r[i], s) /\ From(r[j], s) => r[i].id < r[j].id
    BY <2>2, <2>4
  <2>8. ASSUME NEW t \in Thread, Sends(t, s, d)'
        PROVE  /\ op'[t].msg.id > seen'[s][d] /\ op'[t].msg.id <= sent
               /\ \A i \in 1 .. Len(r) : From(r[i], s) => r[i].id < op'[t].msg.id
    BY <2>1, <2>2, <2>4, <2>8
  <2> QED
    BY <2>5, <2>6, <2>7, <2>8 DEF InLine, From, r
<1> QED
  BY <1>1, <1>2

\* A push puts the message behind the ones that its sender sent before.
LEMMA LinePush ==
  ASSUME DispatchInv, SenderRuns, NEW t \in Thread, SendPush(t),
         NEW s \in Service, NEW d \in Service, InLine(s, d)
  PROVE  InLine(s, d)'
<1> USE DEF service, queues, loop, calls, history
<1>0. TypeOK /\ Shape
  BY DEF DispatchInv
<1>1. PICK x \in Service, m \in Message : x = op[t].svc /\ m = op[t].msg
  BY <1>0, Calls DEF SendPush, Shape, CallShape, TypeOK
<1>2. /\ mq' = [mq EXCEPT ![x] = Append(@, m)] /\ op[t].do = "push"
      /\ \A u \in Thread : u # t => op'[u] = op[u]
      /\ op'[t].do = "put" /\ UNCHANGED <<seen, sent>>
  BY <1>0, <1>1 DEF SendPush, Enqueue, Advance, TypeOK
<1>3. \A u \in Thread :
        Sends(u, s, d)' => u # t /\ Sends(u, s, d) /\ op'[u].msg = op[u].msg
  BY <1>2 DEF Sends
<1>4. CASE d # x
  <2>1. mq'[d] = mq[d]
    BY <1>0, <1>2, <1>4 DEF TypeOK
  <2> QED
    BY <1>2, <1>3, <2>1 DEF InLine
<1>5. CASE d = x
  <2> DEFINE q == mq[d]
             r == mq'[d]
  <2>1. q \in Seq(Message) /\ r = Append(q, m)
    BY <1>0, <1>2, <1>5 DEF TypeOK
  <2>2. /\ Len(q) \in Nat /\ Len(r) = Len(q) + 1 /\ r[Len(q) + 1] = m
        /\ \A i \in 1 .. Len(q) : r[i] = q[i]
    BY <2>1, AppendProperties, LenProperties
  <2>3. From(m, s) => Sends(t, s, d) /\ \A u \in Thread : ~Sends(u, s, d)'
    BY <1>1, <1>2, <1>3, <1>5, OneSender DEF Sends
  <2>4. /\ seen[s][d] <= sent
        /\ \A i \in 1 .. Len(q) :
             From(q[i], s) => q[i].id > seen[s][d] /\ q[i].id <= sent
        /\ \A i, j \in 1 .. Len(q) :
             i < j /\ From(q[i], s) /\ From(q[j], s) => q[i].id < q[j].id
        /\ \A u \in Thread :
             Sends(u, s, d) =>
               /\ op[u].msg.id > seen[s][d] /\ op[u].msg.id <= sent
               /\ \A i \in 1 .. Len(q) : From(q[i], s) => q[i].id < op[u].msg.id
    BY DEF InLine
  <2>5. From(m, s) => /\ m.id > seen[s][d] /\ m.id <= sent
                      /\ \A i \in 1 .. Len(q) : From(q[i], s) => q[i].id < m.id
    BY <1>1, <2>3, <2>4
  <2> HIDE DEF q, r
  <2>6. \A i \in 1 .. Len(r) :
          From(r[i], s) => r[i].id > seen[s][d] /\ r[i].id <= sent
    BY <2>2, <2>4, <2>5
  <2>7. \A i, j \in 1 .. Len(r) :
          i < j /\ From(r[i], s) /\ From(r[j], s) => r[i].id < r[j].id
    BY <2>2, <2>4, <2>5
  <2>8. ASSUME NEW u \in Thread, Sends(u, s, d)'
        PROVE  /\ op'[u].msg.id > seen[s][d] /\ op'[u].msg.id <= sent
               /\ \A i \in 1 .. Len(r) : From(r[i], s) => r[i].id < op'[u].msg.id
    BY <1>3, <2>2, <2>3, <2>4, <2>8
  <2> QED
    BY <1>2, <2>4, <2>6, <2>7, <2>8 DEF InLine, From, r
<1> QED
  BY <1>4, <1>5

\* A send begun is later than all before.
LEMMA LineBegin ==
  ASSUME DispatchInv, NEW t \in Thread, NEW x \in Service, BeginSend(t, x),
         NEW s \in Service, NEW d \in Service, InLine(s, d)
  PROVE  InLine(s, d)'
<1> USE DEF service, queues, loop, calls, history
<1>0. TypeOK
  BY DEF DispatchInv
<1>1. /\ op' = [op EXCEPT ![t] =
                  [do |-> "grab", svc |-> x,
                   msg |-> [id |-> sent + 1, src |-> Running(t), err |-> FALSE]]]
      /\ sent' = sent + 1 /\ UNCHANGED <<mq, seen>>
  BY <1>0 DEF BeginSend
<1>2. /\ op'[t].msg.id = sent + 1
      /\ \A u \in Thread : u # t => op'[u] = op[u]
  BY <1>0, <1>1 DEF TypeOK
<1>3. /\ sent \in Int /\ seen[s][d] \in Int
      /\ \A i \in 1 .. Len(mq[d]) : mq[d][i].id \in Int
      /\ \A u \in Thread : op[u].msg.id \in Int
  <2>1. mq[d] \in Seq(Message) /\ \A i \in 1 .. Len(mq[d]) : mq[d][i] \in Message
    BY <1>0, ElementOfSeq DEF TypeOK
  <2>2. sent \in Int /\ seen[s][d] \in Int
    BY <1>0, DispatchAssumption DEF TypeOK
  <2>3. \A i \in 1 .. Len(mq[d]) : mq[d][i].id \in Int
    BY <2>1, Calls
  <2>4. \A u \in Thread : op[u].msg \in Message
    BY <1>0, Calls DEF TypeOK
  <2> QED
    BY <2>2, <2>3, <2>4, Calls
<1>4. \A u \in Thread : u # t /\ Sends(u, s, d)' => Sends(u, s, d)
  BY <1>2 DEF Sends
<1>5. ASSUME NEW u \in Thread, Sends(u, s, d)'
      PROVE  /\ op'[u].msg.id > seen[s][d] /\ op'[u].msg.id <= sent + 1
             /\ \A i \in 1 .. Len(mq[d]) :
                  From(mq[d][i], s) => mq[d][i].id < op'[u].msg.id
  <2>1. CASE u = t
    BY <1>2, <1>3, <2>1 DEF InLine
  <2>2. CASE u # t
    BY <1>2, <1>3, <1>4, <1>5, <2>2 DEF InLine
  <2> QED
    BY <2>1, <2>2
<1>6. /\ seen[s][d] <= sent + 1
      /\ \A i \in 1 .. Len(mq[d]) : From(mq[d][i], s) => mq[d][i].id <= sent + 1
  BY <1>3 DEF InLine
<1> QED
  BY <1>1, <1>5, <1>6 DEF InLine, From

\* What a worker takes from the queue of d becomes the last message handled.
LEMMA TakeSeen ==
  ASSUME DispatchInv, NEW w \in Worker, PopFirst(w) \/ PopAgain(w)
  PROVE  \E x \in Service :
           /\ mq[x] # <<>> /\ mq' = [mq EXCEPT ![x] = Tail(@)]
           /\ op' = op /\ sent' = sent
           /\ \A s, d \in Service :
                \/ seen'[s][d] = seen[s][d]
                \/ d = x /\ From(Head(mq[x]), s) /\ seen'[s][d] = Head(mq[x]).id
<1> USE DEF service, queues, loop, calls, history
<1>0. TypeOK /\ Shape
  BY DEF DispatchInv
<1>1. PICK x \in Service : x = cur[w]
  BY <1>0 DEF PopFirst, PopAgain, At, Shape, LoopShape
<1> DEFINE m == Head(mq[x])
<1>2. /\ mq[x] # <<>> /\ mq' = [mq EXCEPT ![x] = Tail(@)]
      /\ op' = op /\ sent' = sent
      /\ seen' = IF m.err \/ m.src = None THEN seen
                 ELSE [seen EXCEPT ![m.src][x] = m.id]
  BY <1>1 DEF PopFirst, PopAgain, Take
<1>3. m \in Message /\ m.src \in MaybeService
  BY <1>0, <1>2, SeqTypes, Calls DEF TypeOK
<1> HIDE DEF m
<1>4. ASSUME NEW s \in Service, NEW d \in Service
      PROVE  \/ seen'[s][d] = seen[s][d]
             \/ d = x /\ From(m, s) /\ seen'[s][d] = m.id
  <2>1. CASE m.err \/ m.src = None
    BY <1>2, <2>1
  <2>2. CASE ~m.err /\ m.src # None
    <3>1. m.src \in Service /\ seen' = [seen EXCEPT ![m.src][x] = m.id]
      BY <1>2, <1>3, <2>2 DEF MaybeService
    <3> QED
      BY <1>0, <2>2, <3>1 DEF From, TypeOK
  <2> QED
    BY <2>1, <2>2
<1> QED
  BY <1>2, <1>4 DEF m

\* The order of the messages is kept by every step.
LEMMA LineStep ==
  ASSUME DispatchInv, OrderInv, [Next]_vars, NEW s \in Service, NEW d \in Service
  PROVE  InLine(s, d)'
<1> USE DEF service, queues, loop, calls, history
<1>0. TypeOK /\ Shape /\ SenderRuns /\ InLine(s, d)
  BY DEF DispatchInv, OrderInv
<1>1. ASSUME NEW t \in Thread, NEW x \in Service, BeginSend(t, x) PROVE InLine(s, d)'
  BY <1>0, <1>1, LineBegin
<1>2. ASSUME NEW t \in Thread, SendPush(t) PROVE InLine(s, d)'
  BY <1>0, <1>2, LinePush
<1>3. ASSUME NEW w \in Worker, PopFirst(w) \/ PopAgain(w) PROVE InLine(s, d)'
  <2>1. PICK x \in Service :
          /\ mq[x] # <<>> /\ mq' = [mq EXCEPT ![x] = Tail(@)]
          /\ op' = op /\ sent' = sent
          /\ \/ seen'[s][d] = seen[s][d]
             \/ d = x /\ From(Head(mq[x]), s) /\ seen'[s][d] = Head(mq[x]).id
    BY <1>3, TakeSeen
  <2>2. \A t \in Thread : Sends(t, s, d)' => Sends(t, s, d) /\ op'[t].msg = op[t].msg
    BY <2>1 DEF Sends
  <2> QED
    BY <1>0, <2>1, <2>2, LineTail
<1>4. ASSUME NEW t \in Thread, DropMessage(t) PROVE InLine(s, d)'
  <2>1. PICK x \in Service : x = dropq[t]
    BY <1>0, <1>4 DEF DropMessage, TypeOK, MaybeService
  <2>2. /\ mq[x] # <<>> /\ mq' = [mq EXCEPT ![x] = Tail(@)]
        /\ seen' = seen /\ sent' = sent
        /\ \A u \in Thread : u # t => op'[u] = op[u]
        /\ op'[t] = op[t] \/ op'[t].msg.err
    BY <1>0, <1>4, <2>1 DEF DropMessage, TypeOK
  <2>3. op[t].do = "idle"
    BY <1>4 DEF DropMessage, CallsDone
  <2>4. \A u \in Thread : Sends(u, s, d)' => Sends(u, s, d) /\ op'[u].msg = op[u].msg
    BY <2>2, <2>3 DEF Sends, From
  <2> QED
    BY <1>0, <2>2, <2>4, LineTail
<1>5. ASSUME NEW t \in Thread,
             \/ SendRefused(t) \/ SendGrab(t) \/ OpPut(t) \/ InitFailRetire(t)
             \/ \E x \in Service : Kill(t, x)
      PROVE  InLine(s, d)'
  <2>1. UNCHANGED <<mq, seen, sent>> /\ \A u \in Thread : u # t => op'[u] = op[u]
    BY <1>0, <1>5 DEF SendRefused, SendGrab, OpPut, InitFailRetire, Kill, Retire,
                      Advance, TypeOK
  <2>2. \/ op'[t] = op[t] \/ op'[t].do \notin {"grab", "push"}
        \/ op[t].do = "grab" /\ op'[t].svc = op[t].svc /\ op'[t].msg = op[t].msg
    BY <1>0, <1>5, SMTT(30) DEF SendRefused, SendGrab, OpPut, InitFailRetire, Kill, Retire,
                      Advance, NoOp, TypeOK
  <2>3. \A u \in Thread : Sends(u, s, d)' => Sends(u, s, d) /\ op'[u].msg = op[u].msg
    BY <2>1, <2>2 DEF Sends
  <2> QED
    BY <1>0, <2>1, <2>3, LineKept
<1>6. ASSUME UNCHANGED <<mq, seen, sent, op>> PROVE InLine(s, d)'
  <2>1. \A u \in Thread : Sends(u, s, d)' => Sends(u, s, d) /\ op'[u].msg = op[u].msg
    BY <1>6 DEF Sends
  <2> QED
    BY <1>0, <1>6, <2>1, LineKept
<1>7. ASSUME NEW t \in Thread,
             Delete(t) \/ DropDone(t) \/ \E x \in Service : BeginLaunch(t, x)
      PROVE  InLine(s, d)'
  BY <1>6, <1>7 DEF Delete, DropDone, BeginLaunch
<1>8. ASSUME NEW w \in Worker,
             \/ InitOk(w) \/ InitReady(w) \/ LaunchEnqueue(w) \/ InitFail(w)
             \/ InitFailRelease(w) \/ Fetch(w) \/ GrabContext(w) \/ GrabFails(w)
             \/ ReleaseQueue(w) \/ PopEmpty(w) \/ Weigh(w) \/ Return(w) \/ Rotate(w)
             \/ PushBack(w) \/ PutContext(w)
      PROVE  InLine(s, d)'
  BY <1>6, <1>8
     DEF InitOk, InitReady, LaunchEnqueue, InitFail, InitFailRelease, Fetch,
         GrabContext, GrabFails, ReleaseQueue, PopEmpty, Weigh, Return, Rotate,
         PushBack, PutContext
<1>9. CASE UNCHANGED vars
  BY <1>6, <1>9 DEF vars
<1> QED
  BY <1>1, <1>2, <1>3, <1>4, <1>5, <1>7, <1>8, <1>9, DispatchAssumption
     DEF Next, CallStep, Choice, LaunchStep, LoopStep

\* At first nothing is sent.
LEMMA OrderInit == Init => OrderInv
<1> SUFFICES ASSUME Init PROVE OrderInv
  OBVIOUS
<1>1. \A t \in Thread, s, d \in Service : ~Sends(t, s, d)
  BY DEF Init, NoOp, Sends
<1>2. ASSUME NEW s \in Service, NEW d \in Service PROVE InLine(s, d)
  <2>1. mq[d] = <<>> /\ seen[s][d] = 0 /\ sent = 0 /\ Len(<<>>) = 0
    BY DEF Init
  <2> QED
    BY <1>1, <2>1 DEF InLine
<1> QED
  BY <1>1, <1>2 DEF OrderInv, SenderRuns

LEMMA OrderStep == DispatchInv /\ OrderInv /\ [Next]_vars => OrderInv'
  BY SendersStep, LineStep DEF OrderInv

\* What waits or is on its way from one service to another is in the order of
\* the sends, behind the last message handled, whoever sends and dispatches.
THEOREM MessagesInLine == Spec => []OrderInv
  BY OrderInit, OrderStep, DispatchInvariant, PTL DEF Spec

\* The last message handled is never replaced by an earlier one.
LEMMA OrderActs ==
  ASSUME DispatchInv, OrderInv, [Next]_vars, NEW s \in Service, NEW d \in Service
  PROVE  seen'[s][d] >= seen[s][d]
<1> USE DEF service, queues, loop, calls, history
<1>0. TypeOK /\ InLine(s, d) /\ seen[s][d] \in Nat
  BY DEF DispatchInv, OrderInv, TypeOK
<1>1. ASSUME NEW w \in Worker, PopFirst(w) \/ PopAgain(w)
      PROVE  seen'[s][d] >= seen[s][d]
  <2>1. PICK x \in Service :
          /\ mq[x] # <<>>
          /\ \/ seen'[s][d] = seen[s][d]
             \/ d = x /\ From(Head(mq[x]), s) /\ seen'[s][d] = Head(mq[x]).id
    BY <1>1, TakeSeen
  <2>2. /\ Head(mq[x]) = mq[x][1] /\ 1 \in 1 .. Len(mq[x])
        /\ mq[x][1].id \in Nat
    BY <1>0, <2>1, LenProperties, EmptySeq, ElementOfSeq, Calls, HeadTailProperties, SMTT(30)
       DEF TypeOK
  <2> QED
    BY <1>0, <2>1, <2>2 DEF InLine
<1>2. CASE seen' = seen
  BY <1>0, <1>2
<1> QED
  BY <1>1, <1>2
     DEF Next, CallStep, Choice, LaunchStep, LoopStep, SendRefused, SendGrab, SendPush,
         OpPut, Delete, DropMessage, DropDone, BeginSend, Kill, BeginLaunch, InitOk,
         InitReady, LaunchEnqueue, InitFail, InitFailRetire, InitFailRelease, Fetch,
         GrabContext, GrabFails, ReleaseQueue, PopEmpty, Weigh, Return, Rotate,
         PushBack, PutContext, vars

\* The messages of one service to another are handled in the order in which
\* they were sent, although each may be handled by a different worker.
THEOREM HandledInOrder == Spec => InOrder
<1>1. DispatchInv /\ OrderInv /\ [Next]_vars
        => [\A s, d \in Service : seen'[s][d] >= seen[s][d]]_vars
  BY OrderActs
<1> QED
  BY <1>1, DispatchInvariant, MessagesInLine, PTL DEF Spec, InOrder
=============================================================================
