------------------------------- MODULE LuaProof -------------------------------
(***************************************************************************)
(* Proofs about the libraries of the Lua services, composed in MCLua: the  *)
(* critical section (CriticalSection), the calls and sends of a service to *)
(* another node (ClusterSend), the services that are to be there once      *)
(* (UniqueService), and sessions and coroutines (Session, SessionProof).   *)
(***************************************************************************)
EXTENDS MCLua, SequenceTheorems, TLAPS

-----------------------------------------------------------------------------
(***************************************************************************)
(* The critical section (queue.lua): it excludes for any number of         *)
(* threads, and while no thread is killed it is handed on in the order of  *)
(* the calls.  Section ties the queue, current_thread and ref to where the *)
(* threads are.                                                            *)
(***************************************************************************)
Queue == 1 .. Len(thread_queue)

Section ==
    /\ current_thread = None => ref = 0 /\ thread_queue = <<>>
    /\ current_thread # None =>
          at[current_thread] \in (IF ref > 0 THEN {"in", "dead"} ELSE {"woken", "dead"})
    /\ \A t \in Thread : at[t] \in {"in", "woken"} => current_thread = t
    /\ \A k \in Queue : at[thread_queue[k]] \in {"wait", "dead"}
                        /\ thread_queue[k] # current_thread
    /\ \A j, k \in Queue : thread_queue[j] = thread_queue[k] => j = k
    /\ ~CanKill => \A t \in Thread : at[t] # "dead"

Inv == TypeOK /\ Section

LEMMA InitInv == Init => Inv
BY CriticalSectionAssumption DEF Init, Inv, TypeOK, Section, Queue

\* What a thread at the end of the queue, and one less at its front, change.
LEMMA QueueGrows ==
    ASSUME NEW q \in Seq(Thread), NEW t \in Thread
    PROVE  /\ Append(q, t) \in Seq(Thread) /\ Len(Append(q, t)) = Len(q) + 1
           /\ \A k \in 1 .. Len(q) : Append(q, t)[k] = q[k]
           /\ Append(q, t)[Len(q) + 1] = t
OBVIOUS

LEMMA QueueShrinks ==
    ASSUME NEW q \in Seq(Thread), q # <<>>
    PROVE  /\ Head(q) \in Thread /\ Head(q) = q[1] /\ Len(q) \in Nat /\ Len(q) > 0
           /\ Tail(q) \in Seq(Thread) /\ Len(Tail(q)) = Len(q) - 1
           /\ \A k \in 1 .. Len(Tail(q)) : Tail(q)[k] = q[k + 1]
OBVIOUS

LEMMA CallInv == ASSUME Inv, NEW t \in Thread, Call(t) PROVE Inv'
<1>1. CASE current_thread # None /\ current_thread # t
  <2>1. /\ thread_queue' = Append(thread_queue, t)
        /\ at' = [at EXCEPT ![t] = "wait"]
        /\ at[t] = "out" /\ UNCHANGED <<current_thread, ref, nested>>
    BY <1>1 DEF Call, Goto
  <2>2. TypeOK'
    BY <2>1, QueueGrows DEF Inv, TypeOK
  <2>3. \A k \in Queue : thread_queue[k] # t
    BY <2>1 DEF Inv, Section
  <2>4. thread_queue' # <<>> /\ current_thread' # None
    BY <1>1, <2>1, QueueGrows DEF Inv, TypeOK
  <2>5. current_thread \in Thread
    BY <1>1 DEF Inv, TypeOK
  <2>6. \A k \in Queue' : /\ at'[thread_queue'[k]] \in {"wait", "dead"}
                          /\ thread_queue'[k] # current_thread'
    BY <1>1, <2>1, <2>3, QueueGrows DEF Inv, TypeOK, Section, Queue
  <2>7. \A j, k \in Queue' : thread_queue'[j] = thread_queue'[k] => j = k
    BY <2>1, <2>3, QueueGrows DEF Inv, TypeOK, Section, Queue
  <2>8. at'[current_thread] = at[current_thread]
    BY <1>1, <2>1, <2>5 DEF Inv, TypeOK
  <2>9. /\ \A u \in Thread : at'[u] \in {"in", "woken"} => current_thread' = u
        /\ ~CanKill => \A u \in Thread : at'[u] # "dead"
    BY <2>1 DEF Inv, TypeOK, Section
  <2> QED
    BY <2>1, <2>2, <2>4, <2>6, <2>7, <2>8, <2>9 DEF Inv, Section
<1>2. CASE current_thread = None
  <2>1. /\ current_thread' = t /\ ref' = 1 /\ nested' = 0
        /\ at' = [at EXCEPT ![t] = "in"] /\ at[t] = "out" /\ thread_queue' = <<>>
    BY <1>2 DEF Call, Goto, Inv, Section
  <2> QED
    BY <1>2, <2>1, CriticalSectionAssumption DEF Inv, TypeOK, Section, Queue
<1>3. CASE current_thread = t
  BY <1>3, CriticalSectionAssumption DEF Call, Inv, TypeOK, Section
<1> QED BY <1>1, <1>2, <1>3

LEMMA ResumeInv == ASSUME Inv, NEW t \in Thread, Resume(t) PROVE Inv'
<1>1. /\ at[t] = "woken" /\ current_thread = t /\ current_thread' = t
      /\ at' = [at EXCEPT ![t] = "in"]
      /\ thread_queue' = thread_queue /\ ref' = ref + 1 /\ nested' = 0
  BY DEF Resume, Goto, Inv, Section
<1>2. TypeOK'
  BY <1>1 DEF Inv, TypeOK
<1>3. \A k \in Queue : thread_queue[k] \in Thread /\ thread_queue[k] # t
  BY <1>1 DEF Inv, TypeOK, Section, Queue
<1>4. t # None
  BY CriticalSectionAssumption
<1> QED
  BY <1>1, <1>2, <1>3, <1>4 DEF Inv, TypeOK, Section, Queue

LEMMA HandOnInv ==
    ASSUME Inv, NEW t \in Thread, at[t] = "in", ref' = 0, HandOn(t), nested' = nested
    PROVE  Inv'
<1>1. current_thread = t /\ t # None
  BY CriticalSectionAssumption DEF Inv, Section
<1>2. CASE thread_queue = <<>>
  <2>1. current_thread' = None /\ thread_queue' = <<>>
    BY <1>2 DEF HandOn, NextThread
  <2>2. at' = [u \in Thread |-> IF u = t THEN "out" ELSE at[u]]
    BY <1>2, CriticalSectionAssumption DEF HandOn, NextThread
  <2> QED
    BY <1>1, <2>1, <2>2 DEF Inv, TypeOK, Section, Queue
<1>3. CASE thread_queue # <<>>
  <2> DEFINE n == thread_queue[1]
  <2>0. thread_queue \in Seq(Thread)
    BY DEF Inv, TypeOK
  <2>1. n \in Thread /\ n # t /\ n # None /\ at[n] \in {"wait", "dead"}
    BY <1>1, <1>3, <2>0, QueueShrinks, CriticalSectionAssumption DEF Inv, Section, Queue
  <2>2. /\ current_thread' = n /\ thread_queue' = Tail(thread_queue)
        /\ at' = [u \in Thread |-> IF u = t THEN "out"
                                   ELSE IF u = n /\ at[u] = "wait" THEN "woken" ELSE at[u]]
    BY <1>3, <2>0, QueueShrinks DEF HandOn, NextThread
  <2>3. TypeOK'
    BY <1>3, <2>0, <2>1, <2>2, QueueShrinks DEF Inv, TypeOK
  <2>4. \A k \in Queue' : /\ k + 1 \in Queue /\ thread_queue'[k] = thread_queue[k + 1]
                          /\ thread_queue'[k] \in Thread
    BY <1>3, <2>0, <2>2, QueueShrinks DEF Queue
  <2>5. \A k \in Queue' : /\ at'[thread_queue'[k]] \in {"wait", "dead"}
                          /\ thread_queue'[k] # n
    <3> SUFFICES ASSUME NEW k \in Queue'
                 PROVE  /\ at'[thread_queue'[k]] \in {"wait", "dead"}
                        /\ thread_queue'[k] # n
      OBVIOUS
    <3>1. 1 \in Queue /\ k + 1 # 1
      BY <1>3, <2>0, QueueShrinks, <2>2 DEF Queue
    <3>2. thread_queue'[k] # n
      BY <2>4, <3>1 DEF Inv, Section
    <3>3. thread_queue'[k] # t /\ at[thread_queue'[k]] \in {"wait", "dead"}
      BY <1>1, <2>4 DEF Inv, Section
    <3> QED
      BY <2>2, <2>4, <3>2, <3>3
  <2>6. \A j, k \in Queue' : thread_queue'[j] = thread_queue'[k] => j = k
    <3> SUFFICES ASSUME NEW j \in Queue', NEW k \in Queue',
                        thread_queue'[j] = thread_queue'[k]
                 PROVE  j = k
      OBVIOUS
    <3>1. j + 1 = k + 1
      BY <2>4 DEF Inv, Section
    <3> QED
      BY <3>1 DEF Queue
  <2>7. at'[n] \in {"woken", "dead"}
    BY <2>1, <2>2
  <2>8. /\ \A u \in Thread : at'[u] \in {"in", "woken"} => current_thread' = u
        /\ ~CanKill => \A u \in Thread : at'[u] # "dead"
    BY <1>1, <2>1, <2>2 DEF Inv, Section
  <2>9. current_thread' = n /\ ~(ref' > 0)
    BY <2>2
  <2>10. Section'
    BY <2>1, <2>5, <2>6, <2>7, <2>8, <2>9 DEF Section
  <2> QED
    BY <2>3, <2>10 DEF Inv
<1> QED BY <1>2, <1>3

LEMMA ReturnInv == ASSUME Inv, NEW t \in Thread, Return(t) PROVE Inv'
<1>1. at[t] = "in" /\ current_thread = t /\ ref' = ref - 1 /\ nested' = nested
  BY DEF Return, Inv, Section
<1>2. ref > 0
  BY <1>1, CriticalSectionAssumption DEF Inv, TypeOK, Section
<1>3. CASE ref' = 0
  BY <1>1, <1>3, HandOnInv DEF Return
<1>4. CASE ref' # 0
  <2>1. UNCHANGED <<current_thread, thread_queue, at>> /\ ref' > 0 /\ ref' \in Nat
    BY <1>1, <1>2, <1>4 DEF Return, Inv, TypeOK
  <2> QED
    BY <1>1, <1>2, <2>1, CriticalSectionAssumption DEF Inv, TypeOK, Section, Queue
<1> QED BY <1>3, <1>4

LEMMA NestInv == ASSUME Inv, NEW t \in Thread, Nest(t) PROVE Inv'
<1>1. at[t] = "in" /\ current_thread = t /\ ref' = ref + 1 /\ nested' = nested + 1
      /\ UNCHANGED <<current_thread, thread_queue, at>>
  BY DEF Nest, Inv, Section
<1> QED
  BY <1>1, CriticalSectionAssumption DEF Inv, TypeOK, Section, Queue

LEMMA KillInv == ASSUME Inv, NEW t \in Thread, Kill(t) PROVE Inv'
<1>1. /\ at[t] \in {"wait", "woken", "in"} /\ at' = [at EXCEPT ![t] = "dead"] /\ CanKill
      /\ UNCHANGED <<current_thread, ref, thread_queue, nested>>
  BY DEF Kill, Goto
<1> QED
  BY <1>1 DEF Inv, TypeOK, Section, Queue

LEMMA NextInv == Inv /\ [Next]_vars => Inv'
<1>1. ASSUME Inv, UNCHANGED vars PROVE Inv'
  BY <1>1 DEF vars, Inv, TypeOK, Section, Queue
<1> QED
  BY <1>1, CallInv, ResumeInv, NestInv, ReturnInv, KillInv DEF Next

LEMMA Invariance == Spec => []Inv
BY InitInv, NextInv, PTL DEF Spec

\* The state variables keep their types; ref is never below zero.
THEOREM TypeCorrect == Spec => []TypeOK
BY Invariance, PTL DEF Inv

\* Only one thread is in the section, for any number of threads and kills.
THEOREM Excludes == Spec => []MutualExclusion
<1>1. Inv => MutualExclusion
  BY DEF Inv, Section, MutualExclusion
<1> QED BY <1>1, Invariance, PTL

\* The assertion of queue.lua holds.
THEOREM AssertionHolds == Spec => []WokenIsNext
<1>1. Inv => WokenIsNext
  BY CriticalSectionAssumption DEF Inv, TypeOK, Section, WokenIsNext
<1> QED BY <1>1, Invariance, PTL

------------------------------------------------------------------------------
\* The refinement of the lock.

LEMMA InitFifo == Init => FifoInit
BY DEF Init, FifoInit, holder, line, woken

LEMMA FrontOfLine ==
    ASSUME NEW q \in Seq(Thread), NEW t \in Thread
    PROVE  /\ <<t>> \o q \in Seq(Thread) /\ <<t>> \o q # <<>>
           /\ Head(<<t>> \o q) = t /\ Tail(<<t>> \o q) = q
           /\ Len(<<t>> \o q) = Len(q) + 1
           /\ \A k \in 1 .. Len(q) + 1 : (<<t>> \o q)[k] = IF k = 1 THEN t ELSE q[k - 1]
           /\ \A u \in Thread : Append(<<t>> \o q, u) = <<t>> \o Append(q, u)
           /\ q # <<>> => <<Head(q)>> \o Tail(q) = q
OBVIOUS

LEMMA CallFifo ==
    ASSUME ~CanKill, Inv, NEW t \in Thread, Call(t)
    PROVE  TakeFree(t) \/ Ask(t)
<1>0. thread_queue \in Seq(Thread) /\ ref \in Nat /\ t # None
  BY CriticalSectionAssumption DEF Inv, TypeOK
<1>1. CASE current_thread # None /\ current_thread # t
  <2>1. /\ thread_queue' = Append(thread_queue, t) /\ at[t] = "out"
        /\ UNCHANGED <<current_thread, ref>>
    BY <1>1 DEF Call
  <2>2. holder' = holder /\ t # holder
    BY <1>0, <1>1, <2>1 DEF holder
  <2>3. current_thread \in Thread
    BY <1>1 DEF Inv, TypeOK
  <2>4. line' = Append(line, t)
    BY <1>0, <2>1, <2>3, FrontOfLine DEF line, woken
  <2>5. ASSUME NEW k \in 1 .. Len(line), line[k] = t PROVE FALSE
    <3>1. ASSUME NEW j \in Queue, thread_queue[j] = t PROVE FALSE
      BY <2>1, <3>1 DEF Inv, Section
    <3>2. CASE woken
      <4>1. /\ Len(line) = Len(thread_queue) + 1
            /\ line[k] = IF k = 1 THEN current_thread ELSE thread_queue[k - 1]
        BY <1>0, <2>3, <2>5, <3>2, FrontOfLine DEF line
      <4> QED BY <1>0, <1>1, <2>5, <3>1, <4>1 DEF Queue
    <3>3. CASE ~woken
      BY <2>5, <3>1, <3>3 DEF line, Queue
    <3> QED BY <3>2, <3>3
  <2> QED
    BY <2>2, <2>4, <2>5 DEF Ask, InLine, holder, line
<1>2. CASE current_thread = None
  <2>1. current_thread' = t /\ ref' = 1 /\ thread_queue' = <<>> /\ thread_queue = <<>> /\ ref = 0
    BY <1>2 DEF Call, Inv, Section
  <2> QED
    BY <1>0, <1>2, <2>1 DEF TakeFree, holder, line, woken
<1>3. CASE current_thread = t
  BY <1>0, <1>3 DEF Call, Inv, TypeOK, Section
<1> QED BY <1>1, <1>2, <1>3

LEMMA ResumeFifo ==
    ASSUME ~CanKill, Inv, NEW t \in Thread, Resume(t)
    PROVE  Grant
<1>1. /\ thread_queue \in Seq(Thread) /\ t # None /\ current_thread = t /\ current_thread' = t
      /\ thread_queue' = thread_queue /\ ref = 0 /\ ref' = 1
  BY CriticalSectionAssumption DEF Resume, Inv, TypeOK, Section
<1> QED
  BY <1>1, FrontOfLine DEF Grant, holder, line, woken

LEMMA ReturnFifo ==
    ASSUME ~CanKill, Inv, NEW t \in Thread, Return(t)
    PROVE  Release \/ (holder' = holder /\ line' = line)
<1>1. /\ at[t] = "in" /\ current_thread = t /\ ref' = ref - 1 /\ ref > 0 /\ ref \in Nat
      /\ thread_queue \in Seq(Thread) /\ t # None
  BY CriticalSectionAssumption DEF Return, Inv, TypeOK, Section
<1>2. CASE ref' = 0
  <2>1. holder = t /\ holder' = None /\ line = thread_queue
    BY <1>1, <1>2 DEF holder, line, woken
  <2>2. line' = thread_queue
    <3>1. CASE thread_queue = <<>>
      <4>1. current_thread' = None /\ thread_queue' = <<>>
        BY <1>2, <3>1 DEF Return, HandOn, NextThread
      <4> QED BY <3>1, <4>1 DEF line, woken
    <3>2. CASE thread_queue # <<>>
      <4>1. current_thread' = Head(thread_queue) /\ thread_queue' = Tail(thread_queue)
        BY <1>2, <3>2 DEF Return, HandOn, NextThread
      <4>2. current_thread' # None
        BY <1>1, <3>2, <4>1, QueueShrinks, CriticalSectionAssumption
      <4> QED BY <1>1, <1>2, <3>2, <4>1, <4>2, FrontOfLine DEF line, woken
    <3> QED BY <3>1, <3>2
  <2> QED
    BY <1>1, <2>1, <2>2 DEF Release, holder, line
<1>3. CASE ref' # 0
  <2>1. UNCHANGED <<current_thread, thread_queue>> /\ ref' > 0
    BY <1>1, <1>3 DEF Return
  <2> QED BY <1>1, <2>1 DEF holder, line, woken
<1> QED BY <1>2, <1>3

LEMMA NextFifo ==
    ASSUME ~CanKill, Inv, [Next]_vars
    PROVE  [FifoNext]_<<holder, line>>
<1>1. ASSUME NEW t \in Thread, Nest(t) PROVE UNCHANGED <<holder, line>>
  <2>1. current_thread = t /\ ref > 0 /\ ref \in Nat
    BY <1>1, CriticalSectionAssumption DEF Nest, Inv, TypeOK, Section
  <2> QED BY <1>1, <2>1 DEF Nest, holder, line, woken
<1>2. ASSUME UNCHANGED vars PROVE UNCHANGED <<holder, line>>
  BY <1>2 DEF vars, holder, line, woken
<1>3. ASSUME NEW t \in Thread, Kill(t) PROVE FALSE
  BY <1>3 DEF Kill
<1> QED
  BY <1>1, <1>2, <1>3, CallFifo, ResumeFifo, ReturnFifo DEF Next, FifoNext

\* While no thread is killed, the section is handed on in the order of the calls.
THEOREM InOrder == ~CanKill /\ Spec => HandedOnInOrder
<1>1. SUFFICES ASSUME ~CanKill PROVE Spec => HandedOnInOrder
  OBVIOUS
<1>2. Inv /\ [Next]_vars => [FifoNext]_<<holder, line>>
  BY <1>1, NextFifo
<1> QED
  BY <1>2, InitFifo, Invariance, PTL DEF Spec, HandedOnInOrder

-----------------------------------------------------------------------------
(***************************************************************************)
(* Calls and sends to a node (cluster.lua).                                *)
(***************************************************************************)
Waiting == [who : Pusher \cup {None}, n : Nat]

SendTypes ==
    /\ sender \in BOOLEAN /\ queued \in BOOLEAN /\ q_sender \in BOOLEAN
    /\ task_queue \in Seq(Waiting)
    /\ send_pc \in [Pusher \cup {Asker} ->
                      {"idle", "wait", "call", "ask", "asking", "run", "confirm"}]
    /\ send_op \in [Pusher -> Nat]
    /\ wire \in Seq(Nat)
    /\ sends \in Nat

\* Where request_sender is, and who runs next.  A coroutine that is let go runs
\* alone, between two rounds of it.
LetGo(t) == send_pc[Asker] = "confirm" /\ send_wake = <<t>> /\ send_pc[t] = "wait"
Turns ==
    /\ send_pc[Asker] = "idle" => send_wake = <<>> /\ ~ queued /\ task_queue = <<>>
    /\ send_pc[Asker] # "idle" => queued /\ ~ sender
    /\ send_pc[Asker] \in {"ask", "run"} => send_wake = <<Asker>>
    /\ send_pc[Asker] = "asking" => send_wake = <<>>
    /\ send_pc[Asker] = "confirm" => send_wake = <<Asker>> \/ \E t \in Pusher : LetGo(t)
    /\ send_pc[Asker] \in {"idle", "ask", "asking", "run", "confirm"}

\* The first k calls and sends have gone out in their order, or failed.
Done(k) == /\ Send!ToSet(wire) \cup failed = 1 .. k
           /\ Send!ToSet(wire) \cap failed = {}
           /\ Send!InOrder

\* The queue holds the last calls and sends, in their order; all others are
\* done, but for the one that has been let go.
Handed == sends - Len(task_queue)
Line ==
    /\ Handed \in Nat
    /\ \A i \in 1 .. Len(task_queue) :
          /\ task_queue[i].n = Handed + i
          /\ task_queue[i].who # None => /\ send_pc[task_queue[i].who] = "wait"
                                         /\ send_op[task_queue[i].who] = Handed + i
    /\ (\E t \in Pusher : LetGo(t)) => Handed # 0 /\ Done(Handed - 1)
    /\ \A t \in Pusher : LetGo(t) => send_op[t] = Handed
    /\ (~ \E t \in Pusher : LetGo(t)) => Done(Handed)

SendInv == SendTypes /\ Turns /\ Line

LEMMA AppendToTail ==
  ASSUME NEW S, NEW a \in S, NEW b \in S
  PROVE  Append(Tail(<<a>>), b) = <<b>>
<1>1. Tail(<<a>>) = <<>>
  OBVIOUS
<1>2. Append(<<>>, b) = <<b>>
  OBVIOUS
<1> QED
  BY <1>1, <1>2

LEMMA SendConstants == Asker \notin Pusher /\ None \notin Pusher
  BY SendAssumption DEF Send!ClusterSendAssumption

\* What a call or send that goes out, or fails, does to those that are done.
LEMMA GoesOut ==
  ASSUME SendTypes, NEW k \in Nat, Done(k), wire' = Append(wire, k + 1), failed' = failed
  PROVE  Done(k + 1)' /\ wire' \in Seq(Nat)
<1>1. /\ Len(wire) \in Nat /\ wire' \in Seq(Nat) /\ Len(wire') = Len(wire) + 1
      /\ \A i \in 1 .. Len(wire) : wire'[i] = wire[i]
      /\ wire'[Len(wire) + 1] = k + 1
  BY DEF SendTypes
<1>2. DOMAIN wire = 1 .. Len(wire) /\ DOMAIN wire' = 1 .. Len(wire) + 1
  BY <1>1 DEF SendTypes
<1>3. \A i \in 1 .. Len(wire) : wire[i] \in 1 .. k
  BY <1>2 DEF Done, Send!ToSet
<1>4. Send!ToSet(wire)' = Send!ToSet(wire) \cup {k + 1}
  BY <1>1, <1>2 DEF Send!ToSet
<1>5. 1 .. k + 1 = (1 .. k) \cup {k + 1} /\ k + 1 \notin 1 .. k
  OBVIOUS
<1>6. (Send!ToSet(wire) \cup failed = 1 .. k + 1)' /\ (Send!ToSet(wire) \cap failed = {})'
  BY <1>4, <1>5 DEF Done
<1>7. Send!InOrder'
  BY <1>1, <1>2, <1>3 DEF Done, Send!InOrder
<1> QED
  BY <1>1, <1>6, <1>7 DEF Done

LEMMA Fails ==
  ASSUME SendTypes, NEW k \in Nat, Done(k), wire' = wire, failed' = failed \cup {k + 1}
  PROVE  Done(k + 1)'
<1>1. 1 .. k + 1 = (1 .. k) \cup {k + 1} /\ k + 1 \notin 1 .. k
  OBVIOUS
<1>2. Send!ToSet(wire)' = Send!ToSet(wire)
  BY DEF Send!ToSet
<1> QED
  BY <1>1, <1>2 DEF Done, Send!InOrder

\* The next call or send, by t or by nobody who waits.
LEMMA EnqueueStep ==
  ASSUME SendInv, NEW t \in Pusher \cup {None}, Send!Quiet, ~ sender, sends' = sends + 1,
         Send!Enqueue(t), UNCHANGED <<sender, wire, failed>>,
         t \in Pusher => send_pc[t] = "idle",
         send_op' = IF t = None THEN send_op ELSE [send_op EXCEPT ![t] = sends']
  PROVE  SendInv'
<1> USE DEF SendInv
<1> DEFINE task == [who |-> t, n |-> sends + 1]
           q == Len(task_queue)
<1>1. Asker \notin Pusher /\ None \notin Pusher
  BY SendConstants
<1>2. /\ task_queue' = Append(task_queue, task) /\ queued' = TRUE
      /\ task \in Waiting
  BY DEF Send!Enqueue, Send!Task, Waiting, SendTypes
<1> HIDE DEF task
<1>3. /\ q \in Nat /\ task_queue' \in Seq(Waiting) /\ Len(task_queue') = q + 1
      /\ \A i \in 1 .. q : task_queue'[i] = task_queue[i] /\ task_queue[i] \in Waiting
      /\ task_queue'[q + 1] = task
  BY <1>2 DEF SendTypes
<1>4. /\ send_pc' \in [Pusher \cup {Asker} ->
                         {"idle", "wait", "call", "ask", "asking", "run", "confirm"}]
      /\ \A u \in Pusher : u # t => send_pc'[u] = send_pc[u]
      /\ t \in Pusher => send_pc'[t] = "wait"
      /\ q_sender' \in BOOLEAN
  BY <1>1 DEF Send!Enqueue, SendTypes
<1>5. SendTypes'
  BY <1>1, <1>2, <1>3, <1>4 DEF SendTypes
<1>6. send_pc[Asker] \in {"idle", "asking"} /\ send_wake = <<>>
  BY <1>1 DEF Turns, LetGo, Send!Quiet
<1>7. \/ queued /\ send_pc[Asker] = "asking" /\ send_pc'[Asker] = "asking" /\ send_wake' = <<>>
      \/ ~ queued /\ send_pc[Asker] = "idle" /\ send_pc'[Asker] = "ask" /\ send_wake' = <<Asker>>
  BY <1>1, <1>6 DEF Turns, Send!Enqueue, SendTypes
<1>8. Turns'
  BY <1>2, <1>7 DEF Turns, LetGo
<1>9. \A u \in Pusher : ~ LetGo(u) /\ ~ LetGo(u)'
  BY <1>1, <1>6, <1>7 DEF LetGo
<1>10. Handed' = Handed /\ Handed \in Nat /\ sends + 1 = Handed + q + 1
  BY <1>3 DEF Handed, SendTypes, Line
<1>11. ASSUME NEW i \in 1 .. Len(task_queue')
       PROVE  /\ task_queue'[i].n = Handed + i
              /\ task_queue'[i].who # None => /\ send_pc'[task_queue'[i].who] = "wait"
                                              /\ send_op'[task_queue'[i].who] = Handed + i
  <2>1. CASE i = q + 1
    BY <1>3, <1>4, <1>10, <2>1 DEF task, SendTypes
  <2>2. CASE i \in 1 .. q
    <3>1. task_queue[i].who # None => task_queue[i].who \in Pusher /\ task_queue[i].who # t
      BY <1>3, <2>2 DEF Waiting, Line
    <3> QED
      BY <1>1, <1>3, <1>4, <2>2, <3>1 DEF Line, SendTypes
  <2> QED
    BY <1>3, <2>1, <2>2
<1>12. Done(Handed)'
  BY <1>9, <1>10 DEF Line, Done, Send!InOrder, Send!ToSet
<1>13. Line'
  BY <1>9, <1>10, <1>11, <1>12 DEF Line
<1> QED
  BY <1>5, <1>8, <1>13

\* A call or send whose sender is known.
LEMMA AtOnceStep ==
  ASSUME SendInv, sender, sends' = sends + 1, Send!Send(sends'),
         UNCHANGED <<sender, queued, q_sender, task_queue, send_wake, failed>>,
         send_pc' \in [Pusher \cup {Asker} ->
                         {"idle", "wait", "call", "ask", "asking", "run", "confirm"}],
         send_pc'[Asker] = send_pc[Asker], send_op' \in [Pusher -> Nat]
  PROVE  SendInv'
<1> USE DEF SendInv
<1>1. send_pc[Asker] = "idle" /\ task_queue = <<>>
  BY DEF Turns
<1>2. \A u \in Pusher : ~ LetGo(u) /\ ~ LetGo(u)'
  BY <1>1 DEF LetGo
<1>3. Len(task_queue) = 0 /\ Handed = sends /\ Handed' = sends + 1
  BY <1>1 DEF Handed, SendTypes
<1>4. PICK k \in Nat : k = sends /\ Done(k + 1)' /\ wire' \in Seq(Nat)
  <2>1. PICK k \in Nat : k = sends
    BY DEF SendTypes
  <2>2. Done(k)
    BY <1>2, <1>3, <2>1 DEF Line
  <2>3. Done(k + 1)' /\ wire' \in Seq(Nat)
    BY <2>1, <2>2, GoesOut DEF Send!Send
  <2> QED
    BY <2>1, <2>3
<1>5. SendTypes'
  BY <1>4 DEF SendTypes
<1>6. Turns'
  BY <1>1 DEF Turns, LetGo
<1>7. Done(Handed)'
  BY <1>3, <1>4
<1>8. Line'
  BY <1>1, <1>2, <1>3, <1>7 DEF Line, SendTypes
<1> QED
  BY <1>5, <1>6, <1>8

LEMMA CallNodeStep ==
  ASSUME SendInv, NEW t \in Pusher, Send!CallNode(t)
  PROVE  SendInv'
<1>1. CASE sender
  BY <1>1, SendConstants, AtOnceStep DEF Send!CallNode, SendInv, SendTypes
<1>2. CASE ~ sender
  BY <1>2, SendConstants, EnqueueStep DEF Send!CallNode
<1> QED
  BY <1>1, <1>2

LEMMA SendNodeStep ==
  ASSUME SendInv, Send!SendNode
  PROVE  SendInv'
<1>1. CASE sender
  BY <1>1, AtOnceStep DEF Send!SendNode, SendInv, SendTypes
<1>2. CASE ~ sender
  BY <1>2, SendConstants, EnqueueStep DEF Send!SendNode
<1> QED
  BY <1>1, <1>2

\* request_sender goes on without touching the queue or what has gone out.
LEMMA AskerStepKept ==
  ASSUME SendInv, UNCHANGED <<task_queue, send_op, wire, failed, sends>>,
         \A t \in Pusher : send_pc'[t] = send_pc[t],
         \A t \in Pusher : ~ LetGo(t) /\ ~ LetGo(t)'
  PROVE  Line'
<1>1. Done(Handed)' /\ Handed' = Handed
  BY DEF SendInv, Line, Done, Handed, Send!InOrder, Send!ToSet
<1>2. \A i \in 1 .. Len(task_queue) : task_queue[i].who # None => task_queue[i].who \in Pusher
  <2>1. \A i \in 1 .. Len(task_queue) : task_queue[i] \in Waiting
    BY ElementOfSeq DEF SendInv, SendTypes
  <2> QED
    BY <2>1 DEF Waiting
<1> QED
  BY <1>1, <1>2 DEF SendInv, Line

LEMMA AskStep ==
  ASSUME SendInv, Send!Ask \/ (\E c \in BOOLEAN : Send!Sender(c)) \/ Send!RunDone \/ Send!Confirmed
  PROVE  SendInv'
<1> USE DEF SendInv
<1>1. Asker \notin Pusher
  BY SendConstants
<1>2. \/ /\ send_pc[Asker] = "ask" /\ send_pc' = [send_pc EXCEPT ![Asker] = "asking"]
         /\ send_wake' = <<>> /\ UNCHANGED <<sender, queued, q_sender>>
      \/ /\ send_pc[Asker] = "asking" /\ send_pc' = [send_pc EXCEPT ![Asker] = "run"]
         /\ send_wake' = <<Asker>> /\ UNCHANGED <<sender, queued>> /\ q_sender' \in BOOLEAN
      \/ /\ send_pc[Asker] = "run" /\ send_pc' = [send_pc EXCEPT ![Asker] = "idle"]
         /\ send_wake' = <<>> /\ sender' = q_sender /\ queued' = FALSE /\ task_queue = <<>>
         /\ UNCHANGED q_sender
      \/ /\ send_pc[Asker] = "confirm" /\ send_pc' = [send_pc EXCEPT ![Asker] = "run"]
         /\ send_wake = <<Asker>> /\ UNCHANGED <<sender, queued, q_sender, send_wake>>
  BY <1>1 DEF Send!Ask, Send!Sender, Send!RunDone, Send!Confirmed, Send!Runs, Send!queue, Turns,
              LetGo
<1>3. UNCHANGED <<task_queue, send_op, wire, failed, sends>>
  BY DEF Send!Ask, Send!Sender, Send!RunDone, Send!Confirmed, Send!queue
<1>4. SendTypes'
  BY <1>2, <1>3 DEF SendTypes
<1>5. Turns'
  BY <1>1, <1>2, <1>3 DEF Turns, SendTypes, LetGo
<1>6. \A t \in Pusher : send_pc'[t] = send_pc[t]
  BY <1>1, <1>2 DEF SendTypes
<1>7. \A t \in Pusher : ~ LetGo(t) /\ ~ LetGo(t)'
  BY <1>1, <1>2 DEF LetGo, SendTypes
<1> QED
  BY <1>3, <1>4, <1>5, <1>6, <1>7, AskerStepKept

\* request_sender takes the first of the queue: a send goes out or fails here.
LEMMA RunTaskStep ==
  ASSUME SendInv, Send!RunTask
  PROVE  SendInv'
<1> USE DEF SendInv
<1> DEFINE task == Head(task_queue)
           q == Len(task_queue)
<1>1. Asker \notin Pusher /\ None \notin Pusher
  BY SendConstants
<1>2. /\ send_pc[Asker] = "run" /\ send_wake = <<Asker>> /\ queued /\ ~ sender
      /\ task_queue # <<>> /\ task_queue' = Tail(task_queue)
      /\ UNCHANGED <<sender, queued, q_sender, send_op, sends>>
  BY DEF Send!RunTask, Send!Runs, Turns
<1>3. /\ q \in Nat /\ q > 0 /\ task_queue' \in Seq(Waiting) /\ Len(task_queue') = q - 1
      /\ \A i \in 1 .. q : task_queue[i] \in Waiting
      /\ \A i \in 1 .. q - 1 : task_queue'[i] = task_queue[i + 1]
      /\ task = task_queue[1]
  <2>1. q \in Nat /\ q > 0 /\ \A i \in 1 .. q : task_queue[i] \in Waiting
    BY <1>2, ElementOfSeq DEF SendTypes
  <2> QED
    BY <1>2, <2>1 DEF SendTypes
<1> HIDE DEF task
<1>4. Handed' = Handed + 1 /\ Handed \in Nat /\ sends \in Nat
  <2>1. Handed \in Nat /\ sends \in Nat
    BY DEF Line, SendTypes
  <2>2. Handed' = sends - (q - 1)
    BY <1>2, <1>3 DEF Handed
  <2> QED
    BY <1>3, <2>1, <2>2 DEF Handed
<1>5. /\ task.n = Handed + 1
      /\ task.who # None => /\ task.who \in Pusher /\ send_pc[task.who] = "wait"
                            /\ send_op[task.who] = Handed + 1
  BY <1>3 DEF Line, Waiting
<1>6. \A t \in Pusher : ~ LetGo(t)
  BY <1>2 DEF LetGo
<1>7. PICK k \in Nat : k = Handed /\ Done(k)
  BY <1>4, <1>6 DEF Line
<1>8. ASSUME \A t \in Pusher : send_pc'[t] = send_pc[t],
             NEW i \in 1 .. Len(task_queue')
      PROVE  /\ task_queue'[i].n = Handed' + i
             /\ task_queue'[i].who # None => /\ send_pc'[task_queue'[i].who] = "wait"
                                             /\ send_op'[task_queue'[i].who] = Handed' + i
  <2>1. i + 1 \in 1 .. q /\ task_queue'[i] = task_queue[i + 1] /\ Handed' + i = Handed + (i + 1)
    BY <1>3, <1>4
  <2>2. task_queue[i + 1].who # None => task_queue[i + 1].who \in Pusher
    BY <1>3, <2>1 DEF Waiting
  <2> QED
    BY <1>2, <1>8, <2>1, <2>2 DEF Line
<1>9. CASE task.who = None
  <2>1. UNCHANGED <<send_wake, send_pc>>
    BY <1>9 DEF Send!RunTask, task
  <2>2. \/ wire' = Append(wire, k + 1) /\ failed' = failed
        \/ wire' = wire /\ failed' = failed \cup {k + 1}
    BY <1>5, <1>7, <1>9 DEF Send!RunTask, Send!Send, task
  <2>3. Done(k + 1)' /\ wire' \in Seq(Nat)
    BY <1>7, <2>2, GoesOut, Fails DEF SendTypes
  <2>4. SendTypes'
    BY <1>2, <1>3, <2>1, <2>3 DEF SendTypes
  <2>5. Turns'
    BY <1>2, <2>1 DEF Turns, LetGo
  <2>6. \A t \in Pusher : ~ LetGo(t)'
    BY <1>6, <2>1 DEF LetGo
  <2>7. Done(Handed)'
    BY <1>4, <1>7, <2>3
  <2>8. Line'
    BY <1>4, <1>8, <2>1, <2>6, <2>7 DEF Line
  <2> QED
    BY <2>4, <2>5, <2>8
<1>10. CASE task.who # None
  <2>0. PICK w \in Pusher : task.who = w /\ send_pc[w] = "wait" /\ send_op[w] = k + 1
    BY <1>5, <1>7, <1>10
  <2>1. /\ send_wake' = Append(Tail(send_wake), w)
        /\ send_pc' = [send_pc EXCEPT ![Asker] = "confirm"]
        /\ UNCHANGED <<wire, failed>>
    BY <1>10, <2>0 DEF Send!RunTask, task
  <2>2. send_wake' = <<w>>
    BY <1>2, <2>1, AppendToTail
  <2>3. send_pc'[Asker] = "confirm" /\ \A t \in Pusher : send_pc'[t] = send_pc[t]
    BY <1>1, <2>1 DEF SendTypes
  <2>4. SendTypes'
    BY <1>2, <1>3, <2>1 DEF SendTypes
  <2>5. LetGo(w)'
    BY <2>0, <2>2, <2>3 DEF LetGo
  <2>6. Turns'
    BY <1>2, <2>3, <2>5 DEF Turns
  <2>7. \A t \in Pusher : LetGo(t)' => t = w
    BY <2>2 DEF LetGo
  <2>8. Done(k)' /\ Handed' = k + 1
    BY <1>4, <1>7, <2>1 DEF Done, Send!InOrder, Send!ToSet
  <2>9. Done(Handed - 1)'
    <3>1. Handed' - 1 = k
      BY <2>8
    <3> QED
      BY <2>8, <3>1
  <2>10. \A i \in 1 .. Len(task_queue') :
           /\ task_queue'[i].n = Handed' + i
           /\ task_queue'[i].who # None => /\ send_pc'[task_queue'[i].who] = "wait"
                                           /\ send_op'[task_queue'[i].who] = Handed' + i
    BY <1>8, <2>3
  <2>11. \A t \in Pusher : LetGo(t)' => send_op'[t] = Handed'
    BY <1>2, <2>0, <2>7, <2>8
  <2>12. Handed' \in Nat /\ Handed' # 0
    BY <2>8
  <2>13. Line'
    BY <2>5, <2>9, <2>10, <2>11, <2>12 DEF Line
  <2> QED
    BY <2>4, <2>6, <2>13
<1> QED
  BY <1>9, <1>10

\* A coroutine that was let go makes its call, or its call fails.
LEMMA GoOnStep ==
  ASSUME SendInv, NEW t \in Pusher, Send!GoOn(t)
  PROVE  SendInv'
<1> USE DEF SendInv
<1>1. Asker \notin Pusher /\ None \notin Pusher
  BY SendConstants
<1>2. /\ send_wake # <<>> /\ Head(send_wake) = t /\ send_pc[t] = "wait"
      /\ send_wake' = Append(Tail(send_wake), Asker)
      /\ UNCHANGED <<sender, task_queue, queued, q_sender, send_op, sends>>
  BY DEF Send!GoOn, Send!Runs, Send!queue
<1>3. send_pc[Asker] = "confirm" /\ LetGo(t) /\ send_wake = <<t>> /\ queued /\ ~ sender
  <2>1. \A u : send_wake = <<u>> => u = t
    BY <1>2
  <2> QED
    BY <1>1, <1>2, <2>1 DEF Turns, LetGo
<1>4. send_wake' = <<Asker>>
  BY <1>2, <1>3, AppendToTail
<1>5. Handed \in Nat /\ Handed # 0 /\ send_op[t] = Handed /\ Handed' = Handed
  BY <1>2, <1>3 DEF Line, Handed
<1>6. PICK k \in Nat : Handed = k + 1 /\ Done(k)
  <2>1. Handed - 1 \in Nat /\ Handed = (Handed - 1) + 1 /\ Done(Handed - 1)
    BY <1>3, <1>5 DEF Line
  <2> QED
    BY <2>1
<1>7. /\ send_pc' \in [Pusher \cup {Asker} ->
                         {"idle", "wait", "call", "ask", "asking", "run", "confirm"}]
      /\ send_pc'[Asker] = "confirm"
      /\ \A u \in Pusher : u # t => send_pc'[u] = send_pc[u]
  BY <1>1, <1>3 DEF Send!GoOn, SendTypes
<1>8. Done(k + 1)' /\ wire' \in Seq(Nat)
  <2>1. \/ wire' = Append(wire, k + 1) /\ failed' = failed
        \/ wire' = wire /\ failed' = failed \cup {k + 1}
    BY <1>5, <1>6 DEF Send!GoOn, Send!Send
  <2> QED
    BY <1>6, <2>1, GoesOut, Fails DEF SendTypes
<1>9. SendTypes'
  BY <1>2, <1>7, <1>8 DEF SendTypes
<1>10. Turns'
  BY <1>2, <1>3, <1>4, <1>7 DEF Turns
<1>11. \A u \in Pusher : ~ LetGo(u)'
  BY <1>1, <1>4 DEF LetGo
<1>12. Done(Handed)'
  BY <1>5, <1>6, <1>8
<1>13. \A i \in 1 .. Len(task_queue) :
         task_queue[i].who # None => task_queue[i].who \in Pusher /\ task_queue[i].who # t
  <2>1. \A i \in 1 .. Len(task_queue) : task_queue[i] \in Waiting
    BY ElementOfSeq DEF SendTypes
  <2>2. \A i \in 1 .. Len(task_queue) : Handed + i # Handed
    BY <1>5 DEF SendTypes
  <2> QED
    BY <1>5, <2>1, <2>2 DEF Waiting, Line
<1>14. Line'
  BY <1>2, <1>5, <1>7, <1>11, <1>12, <1>13 DEF Line
<1> QED
  BY <1>9, <1>10, <1>14

\* A call returns.
LEMMA ReturnStep ==
  ASSUME SendInv, NEW t \in Pusher, Send!Return(t)
  PROVE  SendInv'
<1> USE DEF SendInv
<1>1. Asker \notin Pusher /\ None \notin Pusher
  BY SendConstants
<1>2. /\ send_wake = <<>> /\ send_pc[t] = "call" /\ send_pc' = [send_pc EXCEPT ![t] = "idle"]
      /\ UNCHANGED <<sender, task_queue, queued, q_sender, send_op, wire, send_wake, failed, sends>>
  BY DEF Send!Return, Send!Quiet, Send!queue
<1>3. SendTypes'
  BY <1>2 DEF SendTypes
<1>4. send_pc'[Asker] = send_pc[Asker] /\ \A u \in Pusher : u # t => send_pc'[u] = send_pc[u]
  BY <1>1, <1>2 DEF SendTypes
<1>5. \A u \in Pusher : ~ LetGo(u) /\ ~ LetGo(u)'
  BY <1>2 DEF LetGo
<1>6. Turns'
  BY <1>2, <1>4, <1>5 DEF Turns, LetGo
<1>7. \A i \in 1 .. Len(task_queue) :
         task_queue[i].who # None => task_queue[i].who \in Pusher /\ task_queue[i].who # t
  <2>1. \A i \in 1 .. Len(task_queue) : task_queue[i] \in Waiting
    BY ElementOfSeq DEF SendTypes
  <2> QED
    BY <1>2, <2>1 DEF Waiting, Line
<1>8. Done(Handed)' /\ Handed' = Handed
  BY <1>2, <1>5 DEF Line, Done, Handed, Send!InOrder, Send!ToSet
<1>9. Line'
  BY <1>2, <1>4, <1>5, <1>7, <1>8 DEF Line
<1> QED
  BY <1>3, <1>6, <1>9

LEMMA SendStep ==
  SendInv /\ [LuaNext]_lua => SendInv'
<1> SUFFICES ASSUME SendInv, [LuaNext]_lua PROVE SendInv'
  OBVIOUS
<1>1. CASE UNCHANGED send_vars
  BY <1>1 DEF send_vars, SendInv, SendTypes, Turns, Line, LetGo, Done, Handed, Send!InOrder,
              Send!ToSet
<1>2. CASE Send!Next
  BY <1>2, CallNodeStep, GoOnStep, ReturnStep, SendNodeStep, AskStep, RunTaskStep
     DEF Send!Next, Send!AskerStep
<1>3. UNCHANGED send_vars \/ Send!Next
  BY DEF LuaNext, In, lua
<1> QED
  BY <1>1, <1>2, <1>3

LEMMA SendInit == LuaInit => SendInv
<1> SUFFICES ASSUME Send!Init PROVE SendInv
  BY DEF LuaInit
<1> USE DEF Send!Init
<1>1. SendTypes
  <2>1. <<>> \in Seq(Waiting) /\ <<>> \in Seq(Nat)
    OBVIOUS
  <2>2. send_pc \in [Pusher \cup {Asker} ->
                       {"idle", "wait", "call", "ask", "asking", "run", "confirm"}]
    OBVIOUS
  <2> QED
    BY <2>1, <2>2 DEF SendTypes
<1>2. Turns /\ \A t \in Pusher : ~ LetGo(t)
  BY DEF Turns, LetGo
<1>3. /\ Len(wire) = 0 /\ Len(task_queue) = 0 /\ DOMAIN wire = {} /\ 1 .. 0 = {}
      /\ sends = 0 /\ failed = {}
  OBVIOUS
<1>4. Send!ToSet(wire) = {} /\ Send!InOrder
  BY <1>3 DEF Send!ToSet, Send!InOrder
<1> QED
  <2> USE DEF Handed
  <2>1. Handed = 0 /\ Done(Handed)
    BY ONLY <1>3, <1>4 DEF Done
  <2> QED
    BY ONLY <1>1, <1>2, <1>3, <2>1 DEF SendInv, Line

\* Calls and sends to a node go out in the order in which they were made, each
\* once or to an error, for any number of coroutines that make them.
THEOREM SendsKeepOrder == LuaSpec => []SendsInOrder
<1>1. SendInv => SendsInOrder
  <2> SUFFICES ASSUME SendInv PROVE SendsInOrder
    OBVIOUS
  <2>1. Send!InOrder /\ Send!ToSet(wire) \cap failed = {}
    BY DEF SendInv, Line, Done
  <2>2. ASSUME Send!Quiet, ~ queued PROVE Send!ToSet(wire) \cup failed = 1 .. sends
    <3>1. task_queue = <<>> /\ \A t \in Pusher : ~ LetGo(t)
      BY <2>2 DEF SendInv, Turns, LetGo
    <3>2. Handed = sends
      BY <3>1 DEF Handed, SendInv, SendTypes
    <3> QED
      BY <3>1, <3>2 DEF SendInv, Line, Done
  <2> QED
    BY <2>1, <2>2 DEF SendsInOrder, Send!NoneLost
<1> QED
  BY <1>1, SendInit, SendStep, PTL DEF LuaSpec
-----------------------------------------------------------------------------
(***************************************************************************)
(* Services that are to be there once (service_mgr.lua, launcher.lua).     *)
(***************************************************************************)
Inst == 1 .. MaxInst
Caller == Client \cup Inst
LaunchNeeds == [n \in ServiceName |-> IF n \in Dependent THEN ServiceName \ Dependent ELSE {}]
Entry == [co : Seq(Caller), launch : Caller \cup {None}]
Message == [do : {"LAUNCH", "LAUNCHOK", "ERROR", "REMOVE", "KILLED"}, who : Caller]

LaunchTypes ==
    /\ service \in [ServiceName -> Inst \cup {None, 0, -1}]
    /\ waitfor \in [ServiceName -> Entry]
    /\ launcher \in Seq(Message)
    /\ instance \in [Inst -> Caller \cup {None}]
    /\ launch_state \in [Inst -> {"free", "init", "running", "dead"}]
    /\ is \in [Inst -> ServiceName \cup {None}]
    /\ needs \in [Inst -> SUBSET ServiceName]
    /\ launch_pc \in [Caller -> {"idle", "launch", "wait"}]
    /\ launch_op \in [Caller -> ServiceName \cup {None}]
    /\ answer \in [Caller -> Inst \cup {None, -1}]

\* The tables of service_mgr agree with what its callers do: for a name that is a
\* table there, one launches or some wait, and each waits or launches once.
Asked ==
    /\ \A n \in ServiceName :
          /\ service[n] = 0 <=> waitfor[n].launch # None \/ waitfor[n].co # <<>>
          /\ waitfor[n].launch # None => /\ launch_pc[waitfor[n].launch] = "launch"
                                         /\ launch_op[waitfor[n].launch] = n
          /\ \A k \in 1 .. Len(waitfor[n].co) : /\ launch_pc[waitfor[n].co[k]] = "wait"
                                                /\ launch_op[waitfor[n].co[k]] = n
    /\ \A c \in Caller : launch_pc[c] = "launch" =>
          launch_op[c] \in ServiceName /\ waitfor[launch_op[c]].launch = c

\* Whoever launches has a request in the queue of the launcher, or waits there
\* for one instance to come up.
IsLaunch(k) == launcher[k].do = "LAUNCH"
Launched ==
    /\ \A k \in 1 .. Len(launcher) : IsLaunch(k) =>
          /\ launch_pc[launcher[k].who] = "launch"
          /\ \A i \in Inst : instance[i] # launcher[k].who
          /\ \A l \in 1 .. Len(launcher) : l # k /\ IsLaunch(l) => launcher[l].who # launcher[k].who
    /\ \A k \in 1 .. Len(launcher) : ~ IsLaunch(k) =>
          /\ launcher[k].who \in Inst
          /\ launcher[k].do # "LAUNCHOK" => launch_state[launcher[k].who] = "dead"
    /\ \A i \in Inst :
          /\ launch_state[i] # "free" => is[i] \in ServiceName
          /\ instance[i] # None => /\ launch_state[i] # "free"
                                   /\ launch_pc[instance[i]] = "launch"
                                   /\ launch_op[instance[i]] = is[i]
    /\ \A i, j \in Inst : instance[i] # None /\ instance[i] = instance[j] => i = j

\* A service that is up or coming up is known, or waited for.
Up(i) == launch_state[i] \in {"init", "running"}
Registered == \A i \in Inst : Up(i) => instance[i] # None \/ service[is[i]] = i

\* The answers that were given still hold.
Answers == \A c \in Caller : launch_pc[c] = "idle" /\ answer[c] \in Inst =>
              launch_op[c] \in ServiceName /\ service[launch_op[c]] = answer[c]

LaunchInv == LaunchTypes /\ Asked /\ Launched /\ Registered /\ Answers

LEMMA LaunchConstants ==
  /\ Launch!Caller = Caller /\ Launch!Table = 0 /\ Launch!Failed = -1
  /\ Inst \subseteq Nat \ {0} /\ None \notin Caller /\ None # 0 /\ None # -1
  /\ \A n \in ServiceName : Launch!IsHandle(service[n]) <=> service[n] \in Inst
  /\ 0 \notin Inst /\ -1 \notin Inst
<1>1. Inst \subseteq Nat \ {0} /\ None \notin Client \cup Inst \cup {0, -1}
  BY LaunchAssumption DEF Launch!UniqueServiceAssumption, Inst
<1>2. 0 \notin Inst /\ -1 \notin Inst
  BY <1>1
<1> QED
  BY <1>1, <1>2 DEF Launch!Caller, Launch!Table, Launch!Failed, Launch!IsHandle, Inst, Caller


\* A caller that is idle asks for a name: it is answered, launches or waits.
LEMMA WaitforTypes ==
  ASSUME LaunchTypes, NEW c \in Caller, NEW do, NEW n \in ServiceName, Launch!Waitfor(c, do, n)
  PROVE  /\ service' \in [ServiceName -> Inst \cup {None, 0, -1}]
         /\ waitfor' \in [ServiceName -> Entry]
         /\ launcher' \in Seq(Message)
         /\ launch_pc' \in [Caller -> {"idle", "launch", "wait"}]
         /\ launch_op' \in [Caller -> ServiceName \cup {None}]
         /\ answer' \in [Caller -> Inst \cup {None, -1}]
<1> USE LaunchConstants
<1>1. launch_op' \in [Caller -> ServiceName \cup {None}]
  BY DEF Launch!Waitfor, LaunchTypes
<1>2. CASE Launch!IsHandle(service[n]) \/ service[n] = -1
  <2>1. UNCHANGED <<service, waitfor, launcher, launch_pc>>
    BY <1>2 DEF Launch!Waitfor, Launch!mgr
  <2>2. answer' = [answer EXCEPT ![c] = service[n]]
    BY <1>2 DEF Launch!Waitfor
  <2>3. answer' \in [Caller -> Inst \cup {None, -1}]
    BY <1>2, <2>2 DEF LaunchTypes
  <2> QED
    BY <1>1, <2>1, <2>3 DEF LaunchTypes
<1>3. CASE ~ (Launch!IsHandle(service[n]) \/ service[n] = -1)
  <2>1. service' = [service EXCEPT ![n] = 0] /\ UNCHANGED answer
    BY <1>3 DEF Launch!Waitfor
  <2>2. waitfor[n] \in Entry
    BY DEF LaunchTypes
  <2>3. CASE do = "LAUNCH" /\ waitfor[n].launch = None
    <3>1. /\ waitfor' = [waitfor EXCEPT ![n].launch = c]
          /\ launcher' = Append(launcher, [do |-> "LAUNCH", who |-> c])
          /\ launch_pc' = [launch_pc EXCEPT ![c] = "launch"]
      BY <1>3, <2>3 DEF Launch!Waitfor
    <3>2. waitfor' \in [ServiceName -> Entry]
      BY <2>2, <3>1 DEF Entry, LaunchTypes
    <3>3. [do |-> "LAUNCH", who |-> c] \in Message
      BY DEF Message
    <3>4. launcher' \in Seq(Message)
      BY <3>1, <3>3 DEF LaunchTypes
    <3> QED
      BY <1>1, <2>1, <3>1, <3>2, <3>4 DEF LaunchTypes
  <2>4. CASE ~ (do = "LAUNCH" /\ waitfor[n].launch = None)
    <3>1. /\ waitfor' = [waitfor EXCEPT ![n].co = Append(@, c)]
          /\ UNCHANGED launcher
          /\ launch_pc' = [launch_pc EXCEPT ![c] = "wait"]
      BY <1>3, <2>4 DEF Launch!Waitfor
    <3>2. Append(waitfor[n].co, c) \in Seq(Caller)
      BY <2>2 DEF Entry
    <3>3. waitfor' \in [ServiceName -> Entry]
      BY <2>2, <3>1, <3>2 DEF Entry, LaunchTypes
    <3> QED
      BY <1>1, <2>1, <3>1, <3>3 DEF LaunchTypes
  <2> QED
    BY <2>3, <2>4
<1> QED
  BY <1>2, <1>3

LEMMA WaitforStep ==
  ASSUME LaunchInv, NEW c \in Caller, NEW do, NEW n \in ServiceName, Launch!Waitfor(c, do, n),
         launch_pc[c] = "idle", UNCHANGED <<instance, launch_state, is>>,
         needs' \in [Inst -> SUBSET ServiceName]
  PROVE  LaunchInv'
<1> USE LaunchConstants DEF LaunchInv
<1>1. LaunchTypes'
  BY WaitforTypes DEF LaunchTypes
<1>2. launch_op'[c] = n /\ \A d \in Caller : d # c => launch_op'[d] = launch_op[d]
  BY DEF Launch!Waitfor, LaunchTypes
<1>3. CASE Launch!IsHandle(service[n]) \/ service[n] = -1
  <2>1. /\ UNCHANGED <<service, waitfor, launcher, launch_pc>>
        /\ answer' = [answer EXCEPT ![c] = service[n]]
    BY <1>3 DEF Launch!Waitfor, Launch!mgr
  <2>2. Asked'
    <3>1. \A m \in ServiceName : waitfor[m].launch \in Caller \cup {None}
      BY DEF LaunchTypes, Entry
    <3>2. \A m \in ServiceName : \A k \in 1 .. Len(waitfor[m].co) : waitfor[m].co[k] \in Caller
      BY ElementOfSeq DEF LaunchTypes, Entry
    <3> QED
      BY <1>2, <2>1, <3>1, <3>2 DEF Asked
  <2>3. Launched'
    <3>1. \A i \in Inst : instance[i] # None => instance[i] \in Caller
      BY DEF LaunchTypes
    <3> QED
      BY <1>2, <2>1, <3>1 DEF Launched, IsLaunch
  <2>4. Registered'
    BY <2>1 DEF Registered, Up
  <2>5. Answers'
    BY <1>2, <2>1 DEF Answers, LaunchTypes
  <2> QED
    BY <1>1, <2>2, <2>3, <2>4, <2>5
<1>4. CASE ~ (Launch!IsHandle(service[n]) \/ service[n] = -1)
  <2>1. service' = [service EXCEPT ![n] = 0] /\ UNCHANGED answer
    BY <1>4 DEF Launch!Waitfor
  <2>2. service'[n] = 0 /\ \A m \in ServiceName : m # n => service'[m] = service[m]
    BY <2>1 DEF LaunchTypes
  <2>3. launch_pc'[c] # "idle" /\ \A d \in Caller : d # c => launch_pc'[d] = launch_pc[d]
    BY <1>4 DEF Launch!Waitfor, LaunchTypes
  <2>4. service[n] \notin Inst
    BY <1>4
  <2>5. Registered'
    <3> SUFFICES ASSUME NEW i \in Inst, Up(i), instance[i] = None
                 PROVE  service'[is[i]] = i
      BY DEF Registered, Up
    <3>1. service[is[i]] = i
      BY DEF Registered
    <3>2. is[i] \in ServiceName
      BY DEF Launched, Up
    <3> QED
      BY <2>2, <2>4, <3>1, <3>2
  <2>6. Answers'
    <3> SUFFICES ASSUME NEW d \in Caller, d # c, launch_pc[d] = "idle", answer[d] \in Inst
                 PROVE  launch_op[d] \in ServiceName /\ service'[launch_op[d]] = answer[d]
      BY <1>2, <2>1, <2>3 DEF Answers
    <3>1. launch_op[d] \in ServiceName /\ service[launch_op[d]] = answer[d]
      BY DEF Answers
    <3> QED
      BY <2>2, <2>4, <3>1
  <2>7. waitfor[n] \in Entry /\ waitfor[n] = [co |-> waitfor[n].co, launch |-> waitfor[n].launch]
    BY DEF LaunchTypes, Entry
  <2>8. \A i \in Inst : instance[i] # None => instance[i] \in Caller /\ instance[i] # c
    <3>1. \A i \in Inst : instance[i] # None => launch_pc[instance[i]] = "launch"
      BY DEF Launched
    <3>2. \A i \in Inst : instance[i] \in Caller \cup {None}
      BY DEF LaunchTypes
    <3> QED
      BY <3>1, <3>2
  <2>9. /\ \A m \in ServiceName : waitfor[m].launch # None =>
             waitfor[m].launch \in Caller /\ waitfor[m].launch # c
        /\ \A m \in ServiceName : \A k \in 1 .. Len(waitfor[m].co) :
             waitfor[m].co[k] \in Caller /\ waitfor[m].co[k] # c
    <3>1. \A m \in ServiceName : \A k \in 1 .. Len(waitfor[m].co) : waitfor[m].co[k] \in Caller
      BY ElementOfSeq DEF LaunchTypes, Entry
    <3>2. \A m \in ServiceName : waitfor[m].launch \in Caller \cup {None}
      BY DEF LaunchTypes, Entry
    <3> QED
      BY <3>1, <3>2 DEF Asked
  <2>10. \A k \in 1 .. Len(launcher) : launcher[k] \in Message
    BY ElementOfSeq DEF LaunchTypes
  <2>11. CASE do = "LAUNCH" /\ waitfor[n].launch = None
    <3>1. /\ waitfor' = [waitfor EXCEPT ![n].launch = c]
          /\ launcher' = Append(launcher, [do |-> "LAUNCH", who |-> c])
          /\ launch_pc' = [launch_pc EXCEPT ![c] = "launch"]
      BY <1>4, <2>11 DEF Launch!Waitfor
    <3>2. /\ waitfor'[n].launch = c /\ waitfor'[n].co = waitfor[n].co
          /\ \A m \in ServiceName : m # n => waitfor'[m] = waitfor[m]
          /\ launch_pc'[c] = "launch"
      BY <2>7, <3>1 DEF LaunchTypes
    <3>3. Asked'
      <4>1. ASSUME NEW m \in ServiceName
            PROVE  /\ service'[m] = 0 <=> waitfor'[m].launch # None \/ waitfor'[m].co # <<>>
                   /\ waitfor'[m].launch # None => /\ launch_pc'[waitfor'[m].launch] = "launch"
                                                   /\ launch_op'[waitfor'[m].launch] = m
                   /\ \A k \in 1 .. Len(waitfor'[m].co) :
                        /\ launch_pc'[waitfor'[m].co[k]] = "wait"
                        /\ launch_op'[waitfor'[m].co[k]] = m
        <5>1. CASE m = n
          BY <1>2, <2>2, <2>3, <2>9, <3>2, <5>1 DEF Asked
        <5>2. CASE m # n
          BY <1>2, <2>2, <2>3, <2>9, <3>2, <5>2 DEF Asked
        <5> QED
          BY <5>1, <5>2
      <4>2. ASSUME NEW d \in Caller, launch_pc'[d] = "launch"
            PROVE  launch_op'[d] \in ServiceName /\ waitfor'[launch_op'[d]].launch = d
        BY <1>2, <2>3, <2>11, <3>2, <4>2 DEF Asked
      <4> QED
        BY <4>1, <4>2 DEF Asked
    <3>4. /\ Len(launcher) \in Nat /\ Len(launcher') = Len(launcher) + 1
          /\ \A k \in 1 .. Len(launcher) : launcher'[k] = launcher[k]
          /\ launcher'[Len(launcher) + 1] = [do |-> "LAUNCH", who |-> c]
      BY <3>1 DEF LaunchTypes
    <3>5. Launched'
      <4> DEFINE q == Len(launcher)
      <4>0. /\ q \in Nat /\ Len(launcher') = q + 1
            /\ \A k \in 1 .. q : launcher'[k] = launcher[k]
            /\ launcher'[q + 1] = [do |-> "LAUNCH", who |-> c]
        BY <3>4
      <4>1. \A k \in 1 .. q : IsLaunch(k) => launcher[k].who # c /\ launcher[k].who \in Caller
        BY <2>10 DEF Launched, Message
      <4>2. \A k \in 1 .. q : launcher'[k].do = "LAUNCH" <=> IsLaunch(k)
        BY <4>0 DEF IsLaunch
      <4>3. launcher'[q + 1].do = "LAUNCH" /\ launcher'[q + 1].who = c
        BY <4>0
      <4>4. \A k \in 1 .. Len(launcher') : k \in 1 .. q \/ k = q + 1
        BY <4>0
      <4>5. ASSUME NEW k \in 1 .. Len(launcher'), launcher'[k].do = "LAUNCH"
            PROVE  /\ launch_pc'[launcher'[k].who] = "launch"
                   /\ \A i \in Inst : instance[i] # launcher'[k].who
                   /\ \A l \in 1 .. Len(launcher') :
                        l # k /\ launcher'[l].do = "LAUNCH" => launcher'[l].who # launcher'[k].who
        <5>1. CASE k \in 1 .. q
          <6>1. IsLaunch(k) /\ launcher'[k] = launcher[k] /\ launcher[k].who # c
            BY <4>0, <4>1, <4>2, <4>5, <5>1
          <6>2. launch_pc'[launcher[k].who] = "launch"
            BY <2>3, <4>1, <5>1, <6>1 DEF Launched
          <6>3. \A i \in Inst : instance[i] # launcher[k].who
            BY <5>1, <6>1 DEF Launched
          <6>4. \A l \in 1 .. q : l # k /\ IsLaunch(l) => launcher[l].who # launcher[k].who
            BY <5>1, <6>1 DEF Launched
          <6> QED
            BY <4>0, <4>2, <4>3, <4>4, <6>1, <6>2, <6>3, <6>4
        <5>2. CASE k = q + 1
          BY <2>8, <3>2, <4>0, <4>1, <4>2, <4>3, <4>4, <5>2
        <5> QED
          BY <4>4, <5>1, <5>2
      <4>6. ASSUME NEW k \in 1 .. Len(launcher'), launcher'[k].do # "LAUNCH"
            PROVE  /\ launcher'[k].who \in Inst
                   /\ launcher'[k].do # "LAUNCHOK" => launch_state[launcher'[k].who] = "dead"
        <5>1. k \in 1 .. q /\ ~ IsLaunch(k) /\ launcher'[k] = launcher[k]
          BY <4>0, <4>2, <4>3, <4>4, <4>6
        <5> QED
          BY <5>1 DEF Launched
      <4>7. ASSUME NEW i \in Inst
            PROVE  instance[i] # None => /\ launch_pc'[instance[i]] = "launch"
                                         /\ launch_op'[instance[i]] = is[i]
        BY <1>2, <2>3, <2>8 DEF Launched
      <4> HIDE DEF q
      <4> QED
        BY <4>5, <4>6, <4>7 DEF Launched, IsLaunch
    <3> QED
      BY <1>1, <2>5, <2>6, <3>3, <3>5
  <2>12. CASE ~ (do = "LAUNCH" /\ waitfor[n].launch = None)
    <3>1. /\ waitfor' = [waitfor EXCEPT ![n].co = Append(@, c)]
          /\ UNCHANGED launcher
          /\ launch_pc' = [launch_pc EXCEPT ![c] = "wait"]
      BY <1>4, <2>12 DEF Launch!Waitfor
    <3>2. /\ waitfor'[n].launch = waitfor[n].launch /\ waitfor'[n].co = Append(waitfor[n].co, c)
          /\ \A m \in ServiceName : m # n => waitfor'[m] = waitfor[m]
          /\ launch_pc'[c] = "wait"
      BY <2>7, <3>1 DEF LaunchTypes
    <3>3. LET w == waitfor[n].co
          IN /\ Len(w) \in Nat /\ Len(waitfor'[n].co) = Len(w) + 1
             /\ \A k \in 1 .. Len(w) : waitfor'[n].co[k] = w[k]
             /\ waitfor'[n].co[Len(w) + 1] = c /\ waitfor'[n].co # <<>>
      <4>1. waitfor[n].co \in Seq(Caller)
        BY <2>7 DEF Entry
      <4>2. Append(waitfor[n].co, c) # <<>>
        BY <4>1
      <4> QED
        BY <3>2, <4>1, <4>2
    <3>4. Asked'
      <4>1. ASSUME NEW m \in ServiceName
            PROVE  /\ service'[m] = 0 <=> waitfor'[m].launch # None \/ waitfor'[m].co # <<>>
                   /\ waitfor'[m].launch # None => /\ launch_pc'[waitfor'[m].launch] = "launch"
                                                   /\ launch_op'[waitfor'[m].launch] = m
                   /\ \A k \in 1 .. Len(waitfor'[m].co) :
                        /\ launch_pc'[waitfor'[m].co[k]] = "wait"
                        /\ launch_op'[waitfor'[m].co[k]] = m
        <5>1. CASE m = n
          <6>1. \A k \in 1 .. Len(waitfor'[n].co) :
                  \/ k \in 1 .. Len(waitfor[n].co) /\ waitfor'[n].co[k] = waitfor[n].co[k]
                  \/ waitfor'[n].co[k] = c
            BY <3>3
          <6>2. \A k \in 1 .. Len(waitfor'[n].co) : /\ launch_pc'[waitfor'[n].co[k]] = "wait"
                                                    /\ launch_op'[waitfor'[n].co[k]] = n
            <7>1. \A k \in 1 .. Len(waitfor[n].co) : /\ launch_pc[waitfor[n].co[k]] = "wait"
                                                     /\ launch_op[waitfor[n].co[k]] = n
              BY DEF Asked
            <7>2. \A k \in 1 .. Len(waitfor[n].co) : /\ launch_pc'[waitfor[n].co[k]] = "wait"
                                                     /\ launch_op'[waitfor[n].co[k]] = n
              BY <1>2, <2>3, <2>9, <7>1
            <7> QED
              BY ONLY <1>2, <3>2, <6>1, <7>2
          <6>3. waitfor[n].launch # None => /\ launch_pc'[waitfor[n].launch] = "launch"
                                            /\ launch_op'[waitfor[n].launch] = n
            BY <1>2, <2>3, <2>9 DEF Asked
          <6> QED
            BY <2>2, <3>2, <3>3, <5>1, <6>2, <6>3
        <5>2. CASE m # n
          BY <1>2, <2>2, <2>3, <2>9, <3>2, <5>2 DEF Asked
        <5> QED
          BY <5>1, <5>2
      <4>2. ASSUME NEW d \in Caller, launch_pc'[d] = "launch"
            PROVE  launch_op'[d] \in ServiceName /\ waitfor'[launch_op'[d]].launch = d
        BY <1>2, <2>3, <3>2, <4>2 DEF Asked
      <4> QED
        BY <4>1, <4>2 DEF Asked
    <3>5. Launched'
      <4>1. \A k \in 1 .. Len(launcher) : IsLaunch(k) => launcher[k].who # c /\ launcher[k].who \in Caller
        BY <2>10 DEF Launched, Message
      <4> QED
        BY <1>2, <2>3, <2>8, <3>1, <4>1 DEF Launched, IsLaunch
    <3> QED
      BY <1>1, <2>5, <2>6, <3>4, <3>5
  <2> QED
    BY <2>11, <2>12
<1> QED
  BY <1>3, <1>4


\* The caller that launches is answered r, with those who wait for the name; the
\* message is gone, and nothing stays in the launcher for this caller.
LEMMA RequestStep ==
  ASSUME LaunchInv, NEW c \in Caller, launch_pc[c] = "launch",
         NEW r \in Inst \cup {None, -1}, Launch!Request(c, r),
         launcher # <<>>, launcher' = Tail(launcher), UNCHANGED <<launch_state, is, needs, launch_op>>,
         \A k \in 2 .. Len(launcher) : IsLaunch(k) => launcher[k].who # c,
         instance' \in [Inst -> Caller \cup {None}],
         \A i \in Inst : instance'[i] = IF instance[i] = c THEN None ELSE instance[i],
         \A i \in Inst : instance[i] = c /\ Up(i) => r = i
  PROVE  LaunchInv'
<1> USE LaunchConstants DEF LaunchInv
<1> DEFINE n == launch_op[c]
           waiters == Launch!ToSet(waitfor[n].co)
<1>1. n \in ServiceName /\ waitfor[n].launch = c /\ service[n] = 0
  BY DEF Asked
<1>2. /\ service' = [service EXCEPT ![n] = r]
      /\ waitfor' = [waitfor EXCEPT ![n] = [co |-> <<>>, launch |-> None]]
      /\ answer' = [d \in Caller |-> IF d = c \/ d \in waiters THEN r ELSE answer[d]]
      /\ launch_pc' = [d \in Caller |-> IF d = c \/ d \in waiters THEN "idle" ELSE launch_pc[d]]
  BY DEF Launch!Request
<1>3. \A d \in waiters : d \in Caller /\ launch_pc[d] = "wait" /\ launch_op[d] = n
  <2>1. waitfor[n].co \in Seq(Caller)
    BY <1>1 DEF LaunchTypes, Entry
  <2>2. \A d \in waiters : \E k \in 1 .. Len(waitfor[n].co) : d = waitfor[n].co[k]
    BY <2>1 DEF Launch!ToSet
  <2> QED
    BY <1>1, <2>1, <2>2, ElementOfSeq DEF Asked
<1>4. ASSUME NEW k \in 1 .. Len(waitfor[n].co) PROVE waitfor[n].co[k] \in waiters
  <2>1. waitfor[n].co \in Seq(Caller)
    BY <1>1 DEF LaunchTypes, Entry
  <2> QED
    BY <2>1 DEF Launch!ToSet
<1> HIDE DEF n, waiters
<1>5. /\ service'[n] = r /\ \A m \in ServiceName : m # n => service'[m] = service[m]
      /\ waitfor'[n] = [co |-> <<>>, launch |-> None]
      /\ \A m \in ServiceName : m # n => waitfor'[m] = waitfor[m]
      /\ service \in [ServiceName -> Inst \cup {None, 0, -1}]
  BY <1>1, <1>2 DEF LaunchTypes
<1>6. /\ Len(launcher) \in Nat /\ Len(launcher) > 0 /\ launcher' \in Seq(Message)
      /\ Len(launcher') = Len(launcher) - 1
      /\ \A k \in 1 .. Len(launcher') : launcher'[k] = launcher[k + 1]
      /\ \A k \in 1 .. Len(launcher) : launcher[k] \in Message
  <2>1. /\ Len(launcher) \in Nat /\ Len(launcher) > 0
        /\ \A k \in 1 .. Len(launcher) : launcher[k] \in Message
    BY ElementOfSeq DEF LaunchTypes
  <2> QED
    BY <2>1 DEF LaunchTypes
<1>7. LaunchTypes'
  <2>1. [co |-> <<>>, launch |-> None] \in Entry
    BY DEF Entry
  <2>2. waitfor' \in [ServiceName -> Entry]
    BY <1>2, <2>1 DEF LaunchTypes
  <2>3. service' \in [ServiceName -> Inst \cup {None, 0, -1}]
    BY <1>2 DEF LaunchTypes
  <2>4. /\ answer' \in [Caller -> Inst \cup {None, -1}]
        /\ launch_pc' \in [Caller -> {"idle", "launch", "wait"}]
    BY <1>2 DEF LaunchTypes
  <2> QED
    BY <1>6, <2>2, <2>3, <2>4 DEF LaunchTypes
<1>8. \A d \in Caller : launch_pc[d] = "launch" /\ d # c => launch_pc'[d] = "launch"
  BY <1>2, <1>3
<1>9. ASSUME NEW m \in ServiceName, m # n
      PROVE  /\ waitfor[m].launch # None =>
                  /\ waitfor[m].launch \in Caller /\ waitfor[m].launch # c
                  /\ launch_pc'[waitfor[m].launch] = "launch"
                  /\ launch_op[waitfor[m].launch] = m
             /\ \A k \in 1 .. Len(waitfor[m].co) : /\ launch_pc'[waitfor[m].co[k]] = "wait"
                                                   /\ launch_op[waitfor[m].co[k]] = m
  <2>1. waitfor[m].launch \in Caller \cup {None} /\ waitfor[m].co \in Seq(Caller)
    BY DEF LaunchTypes, Entry
  <2>2. waitfor[m].launch # None => /\ waitfor[m].launch # c
                                    /\ launch_pc'[waitfor[m].launch] = "launch"
                                    /\ launch_op[waitfor[m].launch] = m
    BY <1>8, <1>9, <2>1 DEF Asked, n
  <2>3. ASSUME NEW k \in 1 .. Len(waitfor[m].co)
        PROVE  /\ launch_pc'[waitfor[m].co[k]] = "wait"
               /\ launch_op[waitfor[m].co[k]] = m
    <3>1. /\ waitfor[m].co[k] \in Caller /\ launch_pc[waitfor[m].co[k]] = "wait"
          /\ launch_op[waitfor[m].co[k]] = m
      BY <2>1, ElementOfSeq DEF Asked
    <3>2. waitfor[m].co[k] # c /\ waitfor[m].co[k] \notin waiters
      BY <1>3, <1>9, <3>1
    <3> QED
      BY <1>2, <3>1, <3>2
  <2> QED
    BY <2>1, <2>2, <2>3
<1>10. Asked'
  <2>1. ASSUME NEW m \in ServiceName
        PROVE  /\ service'[m] = 0 <=> waitfor'[m].launch # None \/ waitfor'[m].co # <<>>
               /\ waitfor'[m].launch # None => /\ launch_pc'[waitfor'[m].launch] = "launch"
                                               /\ launch_op[waitfor'[m].launch] = m
               /\ \A k \in 1 .. Len(waitfor'[m].co) : /\ launch_pc'[waitfor'[m].co[k]] = "wait"
                                                      /\ launch_op[waitfor'[m].co[k]] = m
    <3>1. CASE m = n
      <4>1. waitfor'[n].launch = None /\ waitfor'[n].co = <<>> /\ service'[n] # 0
        BY <1>5
      <4>2. 1 .. Len(waitfor'[n].co) = {}
        BY <4>1
      <4> QED
        BY <3>1, <4>1, <4>2
    <3>2. CASE m # n
      BY <1>5, <1>9, <3>2 DEF Asked
    <3> QED
      BY <3>1, <3>2
  <2>2. ASSUME NEW d \in Caller, launch_pc'[d] = "launch"
        PROVE  launch_op[d] \in ServiceName /\ waitfor'[launch_op[d]].launch = d
    <3>1. d # c /\ launch_pc[d] = "launch"
      BY <1>2, <2>2
    <3>2. launch_op[d] \in ServiceName /\ waitfor[launch_op[d]].launch = d
      BY <3>1 DEF Asked
    <3>3. launch_op[d] # n
      BY <1>1, <3>1, <3>2
    <3> QED
      BY <1>5, <3>2, <3>3
  <2> QED
    BY <2>1, <2>2 DEF Asked
<1>11. Launched'
  <2>1. ASSUME NEW k \in 1 .. Len(launcher')
        PROVE  /\ k + 1 \in 1 .. Len(launcher) /\ k + 1 \in 2 .. Len(launcher)
               /\ launcher'[k] = launcher[k + 1] /\ launcher[k + 1] \in Message
    BY <1>6
  <2>2. ASSUME NEW k \in 1 .. Len(launcher'), launcher'[k].do = "LAUNCH"
        PROVE  /\ launch_pc'[launcher'[k].who] = "launch"
               /\ \A i \in Inst : instance'[i] # launcher'[k].who
               /\ \A l \in 1 .. Len(launcher') :
                    l # k /\ launcher'[l].do = "LAUNCH" => launcher'[l].who # launcher'[k].who
    <3>1. /\ IsLaunch(k + 1) /\ launcher'[k] = launcher[k + 1] /\ k + 1 \in 1 .. Len(launcher)
          /\ launcher[k + 1].who \in Caller /\ launcher[k + 1].who # c
      BY <2>1, <2>2 DEF IsLaunch, Message
    <3>2. launch_pc'[launcher[k + 1].who] = "launch"
      BY <1>8, <3>1 DEF Launched
    <3>3. \A i \in Inst : instance[i] # launcher[k + 1].who
      BY <3>1 DEF Launched
    <3>4. ASSUME NEW l \in 1 .. Len(launcher'), l # k, launcher'[l].do = "LAUNCH"
          PROVE  launcher'[l].who # launcher'[k].who
      <4>1. IsLaunch(l + 1) /\ launcher'[l] = launcher[l + 1] /\ l + 1 \in 1 .. Len(launcher)
        BY <2>1, <3>4 DEF IsLaunch
      <4>2. l + 1 # k + 1
        BY <3>4
      <4> QED
        BY <3>1, <4>1, <4>2 DEF Launched
    <3> QED
      BY <3>1, <3>2, <3>3, <3>4
  <2>3. ASSUME NEW k \in 1 .. Len(launcher'), launcher'[k].do # "LAUNCH"
        PROVE  /\ launcher'[k].who \in Inst
               /\ launcher'[k].do # "LAUNCHOK" => launch_state[launcher'[k].who] = "dead"
    BY <2>1, <2>3 DEF Launched, IsLaunch
  <2>4. ASSUME NEW i \in Inst, instance'[i] # None
        PROVE  /\ launch_state[i] # "free" /\ launch_pc'[instance'[i]] = "launch"
               /\ launch_op[instance'[i]] = is[i]
    <3>1. instance'[i] = instance[i] /\ instance[i] # c /\ instance[i] # None
      BY <2>4
    <3>2. instance[i] \in Caller
      BY <3>1 DEF LaunchTypes
    <3> QED
      BY <1>8, <3>1, <3>2 DEF Launched
  <2>5. ASSUME NEW i \in Inst, NEW j \in Inst, instance'[i] # None, instance'[i] = instance'[j]
        PROVE  i = j
    <3>1. instance'[i] = instance[i] /\ instance[i] # None
      BY <2>5
    <3>2. instance'[j] = instance[j]
      BY <2>5
    <3>3. \A a, b \in Inst : instance[a] # None /\ instance[a] = instance[b] => a = b
      BY DEF Launched
    <3> HIDE DEF LaunchInv
    <3> QED
      BY ONLY <2>5, <3>1, <3>2, <3>3
  <2>6. \A i \in Inst : launch_state[i] # "free" => is[i] \in ServiceName
    BY DEF Launched
  <2> QED
    BY <2>2, <2>3, <2>4, <2>5, <2>6 DEF Launched, IsLaunch
<1>12. Registered'
  <2> SUFFICES ASSUME NEW i \in Inst, Up(i), instance'[i] = None
               PROVE  service'[is[i]] = i
    BY DEF Registered, Up
  <2>1. CASE instance[i] = c
    BY <1>5, <2>1 DEF Launched, n
  <2>2. CASE instance[i] # c
    <3>1. instance[i] = None /\ service[is[i]] = i /\ is[i] \in ServiceName
      BY <2>2 DEF Registered, Launched, Up
    <3>2. is[i] # n
      BY <1>1, <3>1
    <3> QED
      BY <1>5, <3>1, <3>2
  <2> QED
    BY <2>1, <2>2
<1>13. Answers'
  <2> SUFFICES ASSUME NEW d \in Caller, launch_pc'[d] = "idle", answer'[d] \in Inst
               PROVE  launch_op[d] \in ServiceName /\ service'[launch_op[d]] = answer'[d]
    BY DEF Answers
  <2>1. CASE d = c \/ d \in waiters
    BY <1>1, <1>2, <1>3, <1>5, <2>1 DEF n
  <2>2. CASE ~ (d = c \/ d \in waiters)
    <3>1. launch_pc[d] = "idle" /\ answer'[d] = answer[d]
      BY <1>2, <2>2
    <3>2. launch_op[d] \in ServiceName /\ service[launch_op[d]] = answer[d]
      BY <3>1 DEF Answers
    <3>3. launch_op[d] # n
      BY <1>1, <3>1, <3>2
    <3> QED
      BY <1>5, <3>1, <3>2, <3>3
  <2> QED
    BY <2>1, <2>2
<1> QED
  BY <1>7, <1>10, <1>11, <1>12, <1>13


\* The first message of the launcher is taken.
LEMMA TakeMessage ==
  ASSUME LaunchTypes, launcher # <<>>, launcher' = Tail(launcher)
  PROVE  /\ Len(launcher) \in Nat /\ Len(launcher) > 0 /\ launcher' \in Seq(Message)
         /\ Len(launcher') = Len(launcher) - 1
         /\ \A k \in 1 .. Len(launcher') : /\ launcher'[k] = launcher[k + 1]
                                           /\ k + 1 \in 2 .. Len(launcher)
         /\ \A k \in 1 .. Len(launcher) : launcher[k] \in Message
         /\ Head(launcher) = launcher[1] /\ 1 \in 1 .. Len(launcher)
<1>1. /\ Len(launcher) \in Nat /\ Len(launcher) > 0
      /\ \A k \in 1 .. Len(launcher) : launcher[k] \in Message
  BY ElementOfSeq DEF LaunchTypes
<1>2. launcher' \in Seq(Message) /\ Len(launcher') = Len(launcher) - 1
      /\ \A k \in 1 .. Len(launcher') : launcher'[k] = launcher[k + 1]
  BY <1>1 DEF LaunchTypes
<1>3. \A k \in 1 .. Len(launcher') : k + 1 \in 2 .. Len(launcher)
  BY <1>1, <1>2
<1>4. Head(launcher) = launcher[1]
  BY DEF LaunchTypes
<1> QED
  BY <1>1, <1>2, <1>3, <1>4

\* The launcher makes the service of its first message, or cannot.
LEMMA MakeStep ==
  ASSUME LaunchInv, Launch!Launch
  PROVE  LaunchInv'
<1> USE LaunchConstants DEF LaunchInv
<1>1. launcher # <<>> /\ Head(launcher).do = "LAUNCH" /\ launcher' = Tail(launcher)
  BY DEF Launch!Launch
<1> DEFINE c == launcher[1].who
<1>2. /\ IsLaunch(1) /\ 1 \in 1 .. Len(launcher) /\ c \in Caller /\ Head(launcher).who = c
  BY <1>1, TakeMessage DEF IsLaunch, Message
<1>3. /\ launch_pc[c] = "launch" /\ \A i \in Inst : instance[i] # c
      /\ \A l \in 1 .. Len(launcher) : l # 1 /\ IsLaunch(l) => launcher[l].who # c
  BY <1>2 DEF Launched
<1>4. launch_op[c] \in ServiceName /\ c # None
  BY <1>2, <1>3 DEF Asked
<1> HIDE DEF c
<1>5. CASE \E i \in Inst :
             /\ launch_state[i] = "free"
             /\ launch_state' = [launch_state EXCEPT ![i] = "init"]
             /\ is' = [is EXCEPT ![i] = launch_op[c]]
             /\ needs' = [needs EXCEPT ![i] = LaunchNeeds[launch_op[c]]]
             /\ instance' = [instance EXCEPT ![i] = c]
             /\ UNCHANGED <<service, waitfor, launch_pc, launch_op, answer>>
  <2>1. PICK i \in Inst :
             /\ launch_state[i] = "free"
             /\ launch_state' = [launch_state EXCEPT ![i] = "init"]
             /\ is' = [is EXCEPT ![i] = launch_op[c]]
             /\ needs' = [needs EXCEPT ![i] = LaunchNeeds[launch_op[c]]]
             /\ instance' = [instance EXCEPT ![i] = c]
             /\ UNCHANGED <<service, waitfor, launch_pc, launch_op, answer>>
    BY <1>5
  <2>2. LaunchTypes'
    <3>1. LaunchNeeds[launch_op[c]] \in SUBSET ServiceName
      BY <1>4 DEF LaunchNeeds
    <3>2. needs' \in [Inst -> SUBSET ServiceName]
      BY <2>1, <3>1 DEF LaunchTypes
    <3>3. /\ launch_state' \in [Inst -> {"free", "init", "running", "dead"}]
          /\ is' \in [Inst -> ServiceName \cup {None}]
          /\ instance' \in [Inst -> Caller \cup {None}]
      BY <1>2, <1>4, <2>1 DEF LaunchTypes
    <3>4. launcher' \in Seq(Message)
      BY <1>1, TakeMessage
    <3> QED
      BY <2>1, <3>2, <3>3, <3>4 DEF LaunchTypes
  <2>3. /\ instance'[i] = c /\ launch_state'[i] = "init" /\ is'[i] = launch_op[c]
        /\ \A j \in Inst : j # i => /\ instance'[j] = instance[j] /\ is'[j] = is[j]
                                    /\ launch_state'[j] = launch_state[j]
    BY <2>1 DEF LaunchTypes
  <2>4. Asked'
    BY <2>1 DEF Asked
  <2>5. Launched'
    <3>1. ASSUME NEW k \in 1 .. Len(launcher')
          PROVE  /\ k + 1 \in 1 .. Len(launcher) /\ k + 1 # 1
                 /\ launcher'[k] = launcher[k + 1] /\ launcher[k + 1] \in Message
      <4>1. k \in Nat /\ k + 1 \in 2 .. Len(launcher) /\ launcher'[k] = launcher[k + 1]
        BY <1>1, TakeMessage
      <4>2. k + 1 \in 1 .. Len(launcher) /\ k + 1 # 1
        BY <4>1
      <4> QED
        BY <1>1, <4>1, <4>2, TakeMessage
    <3>2. ASSUME NEW k \in 1 .. Len(launcher'), launcher'[k].do = "LAUNCH"
          PROVE  /\ launch_pc[launcher'[k].who] = "launch"
                 /\ \A j \in Inst : instance'[j] # launcher'[k].who
                 /\ \A l \in 1 .. Len(launcher') :
                      l # k /\ launcher'[l].do = "LAUNCH" => launcher'[l].who # launcher'[k].who
      <4>1. IsLaunch(k + 1) /\ launcher'[k] = launcher[k + 1] /\ k + 1 \in 1 .. Len(launcher)
            /\ launcher[k + 1].who # c
        BY <1>3, <3>1, <3>2 DEF IsLaunch
      <4>2. launch_pc[launcher[k + 1].who] = "launch"
        BY <4>1 DEF Launched
      <4>3. \A j \in Inst : instance[j] # launcher[k + 1].who
        BY <4>1 DEF Launched
      <4>4. ASSUME NEW l \in 1 .. Len(launcher'), l # k, launcher'[l].do = "LAUNCH"
            PROVE  launcher'[l].who # launcher'[k].who
        <5>1. IsLaunch(l + 1) /\ launcher'[l] = launcher[l + 1] /\ l + 1 \in 1 .. Len(launcher)
          BY <3>1, <4>4 DEF IsLaunch
        <5>2. l + 1 # k + 1
          BY <4>4
        <5> QED
          BY <4>1, <5>1, <5>2 DEF Launched
      <4> QED
        BY <2>3, <4>1, <4>2, <4>3, <4>4
    <3>3. ASSUME NEW k \in 1 .. Len(launcher'), launcher'[k].do # "LAUNCH"
          PROVE  /\ launcher'[k].who \in Inst
                 /\ launcher'[k].do # "LAUNCHOK" => launch_state'[launcher'[k].who] = "dead"
      <4>1. /\ launcher[k + 1].who \in Inst
            /\ launcher[k + 1].do # "LAUNCHOK" => launch_state[launcher[k + 1].who] = "dead"
        BY <3>1, <3>3 DEF Launched, IsLaunch
      <4> QED
        BY <2>1, <2>3, <3>1, <4>1
    <3>4. ASSUME NEW j \in Inst
          PROVE  /\ launch_state'[j] # "free" => is'[j] \in ServiceName
                 /\ instance'[j] # None => /\ launch_state'[j] # "free"
                                           /\ launch_pc[instance'[j]] = "launch"
                                           /\ launch_op[instance'[j]] = is'[j]
      BY <1>3, <1>4, <2>3 DEF Launched
    <3>5. \A j, k \in Inst : instance'[j] # None /\ instance'[j] = instance'[k] => j = k
      BY <1>3, <2>3 DEF Launched
    <3> QED
      BY <2>1, <3>2, <3>3, <3>4, <3>5 DEF Launched, IsLaunch
  <2>6. Registered'
    BY <1>4, <2>1, <2>3 DEF Registered, Up
  <2>7. Answers'
    BY <2>1 DEF Answers
  <2> QED
    BY <2>2, <2>4, <2>5, <2>6, <2>7
<1>6. CASE Launch!Request(c, -1) /\ UNCHANGED <<launch_state, is, needs, instance, launch_op>>
  <2>1. \A k \in 2 .. Len(launcher) : IsLaunch(k) => launcher[k].who # c
    BY <1>1, <1>3, TakeMessage
  <2>2. /\ instance' \in [Inst -> Caller \cup {None}]
        /\ \A i \in Inst : instance'[i] = IF instance[i] = c THEN None ELSE instance[i]
    BY <1>3, <1>6 DEF LaunchTypes
  <2>3. /\ LaunchInv /\ c \in Caller /\ launch_pc[c] = "launch" /\ -1 \in Inst \cup {None, -1}
        /\ \A i \in Inst : ~ (instance[i] = c)
    BY <1>2, <1>3
  <2> QED
    BY <1>1, <1>6, <2>1, <2>2, <2>3, RequestStep
<1> HIDE DEF LaunchInv
<1>7. \/ \E i \in Inst :
             /\ launch_state[i] = "free"
             /\ launch_state' = [launch_state EXCEPT ![i] = "init"]
             /\ is' = [is EXCEPT ![i] = launch_op[c]]
             /\ needs' = [needs EXCEPT ![i] = LaunchNeeds[launch_op[c]]]
             /\ instance' = [instance EXCEPT ![i] = c]
             /\ UNCHANGED <<service, waitfor, launch_pc, launch_op, answer>>
      \/ Launch!Request(c, -1) /\ UNCHANGED <<launch_state, is, needs, instance, launch_op>>
  <2>1. Head(launcher).who = c
    BY <1>2
  <2>2. \/ \E i \in Inst :
             /\ launch_state[i] = "free"
             /\ launch_state' = [launch_state EXCEPT ![i] = "init"]
             /\ is' = [is EXCEPT ![i] = launch_op[c]]
             /\ needs' = [needs EXCEPT ![i] = LaunchNeeds[launch_op[c]]]
             /\ instance' = [instance EXCEPT ![i] = c]
             /\ UNCHANGED <<Launch!mgr, Launch!calls>>
        \/ /\ Launch!Request(c, Launch!Failed)
           /\ UNCHANGED <<Launch!insts, instance, launch_op>>
    BY <2>1 DEF Launch!Launch, LaunchNeeds, Inst
  <2> QED
    BY <2>2, LaunchConstants DEF Launch!mgr, Launch!insts, Launch!calls
<1> QED
  BY <1>5, <1>6, <1>7


\* The launcher is told that a service is up, or that it is not.
LEMMA ConfirmStep ==
  ASSUME LaunchInv, Launch!Confirm
  PROVE  LaunchInv'
<1> DEFINE i == launcher[1].who
           c == instance[i]
           r == IF launcher[1].do = "LAUNCHOK" THEN i
                ELSE IF launcher[1].do = "REMOVE" THEN None ELSE -1
<1>1. /\ launcher # <<>> /\ Head(launcher).do # "LAUNCH" /\ launcher' = Tail(launcher)
      /\ UNCHANGED <<launch_state, is, needs, launch_op, asks, ends>>
  BY DEF Launch!Confirm, Launch!insts
<1>2. LaunchTypes /\ Asked /\ Launched /\ Registered /\ Answers
  BY DEF LaunchInv
<1>3. /\ ~ IsLaunch(1) /\ 1 \in 1 .. Len(launcher) /\ Head(launcher) = launcher[1]
      /\ launcher' \in Seq(Message)
  BY <1>1, <1>2, TakeMessage DEF IsLaunch
<1>4. i \in Inst /\ (launcher[1].do # "LAUNCHOK" => launch_state[i] = "dead")
  BY <1>2, <1>3 DEF Launched
<1>5. IF c # None
      THEN instance' = [instance EXCEPT ![i] = None] /\ Launch!Request(c, r)
      ELSE UNCHANGED <<instance, service, waitfor, launch_pc, answer>>
  BY <1>3, LaunchConstants DEF Launch!Confirm, Launch!mgr, Launch!Failed
<1>6. r \in Inst \cup {None, -1} /\ c \in Caller \cup {None}
      /\ (launcher[1].do = "LAUNCHOK" => r = i)
  BY <1>2, <1>4 DEF LaunchTypes
<1> HIDE DEF r
<1>7. CASE c # None
  <2>1. c \in Caller /\ launch_pc[c] = "launch"
    BY <1>2, <1>4, <1>6, <1>7 DEF Launched
  <2>2. \A k \in 2 .. Len(launcher) : IsLaunch(k) => launcher[k].who # c
    <3>1. \A k \in 2 .. Len(launcher) : k \in 1 .. Len(launcher)
      BY <1>1, <1>2, TakeMessage
    <3> QED
      BY <1>2, <1>4, <3>1 DEF Launched
  <2>3. \A j \in Inst : instance[j] = c => j = i
    BY <1>2, <1>4, <1>7 DEF Launched
  <2>4. /\ instance' \in [Inst -> Caller \cup {None}]
        /\ \A j \in Inst : instance'[j] = IF j = i THEN None ELSE instance[j]
    BY <1>2, <1>5, <1>7 DEF LaunchTypes
  <2>5. \A j \in Inst : instance'[j] = IF instance[j] = c THEN None ELSE instance[j]
    BY <2>3, <2>4
  <2>6. \A j \in Inst : instance[j] = c /\ Up(j) => r = j
    BY <1>4, <1>6, <2>3 DEF Up
  <2> HIDE DEF c, i
  <2> QED
    BY <1>1, <1>5, <1>6, <1>7, <2>1, <2>2, <2>4, <2>5, <2>6, RequestStep
<1>8. CASE c = None
  <2>1. UNCHANGED <<instance, service, waitfor, launch_pc, answer>>
    BY <1>5, <1>8
  <2>2. LaunchTypes'
    BY <1>1, <1>2, <1>3, <2>1 DEF LaunchTypes
  <2>3. Launched'
    <3>1. ASSUME NEW k \in 1 .. Len(launcher')
          PROVE  k + 1 \in 1 .. Len(launcher) /\ launcher'[k] = launcher[k + 1]
      <4>1. k \in Nat /\ k + 1 \in 2 .. Len(launcher) /\ launcher'[k] = launcher[k + 1]
        BY <1>1, <1>2, TakeMessage
      <4> QED
        BY <4>1
    <3>2. ASSUME NEW k \in 1 .. Len(launcher'), launcher'[k].do = "LAUNCH"
          PROVE  /\ launch_pc[launcher'[k].who] = "launch"
                 /\ \A j \in Inst : instance[j] # launcher'[k].who
                 /\ \A l \in 1 .. Len(launcher') :
                      l # k /\ launcher'[l].do = "LAUNCH" => launcher'[l].who # launcher'[k].who
      <4>1. IsLaunch(k + 1) /\ launcher'[k] = launcher[k + 1] /\ k + 1 \in 1 .. Len(launcher)
        BY <3>1, <3>2 DEF IsLaunch
      <4>2. /\ launch_pc[launcher[k + 1].who] = "launch"
            /\ \A j \in Inst : instance[j] # launcher[k + 1].who
        BY <1>2, <4>1 DEF Launched
      <4>3. ASSUME NEW l \in 1 .. Len(launcher'), l # k, launcher'[l].do = "LAUNCH"
            PROVE  launcher'[l].who # launcher'[k].who
        <5>1. IsLaunch(l + 1) /\ launcher'[l] = launcher[l + 1] /\ l + 1 \in 1 .. Len(launcher)
          BY <3>1, <4>3 DEF IsLaunch
        <5>2. l + 1 # k + 1
          BY <4>3
        <5> QED
          BY <1>2, <4>1, <5>1, <5>2 DEF Launched
      <4> QED
        BY <4>1, <4>2, <4>3
    <3>3. ASSUME NEW k \in 1 .. Len(launcher'), launcher'[k].do # "LAUNCH"
          PROVE  /\ launcher'[k].who \in Inst
                 /\ launcher'[k].do # "LAUNCHOK" => launch_state[launcher'[k].who] = "dead"
      BY <1>2, <3>1, <3>3 DEF Launched, IsLaunch
    <3> QED
      BY <1>1, <1>2, <2>1, <3>2, <3>3 DEF Launched, IsLaunch
  <2>4. Asked' /\ Registered' /\ Answers'
    BY <1>1, <1>2, <2>1 DEF Asked, Registered, Answers, Up
  <2> QED
    BY <2>2, <2>3, <2>4 DEF LaunchInv
<1> QED
  BY <1>7, <1>8

\* An instance tells the launcher: it is up and stays so, or it is dead.
LEMMA TellStep ==
  ASSUME LaunchInv, NEW i \in Inst, launch_state[i] \in {"init", "running"},
         NEW st \in {"running", "dead"}, NEW m \in {"LAUNCHOK", "ERROR", "REMOVE", "KILLED"},
         launch_state' = [launch_state EXCEPT ![i] = st], Launch!Tell(m, i),
         m # "LAUNCHOK" => st = "dead",
         UNCHANGED <<service, waitfor, instance, is, needs, launch_pc, launch_op, answer>>
  PROVE  LaunchInv'
<1>1. LaunchTypes /\ Asked /\ Launched /\ Registered /\ Answers
  BY DEF LaunchInv
<1> DEFINE q == Len(launcher)
<1>2. /\ q \in Nat /\ Len(launcher') = q + 1 /\ launcher' \in Seq(Message)
      /\ \A k \in 1 .. q : launcher'[k] = launcher[k]
      /\ launcher'[q + 1] = [do |-> m, who |-> i]
  <2>1. [do |-> m, who |-> i] \in Message
    BY DEF Message, Caller
  <2>2. launcher' = Append(launcher, [do |-> m, who |-> i])
    BY DEF Launch!Tell
  <2> QED
    BY <1>1, <2>1, <2>2 DEF LaunchTypes
<1>3. \A k \in 1 .. Len(launcher') : k \in 1 .. q \/ k = q + 1
  BY <1>2
<1>4. /\ launch_state'[i] = st /\ \A j \in Inst : j # i => launch_state'[j] = launch_state[j]
      /\ launch_state' \in [Inst -> {"free", "init", "running", "dead"}]
  BY <1>1 DEF LaunchTypes
<1>5. LaunchTypes'
  BY <1>1, <1>2, <1>4 DEF LaunchTypes
<1> HIDE DEF q
<1>6. Launched'
  <2>1. ASSUME NEW k \in 1 .. Len(launcher'), launcher'[k].do = "LAUNCH"
        PROVE  k \in 1 .. q /\ IsLaunch(k) /\ launcher'[k] = launcher[k]
    BY <1>2, <1>3, <2>1 DEF IsLaunch
  <2>2. ASSUME NEW k \in 1 .. Len(launcher'), launcher'[k].do = "LAUNCH"
        PROVE  /\ launch_pc[launcher'[k].who] = "launch"
               /\ \A j \in Inst : instance[j] # launcher'[k].who
               /\ \A l \in 1 .. Len(launcher') :
                    l # k /\ launcher'[l].do = "LAUNCH" => launcher'[l].who # launcher'[k].who
    BY <1>1, <2>1, <2>2 DEF Launched, q
  <2>3. ASSUME NEW k \in 1 .. Len(launcher'), launcher'[k].do # "LAUNCH"
        PROVE  /\ launcher'[k].who \in Inst
               /\ launcher'[k].do # "LAUNCHOK" => launch_state'[launcher'[k].who] = "dead"
    <3>1. CASE k \in 1 .. q
      <4>1. ~ IsLaunch(k) /\ launcher'[k] = launcher[k]
        BY <1>2, <2>3, <3>1 DEF IsLaunch
      <4>2. /\ launcher[k].who \in Inst
            /\ launcher[k].do # "LAUNCHOK" => launch_state[launcher[k].who] = "dead"
        BY <1>1, <3>1, <4>1 DEF Launched, q
      <4> QED
        BY <1>4, <4>1, <4>2
    <3>2. CASE k = q + 1
      BY <1>2, <1>4, <3>2
    <3> QED
      BY <1>3, <3>1, <3>2
  <2>4. ASSUME NEW j \in Inst
        PROVE  /\ launch_state'[j] # "free" => is[j] \in ServiceName
               /\ instance[j] # None => /\ launch_state'[j] # "free"
                                        /\ launch_pc[instance[j]] = "launch"
                                        /\ launch_op[instance[j]] = is[j]
    BY <1>1, <1>4 DEF Launched
  <2> QED
    BY <1>1, <2>2, <2>3, <2>4 DEF Launched, IsLaunch
<1>7. Registered'
  BY <1>1, <1>4 DEF Registered, Up
<1>8. Asked' /\ Answers'
  BY <1>1 DEF Asked, Answers
<1> QED
  BY <1>5, <1>6, <1>7, <1>8 DEF LaunchInv


LEMMA LaunchStep ==
  LaunchInv /\ [LuaNext]_lua => LaunchInv'
<1> SUFFICES ASSUME LaunchInv, [LuaNext]_lua PROVE LaunchInv'
  OBVIOUS
<1>0. \A c \in Client : c \in Caller
  BY DEF Caller
<1>1. CASE UNCHANGED launch_vars
  BY <1>1 DEF launch_vars, LaunchInv, LaunchTypes, Asked, Launched, IsLaunch, Registered, Up, Answers
<1>2. ASSUME NEW c \in Client, NEW n \in ServiceName, NEW do, Launch!Ask(c, do, n)
      PROVE  LaunchInv'
  <2>1. /\ launch_pc[c] = "idle" /\ Launch!Waitfor(c, do, n)
        /\ UNCHANGED <<instance, launch_state, is, needs>>
    BY <1>2 DEF Launch!Ask, Launch!insts
  <2>2. c \in Caller /\ needs' \in [Inst -> SUBSET ServiceName]
    BY <1>0, <2>1 DEF LaunchInv, LaunchTypes
  <2> QED
    BY <2>1, <2>2, WaitforStep
<1>3. ASSUME NEW i \in Inst, NEW n \in ServiceName, Launch!InitNeeds(i, n)
      PROVE  LaunchInv'
  <2>1. /\ launch_pc[i] = "idle" /\ Launch!Waitfor(i, "LAUNCH", n)
        /\ UNCHANGED <<instance, launch_state, is>>
        /\ needs' = [needs EXCEPT ![i] = @ \ {n}]
    BY <1>3 DEF Launch!InitNeeds
  <2>2. i \in Caller /\ needs' \in [Inst -> SUBSET ServiceName]
    BY <2>1 DEF Caller, LaunchInv, LaunchTypes
  <2> QED
    BY <2>1, <2>2, WaitforStep
<1>4. ASSUME NEW i \in Inst, Launch!InitDone(i)
      PROVE  LaunchInv'
  <2>1. /\ launch_state[i] \in {"init", "running"}
        /\ launch_state' = [launch_state EXCEPT ![i] = "running"] /\ Launch!Tell("LAUNCHOK", i)
        /\ UNCHANGED <<service, waitfor, instance, is, needs, launch_pc, launch_op, answer>>
    BY <1>4 DEF Launch!InitDone, Launch!mgr, Launch!calls
  <2> QED
    BY <2>1, TellStep
<1>5. ASSUME NEW i \in Inst, NEW m \in {"ERROR", "REMOVE", "KILLED"}, Launch!End(i, m)
      PROVE  LaunchInv'
  <2>1. /\ launch_state[i] \in {"init", "running"}
        /\ launch_state' = [launch_state EXCEPT ![i] = "dead"] /\ Launch!Tell(m, i)
        /\ UNCHANGED <<service, waitfor, instance, is, needs, launch_pc, launch_op, answer>>
    BY <1>5 DEF Launch!End, Launch!mgr, Launch!calls
  <2> QED
    BY <2>1, TellStep
<1>6. CASE Launch!Next
  BY <1>2, <1>3, <1>4, <1>5, <1>6, MakeStep, ConfirmStep DEF Launch!Next, Inst
<1>7. UNCHANGED launch_vars \/ Launch!Next
  BY DEF LuaNext, In, lua
<1> QED
  BY <1>1, <1>6, <1>7

LEMMA LaunchInit == LuaInit => LaunchInv
<1> SUFFICES ASSUME Launch!Init PROVE LaunchInv
  BY DEF LuaInit
<1> USE LaunchConstants
<1>1. /\ service = [n \in ServiceName |-> None]
      /\ waitfor = [n \in ServiceName |-> [co |-> <<>>, launch |-> None]]
      /\ launcher = <<>> /\ instance = [i \in Inst |-> None]
      /\ launch_state = [i \in Inst |-> "free"] /\ is = [i \in Inst |-> None]
      /\ needs = [i \in Inst |-> {}]
      /\ launch_pc = [c \in Caller |-> "idle"] /\ launch_op = [c \in Caller |-> None]
      /\ answer = [c \in Caller |-> None]
  BY DEF Launch!Init, Inst
<1>2. LaunchTypes
  <2>1. [co |-> <<>>, launch |-> None] \in Entry
    BY DEF Entry
  <2>2. waitfor \in [ServiceName -> Entry] /\ launcher \in Seq(Message)
    BY <1>1, <2>1
  <2> QED
    BY <1>1, <2>2 DEF LaunchTypes
<1>3. 1 .. Len(<<>>) = {}
  OBVIOUS
<1>4. Asked /\ Answers
  <2>1. \A n \in ServiceName : service[n] = None /\ waitfor[n].launch = None /\ waitfor[n].co = <<>>
    BY <1>1
  <2>2. \A c \in Caller : launch_pc[c] = "idle" /\ answer[c] = None
    BY <1>1
  <2>3. Asked
    BY <1>3, <2>1, <2>2 DEF Asked
  <2> QED
    BY <2>2, <2>3 DEF Answers, Caller
<1>5. Launched /\ Registered
  BY <1>1, <1>3 DEF Launched, Registered, Up
<1> QED
  BY <1>2, <1>4, <1>5 DEF LaunchInv

\* Whoever launches or asks for a service that is to be there once is told the
\* same service, and there is only one, for any number of names and callers.
THEOREM OneServiceEach == LuaSpec => []SameService
<1>1. LaunchInv => SameService
  <2> SUFFICES ASSUME LaunchInv PROVE SameService
    OBVIOUS
  <2> USE LaunchConstants DEF LaunchInv
  <2>1. Launch!TypeOK
    BY DEF Launch!TypeOK, LaunchTypes, Asked, Inst
  <2>2. Launch!SameService
    <3>1. \A c \in Client : launch_pc[c] = "idle" /\ answer[c] \in Inst => answer[c] = service[launch_op[c]]
      BY DEF Answers, Caller
    <3> QED
      BY <3>1 DEF Launch!SameService, Launch!IsHandle, Inst
  <2>3. Launch!Unique
    <3> SUFFICES ASSUME NEW i \in Inst, NEW j \in Inst, Up(i), Up(j), is[i] = is[j]
                 PROVE  i = j
      BY DEF Launch!Unique, Up, Inst
    <3>1. is[i] \in ServiceName
      BY DEF Launched, Up
    <3>2. \A k \in Inst : instance[k] # None =>
              /\ instance[k] \in Caller /\ service[is[k]] = 0
              /\ waitfor[is[k]].launch = instance[k]
      <4>1. ASSUME NEW k \in Inst, instance[k] # None
            PROVE  /\ instance[k] \in Caller /\ launch_pc[instance[k]] = "launch"
                   /\ launch_op[instance[k]] = is[k]
        BY <4>1 DEF LaunchTypes, Launched
      <4>2. ASSUME NEW k \in Inst, instance[k] # None
            PROVE  is[k] \in ServiceName /\ waitfor[is[k]].launch = instance[k]
        BY <4>1, <4>2 DEF Asked
      <4> QED
        BY <4>1, <4>2 DEF Asked
    <3>3. CASE instance[i] # None
      <4>1. service[is[j]] = 0 /\ waitfor[is[j]].launch = instance[i]
        BY <3>2, <3>3
      <4>2. instance[j] # None
        BY <4>1 DEF Registered
      <4>3. instance[j] = instance[i]
        BY <3>2, <4>1, <4>2
      <4> QED
        BY <3>3, <4>3 DEF Launched
    <3>4. CASE instance[i] = None
      <4>1. service[is[j]] = i
        BY <3>4 DEF Registered
      <4>2. instance[j] = None
        BY <3>2, <4>1
      <4> QED
        BY <4>1, <4>2 DEF Registered
    <3> QED
      BY <3>3, <3>4
  <2> QED
    BY <2>1, <2>2, <2>3 DEF SameService
<1> QED
  BY <1>1, LaunchInit, LaunchStep, PTL DEF LuaSpec

------------------------------------------------------------------------------
(***************************************************************************)
(* Sessions and coroutines (skynet.lua).  What is proved about every       *)
(* service in SessionProof holds of the services of MCLua.                 *)
(***************************************************************************)
CP == INSTANCE SessionProof WITH
    Service <- {"a", "b"}, Co <- {c1, c2}, Wrap <- FALSE, MaxSession <- 3, MaxMail <- 1, MaxWake <- 1,
    Ops <- [s \in {"a", "b"} |-> CallOps], timer <- session_timer
WP == INSTANCE SessionProof WITH
    Service <- {"a"}, Co <- {c1, c2, c3}, Wrap <- FALSE, MaxSession <- 3, MaxMail <- 1, MaxWake <- 1,
    Ops <- [s \in {"a"} |-> WaitOps], timer <- session_timer
KP == INSTANCE SessionProof WITH
    Service <- {"a", "b"}, Co <- {c1, c2}, Wrap <- FALSE, MaxSession <- 3, MaxMail <- 1, MaxWake <- 1,
    Ops <- [s \in {"a", "b"} |-> IF s = "a" THEN Ends \cup {"call", "sleep", "fork", "kill"}
                                 ELSE {"finish", "exit"}], timer <- session_timer

SessionInv ==
    /\ part = "calls" => CP!TableInv /\ CP!LedgerInv
    /\ part = "waits" => WP!TableInv /\ WP!LedgerInv
    /\ part = "kills" => KP!TableInv

\* The services are numbered and patient, as SessionProof asks.
LEMMA SessionConstants ==
    CP!Numbered /\ CP!Patient /\ WP!Numbered /\ WP!Patient /\ KP!Numbered
BY SessionAssumptions
   DEF CP!Numbered, WP!Numbered, KP!Numbered, CP!Patient, WP!Patient, CallOps, WaitOps, Ends,
       Calls!SessionAssumption, CP!SessionAssumption, Waits!SessionAssumption,
       WP!SessionAssumption, Kills!SessionAssumption, KP!SessionAssumption

\* The instances of SessionProof are those of MCLua.
LEMMA CallsSame == (Calls!Init <=> CP!Init) /\ (Calls!Next <=> CP!Next)
<1>1. Calls!Init <=> CP!Init
  BY DEF Calls!Init, CP!Init, Calls!Sessions, CP!Sessions
<1>2. Calls!Next <=> CP!Next
  BY DEF Calls!Sessions, CP!Sessions, Calls!Free, CP!Free, Calls!NewSession,
         CP!NewSession, Calls!Post, CP!Post, Calls!Answer, CP!Answer,
         Calls!Resume, CP!Resume, Calls!Suspend, CP!Suspend, Calls!Throw,
         CP!Throw, Calls!HeadIs, CP!HeadIs, Calls!DispatchResponse,
         CP!DispatchResponse, Calls!DispatchRequest, CP!DispatchRequest,
         Calls!RefuseRequest, CP!RefuseRequest, Calls!DispatchError,
         CP!DispatchError, Calls!DispatchWakeup, CP!DispatchWakeup,
         Calls!DispatchErrorQueue, CP!DispatchErrorQueue, Calls!Drained,
         CP!Drained, Calls!StartFork, CP!StartFork, Calls!MessageDone,
         CP!MessageDone, Calls!Scheduler, CP!Scheduler, Calls!Does, CP!Does,
         Calls!Park, CP!Park, Calls!Call, CP!Call, Calls!Send, CP!Send,
         Calls!Sleep, CP!Sleep, Calls!Wait, CP!Wait, Calls!Wakeup, CP!Wakeup,
         Calls!Fork, CP!Fork, Calls!Timeout, CP!Timeout, Calls!Ret, CP!Ret,
         Calls!Response, CP!Response, Calls!Respond, CP!Respond, Calls!Debt,
         CP!Debt, Calls!Clear, CP!Clear, Calls!Finish, CP!Finish, Calls!Fail,
         CP!Fail, Calls!KillForked, CP!KillForked, Calls!Kill, CP!Kill,
         Calls!Owed, CP!Owed, Calls!Waits, CP!Waits, Calls!Farewell,
         CP!Farewell, Calls!Leave, CP!Leave, Calls!Exit, CP!Exit, Calls!Runs,
         CP!Runs, Calls!Expire, CP!Expire, Calls!DropMessage, CP!DropMessage,
         Calls!Next, CP!Next, Calls!context, CP!context, Calls!threads,
         CP!threads, Calls!duties, CP!duties, Calls!pending, CP!pending,
         Calls!history, CP!history, Calls!vars, CP!vars, Calls!SetToSeq,
         CP!SetToSeq, Calls!SetToSeqs, CP!SetToSeqs, Calls!RemoveAt,
         CP!RemoveAt, Calls!Cardinality, CP!Cardinality, Calls!IsInjective,
         CP!IsInjective
<1> QED BY <1>1, <1>2

LEMMA WaitsSame == (Waits!Init <=> WP!Init) /\ (Waits!Next <=> WP!Next)
<1>1. Waits!Init <=> WP!Init
  BY DEF Waits!Init, WP!Init, Waits!Sessions, WP!Sessions
<1>2. Waits!Next <=> WP!Next
  BY DEF Waits!Sessions, WP!Sessions, Waits!Free, WP!Free, Waits!NewSession,
         WP!NewSession, Waits!Post, WP!Post, Waits!Answer, WP!Answer,
         Waits!Resume, WP!Resume, Waits!Suspend, WP!Suspend, Waits!Throw,
         WP!Throw, Waits!HeadIs, WP!HeadIs, Waits!DispatchResponse,
         WP!DispatchResponse, Waits!DispatchRequest, WP!DispatchRequest,
         Waits!RefuseRequest, WP!RefuseRequest, Waits!DispatchError,
         WP!DispatchError, Waits!DispatchWakeup, WP!DispatchWakeup,
         Waits!DispatchErrorQueue, WP!DispatchErrorQueue, Waits!Drained,
         WP!Drained, Waits!StartFork, WP!StartFork, Waits!MessageDone,
         WP!MessageDone, Waits!Scheduler, WP!Scheduler, Waits!Does, WP!Does,
         Waits!Park, WP!Park, Waits!Call, WP!Call, Waits!Send, WP!Send,
         Waits!Sleep, WP!Sleep, Waits!Wait, WP!Wait, Waits!Wakeup, WP!Wakeup,
         Waits!Fork, WP!Fork, Waits!Timeout, WP!Timeout, Waits!Ret, WP!Ret,
         Waits!Response, WP!Response, Waits!Respond, WP!Respond, Waits!Debt,
         WP!Debt, Waits!Clear, WP!Clear, Waits!Finish, WP!Finish, Waits!Fail,
         WP!Fail, Waits!KillForked, WP!KillForked, Waits!Kill, WP!Kill,
         Waits!Owed, WP!Owed, Waits!Waits, WP!Waits, Waits!Farewell,
         WP!Farewell, Waits!Leave, WP!Leave, Waits!Exit, WP!Exit, Waits!Runs,
         WP!Runs, Waits!Expire, WP!Expire, Waits!DropMessage, WP!DropMessage,
         Waits!Next, WP!Next, Waits!context, WP!context, Waits!threads,
         WP!threads, Waits!duties, WP!duties, Waits!pending, WP!pending,
         Waits!history, WP!history, Waits!vars, WP!vars, Waits!SetToSeq,
         WP!SetToSeq, Waits!SetToSeqs, WP!SetToSeqs, Waits!RemoveAt,
         WP!RemoveAt, Waits!Cardinality, WP!Cardinality, Waits!IsInjective,
         WP!IsInjective
<1> QED BY <1>1, <1>2

LEMMA KillsSame == (Kills!Init <=> KP!Init) /\ (Kills!Next <=> KP!Next)
<1>1. Kills!Init <=> KP!Init
  BY DEF Kills!Init, KP!Init, Kills!Sessions, KP!Sessions
<1>2. Kills!Next <=> KP!Next
  BY DEF Kills!Sessions, KP!Sessions, Kills!Free, KP!Free, Kills!NewSession,
         KP!NewSession, Kills!Post, KP!Post, Kills!Answer, KP!Answer,
         Kills!Resume, KP!Resume, Kills!Suspend, KP!Suspend, Kills!Throw,
         KP!Throw, Kills!HeadIs, KP!HeadIs, Kills!DispatchResponse,
         KP!DispatchResponse, Kills!DispatchRequest, KP!DispatchRequest,
         Kills!RefuseRequest, KP!RefuseRequest, Kills!DispatchError,
         KP!DispatchError, Kills!DispatchWakeup, KP!DispatchWakeup,
         Kills!DispatchErrorQueue, KP!DispatchErrorQueue, Kills!Drained,
         KP!Drained, Kills!StartFork, KP!StartFork, Kills!MessageDone,
         KP!MessageDone, Kills!Scheduler, KP!Scheduler, Kills!Does, KP!Does,
         Kills!Park, KP!Park, Kills!Call, KP!Call, Kills!Send, KP!Send,
         Kills!Sleep, KP!Sleep, Kills!Wait, KP!Wait, Kills!Wakeup, KP!Wakeup,
         Kills!Fork, KP!Fork, Kills!Timeout, KP!Timeout, Kills!Ret, KP!Ret,
         Kills!Response, KP!Response, Kills!Respond, KP!Respond, Kills!Debt,
         KP!Debt, Kills!Clear, KP!Clear, Kills!Finish, KP!Finish, Kills!Fail,
         KP!Fail, Kills!KillForked, KP!KillForked, Kills!Kill, KP!Kill,
         Kills!Owed, KP!Owed, Kills!Waits, KP!Waits, Kills!Farewell,
         KP!Farewell, Kills!Leave, KP!Leave, Kills!Exit, KP!Exit, Kills!Runs,
         KP!Runs, Kills!Expire, KP!Expire, Kills!DropMessage, KP!DropMessage,
         Kills!Next, KP!Next, Kills!context, KP!context, Kills!threads,
         KP!threads, Kills!duties, KP!duties, Kills!pending, KP!pending,
         Kills!history, KP!history, Kills!vars, KP!vars, Kills!SetToSeq,
         KP!SetToSeq, Kills!SetToSeqs, KP!SetToSeqs, Kills!RemoveAt,
         KP!RemoveAt, Kills!Cardinality, KP!Cardinality, Kills!IsInjective,
         KP!IsInjective
<1> QED BY <1>1, <1>2

LEMMA CallsSays ==
    ASSUME CP!TableInv /\ CP!LedgerInv
    PROVE  Calls!TypeOK /\ Calls!Connected /\ Calls!Drain /\ Calls!Expected /\ Calls!AnsweredOnce /\ Calls!NoOrphan
<1>1. CP!TypeOK /\ CP!Connected
  BY SessionConstants, CP!TableImplies
<1>2. CP!AnsweredOnce /\ CP!NoOrphan /\ CP!Drain /\ CP!Expected /\ CP!BreakCleared
  BY SessionConstants, CP!LedgerImplies
<1> QED
  BY <1>1, <1>2 DEF Calls!TypeOK, CP!TypeOK, Calls!Connected,
         CP!Connected, Calls!Drain, CP!Drain, Calls!Expected, CP!Expected,
         Calls!AnsweredOnce, CP!AnsweredOnce, Calls!NoOrphan, CP!NoOrphan,
         Calls!Sessions, CP!Sessions, Calls!Message, CP!Message, Calls!Carried,
         CP!Carried, Calls!Debt, CP!Debt, Calls!HeadIs, CP!HeadIs,
         Calls!Contains, CP!Contains

LEMMA WaitsSays ==
    ASSUME WP!TableInv /\ WP!LedgerInv
    PROVE  Waits!TypeOK /\ Waits!Connected /\ Waits!Drain /\ Waits!Expected /\ Waits!BreakCleared
<1>1. WP!TypeOK /\ WP!Connected
  BY SessionConstants, WP!TableImplies
<1>2. WP!AnsweredOnce /\ WP!NoOrphan /\ WP!Drain /\ WP!Expected /\ WP!BreakCleared
  BY SessionConstants, WP!LedgerImplies
<1> QED
  BY <1>1, <1>2 DEF Waits!TypeOK, WP!TypeOK, Waits!Connected,
         WP!Connected, Waits!Drain, WP!Drain, Waits!Expected, WP!Expected,
         Waits!BreakCleared, WP!BreakCleared, Waits!Sessions, WP!Sessions,
         Waits!Message, WP!Message, Waits!Carried, WP!Carried, Waits!Debt,
         WP!Debt, Waits!HeadIs, WP!HeadIs, Waits!Contains, WP!Contains

LEMMA KillsSays ==
    ASSUME KP!TableInv
    PROVE  Kills!TypeOK /\ Kills!Connected /\ Kills!Drain
<1>1. KP!TypeOK /\ KP!Connected /\ KP!Drain
  BY SessionConstants, KP!TableImplies
<1> QED
  BY <1>1 DEF Kills!TypeOK, KP!TypeOK, Kills!Connected,
         KP!Connected, Kills!Drain, KP!Drain, Kills!Sessions, KP!Sessions,
         Kills!Message, KP!Message, Kills!Carried, KP!Carried

LEMMA SessionInit == LuaInit => SessionInv
BY SessionConstants, CallsSame, WaitsSame, KillsSame, CP!TableInit, CP!LedgerInit, WP!TableInit,
   WP!LedgerInit, KP!TableInit DEF LuaInit, SessionInv

\* A step of another component is none of the services.
LEMMA SessionSteps ==
    ASSUME [LuaNext]_lua
    PROVE  /\ part' = part
           /\ part = "calls" => [CP!Next]_CP!vars
           /\ part = "waits" => [WP!Next]_WP!vars
           /\ part = "kills" => [KP!Next]_KP!vars
<1>1. /\ part' = part
      /\ part = "calls" => Calls!Next \/ UNCHANGED session_vars
      /\ part = "waits" => Waits!Next \/ UNCHANGED session_vars
      /\ part = "kills" => Kills!Next \/ UNCHANGED session_vars
  BY DEF LuaNext, In, lua
<1> QED
  BY ONLY <1>1, CallsSame, WaitsSame, KillsSame
     DEF session_vars, CP!vars, CP!context, CP!threads, CP!duties, CP!pending, CP!history, WP!vars, WP!context, WP!threads, WP!duties, WP!pending, WP!history, KP!vars, KP!context, KP!threads, KP!duties, KP!pending, KP!history

LEMMA SessionStep == ASSUME SessionInv, [LuaNext]_lua PROVE SessionInv'
<1>1. part' = part
  BY SessionSteps
<1>2. CASE part = "calls"
  <2>1. CP!TableInv /\ CP!LedgerInv /\ [CP!Next]_CP!vars
    BY <1>2, SessionSteps DEF SessionInv
  <2>2. CP!TableInv'
    BY <2>1, SessionConstants, CP!TableStep
  <2> QED BY <1>1, <1>2, <2>1, <2>2, SessionConstants, CP!LedgerStep DEF SessionInv
<1>3. CASE part = "waits"
  <2>1. WP!TableInv /\ WP!LedgerInv /\ [WP!Next]_WP!vars
    BY <1>3, SessionSteps DEF SessionInv
  <2>2. WP!TableInv'
    BY <2>1, SessionConstants, WP!TableStep
  <2> QED BY <1>1, <1>3, <2>1, <2>2, SessionConstants, WP!LedgerStep DEF SessionInv
<1>4. CASE part = "kills"
  BY <1>1, <1>4, SessionSteps, SessionConstants, KP!TableStep DEF SessionInv
<1> QED BY <1>1, <1>2, <1>3, <1>4 DEF SessionInv

LEMMA SessionInvariant == LuaSpec => []SessionInv
BY SessionInit, SessionStep, PTL DEF LuaSpec

\* No request is answered twice or left behind by all who could answer it.
THEOREM AnswersOnce == LuaSpec => []AnsweredOnce
<1>1. SessionInv => AnsweredOnce
  BY CallsSays DEF SessionInv, AnsweredOnce
<1> QED BY <1>1, SessionInvariant, PTL

\* The tables of sessions agree with where the coroutines are, and each message
\* is done when all it led to is done.
THEOREM TablesConnected == LuaSpec => []Connected
<1>1. SessionInv => Connected
  BY CallsSays, WaitsSays, KillsSays DEF SessionInv, Connected
<1> QED BY <1>1, SessionInvariant, PTL
=============================================================================
