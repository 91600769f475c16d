--------------------------- MODULE CriticalSection ---------------------------
\* skynet.queue (lualib/skynet/queue.lua): a critical section for the coroutines
\* of a service, in which a thread may nest calls.  Threads switch only where a
\* function waits, so what happens between two waits is one action.
EXTENDS Integers, Sequences

CONSTANTS
    Thread,
    MaxNest,  \* bound on the calls nested in one section
    CanKill,  \* threads may be killed (skynet.killthread)
    None

ASSUME CriticalSectionAssumption ==
    None \notin Thread /\ MaxNest \in Nat /\ CanKill \in BOOLEAN

VARIABLES current_thread, ref, thread_queue,
          at,     \* a thread is out, waits, is woken, in the section or dead
          nested  \* calls nested so far

vars == <<current_thread, ref, thread_queue, at, nested>>

Init ==
    /\ current_thread = None /\ ref = 0 /\ thread_queue = <<>>
    /\ at = [t \in Thread |-> "out"] /\ nested = 0

Goto(t, p) == at' = [at EXCEPT ![t] = p]

Call(t) ==
    /\ at[t] = "out"
    /\ IF current_thread # None /\ current_thread # t
       THEN /\ thread_queue' = Append(thread_queue, t) /\ Goto(t, "wait")
            /\ UNCHANGED <<current_thread, ref, nested>>
       ELSE /\ current_thread' = t /\ ref' = ref + 1 /\ nested' = 0 /\ Goto(t, "in")
            /\ UNCHANGED thread_queue

\* skynet.wait returns.
Resume(t) ==
    /\ at[t] = "woken"
    /\ current_thread' = t /\ ref' = ref + 1 /\ nested' = 0 /\ Goto(t, "in")
    /\ UNCHANGED thread_queue

\* A call of the section by the thread that is in it.
Nest(t) ==
    /\ at[t] = "in" /\ nested < MaxNest
    /\ ref' = ref + 1 /\ nested' = nested + 1
    /\ UNCHANGED <<current_thread, thread_queue, at>>

\* Mutant: table.remove(thread_queue), which takes the last.
HandOnLast(t) ==
    LET n == Len(thread_queue)
        next == IF n = 0 THEN None ELSE thread_queue[n]
    IN /\ current_thread' = next
       /\ thread_queue' = IF n = 0 THEN <<>> ELSE SubSeq(thread_queue, 1, n - 1)
       /\ at' = [u \in Thread |-> IF u = t THEN "out" ELSE IF u = next THEN "woken" ELSE at[u]]

\* The end of the outermost call wakes the next thread, if it still waits.
NextThread == IF thread_queue = <<>> THEN None ELSE Head(thread_queue)
HandOn(t) ==
    /\ current_thread' = NextThread
    /\ thread_queue' = IF thread_queue = <<>> THEN <<>> ELSE Tail(thread_queue)
    /\ at' = [u \in Thread |-> IF u = t THEN "out"
                               ELSE IF u = NextThread /\ at[u] = "wait" THEN "woken" ELSE at[u]]

\* The function returns or fails: xpcall_ret.
Return(t) ==
    /\ at[t] = "in"
    /\ ref' = ref - 1
    /\ IF ref' = 0 THEN HandOn(t) ELSE UNCHANGED <<current_thread, thread_queue, at>>
    /\ UNCHANGED nested

Kill(t) ==
    /\ CanKill /\ at[t] \in {"wait", "woken", "in"}
    /\ Goto(t, "dead")
    /\ UNCHANGED <<current_thread, ref, thread_queue, nested>>

Next == \E t \in Thread : Call(t) \/ Resume(t) \/ Nest(t) \/ Return(t) \/ Kill(t)

Spec == Init /\ [][Next]_vars
------------------------------------------------------------------------------
\* Properties.

TypeOK ==
    /\ current_thread \in Thread \cup {None} /\ ref \in Nat
    /\ thread_queue \in Seq(Thread)
    /\ at \in [Thread -> {"out", "wait", "woken", "in", "dead"}]
    /\ nested \in Nat

\* Two threads are never in the section at once, whoever is killed.
MutualExclusion == \A t, u \in Thread : at[t] = "in" /\ at[u] = "in" => t = u

\* assert(ref == 0): a woken thread finds the section free and its own.
WokenIsNext == \A t \in Thread : at[t] = "woken" => ref = 0 /\ current_thread = t

\* The lock that the section is meant to be: a holder, and a line of those who
\* have asked for it.  A woken thread stands first in the line.
woken == current_thread # None /\ ref = 0
holder == IF ref > 0 THEN current_thread ELSE None
line == IF woken THEN <<current_thread>> \o thread_queue ELSE thread_queue

FifoInit == holder = None /\ line = <<>>

InLine(t) == \E k \in 1 .. Len(line) : line[k] = t

TakeFree(t) == holder = None /\ line = <<>> /\ holder' = t /\ line' = line
Ask(t) == t # holder /\ ~InLine(t) /\ line' = Append(line, t) /\ holder' = holder
Grant == holder = None /\ line # <<>> /\ holder' = Head(line) /\ line' = Tail(line)
Release == holder # None /\ holder' = None /\ line' = line

FifoNext == Grant \/ Release \/ \E t \in Thread : TakeFree(t) \/ Ask(t)

\* Without kills the section is that lock: it goes from one thread to the next in
\* the order of their calls.
HandedOnInOrder == FifoInit /\ [][FifoNext]_<<holder, line>>

==============================================================================
