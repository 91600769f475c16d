------------------------------- MODULE RWLock -------------------------------
(***************************************************************************)
(* The spinning readers-writer lock of skynet-src/rwlock.h, one atomic     *)
(* operation of atomic.h per action.                                       *)
(*                                                                         *)
(* ATOM_CAS has two definitions in atomic.h.  Without C11 atomics it is    *)
(* the __sync builtin, which leaves the expected value alone.  With them   *)
(* it is atomic_compare_exchange_weak(ptr, &(oval), nval): a failure       *)
(* stores the value found into oval, which is the local variable clear of  *)
(* rwlock_wlock.  C11 says which build is meant.                           *)
(***************************************************************************)
EXTENDS Integers, FiniteSets

CONSTANTS Thread, C11

ASSUME LockAssumption == /\ IsFiniteSet(Thread)
                         /\ C11 \in BOOLEAN

VARIABLES write,   \* lock->write
          read,    \* lock->read
          lpc,     \* lpc[t]: where thread t is in the lock's functions
          clear    \* clear[t]: the local variable of rwlock_wlock

lockVars == <<write, read, lpc, clear>>

LockInit == /\ write = 0
            /\ read = 0
            /\ lpc = [t \in Thread |-> "out"]
            /\ clear = [t \in Thread |-> 0]

LockGoto(t, from, to) == /\ lpc[t] = from
                         /\ lpc' = [lpc EXCEPT ![t] = to]

-----------------------------------------------------------------------------
\* rwlock_rlock
BeginRead(t) == LockGoto(t, "out", "r_load") /\ UNCHANGED <<write, read, clear>>

\* Mutant: a reader announces itself without looking for a writer first.
ReadLoadBlind(t) == LockGoto(t, "r_load", "r_inc") /\ UNCHANGED <<write, read, clear>>

ReadLoad(t) == /\ write = 0
               /\ LockGoto(t, "r_load", "r_inc")
               /\ UNCHANGED <<write, read, clear>>

ReadInc(t) == /\ LockGoto(t, "r_inc", "r_check")
              /\ read' = read + 1
              /\ UNCHANGED <<write, clear>>

\* Mutant: the reader does not look again after it has announced itself.
ReadCheckBlind(t) == /\ LockGoto(t, "r_check", "reading")
                     /\ UNCHANGED <<write, read, clear>>

ReadCheck(t) == /\ LockGoto(t, "r_check", IF write # 0 THEN "r_back" ELSE "reading")
                /\ UNCHANGED <<write, read, clear>>

ReadBack(t) == /\ LockGoto(t, "r_back", "r_load")
               /\ read' = read - 1
               /\ UNCHANGED <<write, clear>>

\* rwlock_runlock
ReadUnlock(t) == /\ LockGoto(t, "reading", "out")
                 /\ read' = read - 1
                 /\ UNCHANGED <<write, clear>>

-----------------------------------------------------------------------------
\* rwlock_wlock
BeginWrite(t) == /\ LockGoto(t, "out", "w_cas")
                 /\ clear' = [clear EXCEPT ![t] = 0]
                 /\ UNCHANGED <<write, read>>

WriteCas(t) == /\ write = clear[t]
               /\ LockGoto(t, "w_cas", "w_wait")
               /\ write' = 1
               /\ UNCHANGED <<read, clear>>

\* The exchange fails; a weak one that fails although the values agree
\* changes nothing.
WriteCasFails(t) == /\ lpc[t] = "w_cas"
                    /\ write # clear[t]
                    /\ clear' = IF C11 THEN [clear EXCEPT ![t] = write] ELSE clear
                    /\ UNCHANGED <<write, read, lpc>>

WriteWait(t) == /\ read = 0
                /\ LockGoto(t, "w_wait", "writing")
                /\ UNCHANGED <<write, read, clear>>

\* rwlock_wunlock
WriteUnlock(t) == /\ LockGoto(t, "writing", "out")
                  /\ write' = 0
                  /\ UNCHANGED <<read, clear>>

-----------------------------------------------------------------------------
\* Steps towards the lock, and the whole life of a client.
LockStep(t) == \/ ReadLoad(t) \/ ReadInc(t) \/ ReadCheck(t) \/ ReadBack(t)
               \/ WriteCas(t) \/ WriteCasFails(t) \/ WriteWait(t)

LockNext == \E t \in Thread : \/ BeginRead(t) \/ BeginWrite(t)
                              \/ LockStep(t)
                              \/ ReadUnlock(t) \/ WriteUnlock(t)

LockSpec == LockInit /\ [][LockNext]_lockVars

-----------------------------------------------------------------------------
LockTypeOK ==
    /\ write \in {0, 1}
    /\ read \in Nat
    /\ lpc \in [Thread -> {"out", "r_load", "r_inc", "r_check", "r_back", "reading",
                           "w_cas", "w_wait", "writing"}]
    /\ clear \in [Thread -> {0, 1}]

\* A writer is alone: the table it changes is seen by nobody in between.
MutualExclusion ==
    \A t, u \in Thread :
        t # u /\ lpc[t] = "writing" => lpc[u] \notin {"reading", "writing"}

\* The threads that count in lock->read, and those that have set lock->write.
Readers == {t \in Thread : lpc[t] \in {"r_check", "r_back", "reading"}}
Writers == {t \in Thread : lpc[t] \in {"w_wait", "writing"}}

\* The inductive invariant behind MutualExclusion: the two words of the lock
\* say how many threads are where.
LockInv == /\ LockTypeOK
           /\ read = Cardinality(Readers)
           /\ write = Cardinality(Writers)
           /\ \A t \in Thread : clear[t] = 0
           /\ \A t, u \in Thread : lpc[t] = "writing" => lpc[u] # "reading"

\* A writer that has announced itself gets in, however many readers come:
\* they give way.
WriterEnters == \A t \in Thread : lpc[t] = "w_wait" ~> lpc[t] = "writing"
=============================================================================
