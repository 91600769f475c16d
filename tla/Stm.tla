----------------------------------- MODULE Stm -----------------------------------
\* Shared objects (lualib-src/lua-stm.c): one writer replaces the copy of an
\* object, readers in other services hold a reference of the object each and one
\* of the copy they read last.  The lock is taken as one that works (RWLock).
EXTENDS Integers, FiniteSets

CONSTANTS
    Reader,             \* boxes of readers, each made from one stm.copy
    Addr,               \* where copies may be allocated
    MaxVersion          \* bound on the updates

Writer == "writer"
StmAssumption ==
    /\ Reader # {} /\ IsFiniteSet(Reader) /\ Writer \notin Reader
    /\ Addr \subseteq Nat \ {0} /\ MaxVersion \in Nat \ {0}

Thread == Reader \cup {Writer}

VARIABLES
    reference, copy, freed,     \* stm_object: its counter, its copy (0: NULL), whether it was freed
    inside, write,              \* its lock: the threads that read, whether one writes
    creference, version,        \* stm_copy at each address: its counter (0: no copy there), what it holds
    last_version,               \* of the last update
    pc, ret, lastcopy,          \* of each thread: its place, the copy in its hands, box->lastcopy
    box,                        \* reader that the writer makes a box for
    heard, missed               \* version each reader was given last; readers told wrongly of no update

object == <<reference, copy, freed>>
lock == <<inside, write>>
copies == <<creference, version, last_version>>
local == <<pc, ret, lastcopy, box>>
seen == <<heard, missed>>
vars == <<object, lock, copies, local, seen>>

Init ==
    /\ reference = 1 /\ freed = FALSE /\ inside = {} /\ write = FALSE
    /\ \E a \in Addr : /\ copy = a
                       /\ creference = [b \in Addr |-> IF b = a THEN 1 ELSE 0]
                       /\ version = [b \in Addr |-> IF b = a THEN 1 ELSE 0]
    /\ last_version = 1
    /\ pc = [t \in Thread |-> IF t = Writer THEN "idle" ELSE "none"]
    /\ ret = [t \in Thread |-> 0] /\ lastcopy = [t \in Thread |-> 0] /\ box = Writer
    /\ heard = [r \in Reader |-> 0] /\ missed = {}

Goto(t, l) == pc' = [pc EXCEPT ![t] = l]
Drop(c, a) == IF a = 0 THEN c ELSE [c EXCEPT ![a] = @ - 1]

------------------------------------------------------------------------------
\* The lock.

rlock(t) == ~write /\ inside' = inside \cup {t} /\ write' = write
runlock(t) == inside' = inside \ {t} /\ write' = write
wlock == ~write /\ inside = {} /\ write' = TRUE /\ inside' = inside
wunlock == write' = FALSE /\ inside' = inside

------------------------------------------------------------------------------
\* The writer.

\* stm_grab, for a box of reader r.
GrabLock(r) ==
    /\ pc[Writer] = "idle" /\ pc[r] = "none" /\ rlock(Writer)
    /\ pc' = [pc EXCEPT ![Writer] = "grab", ![r] = "sent"] /\ box' = r
    /\ UNCHANGED <<object, copies, ret, lastcopy, seen>>
Grab ==
    /\ pc[Writer] = "grab" /\ Goto(Writer, "grabbed") /\ reference' = reference + 1
    /\ UNCHANGED <<copy, freed, lock, copies, ret, lastcopy, box, seen>>
GrabUnlock ==
    /\ pc[Writer] = "grabbed" /\ runlock(Writer)
    /\ pc' = [pc EXCEPT ![Writer] = "idle", ![box] = "idle"]
    /\ UNCHANGED <<object, copies, ret, lastcopy, box, seen>>

\* stm_update: the new copy is allocated, then put in.
Update(a) ==
    /\ pc[Writer] = "idle" /\ creference[a] = 0 /\ last_version < MaxVersion /\ Goto(Writer, "update")
    /\ creference' = [creference EXCEPT ![a] = 1] /\ version' = [version EXCEPT ![a] = last_version + 1]
    /\ ret' = [ret EXCEPT ![Writer] = a]
    /\ UNCHANGED <<object, lock, last_version, lastcopy, box, seen>>
UpdateLock ==
    /\ pc[Writer] = "update" /\ wlock /\ Goto(Writer, "swap")
    /\ UNCHANGED <<object, copies, ret, lastcopy, box, seen>>
Swap ==
    /\ pc[Writer] = "swap" /\ wunlock /\ Goto(Writer, "release_old")
    /\ copy' = ret[Writer] /\ ret' = [ret EXCEPT ![Writer] = copy] /\ last_version' = last_version + 1
    /\ UNCHANGED <<reference, freed, creference, version, lastcopy, box, seen>>
ReleaseOld ==
    /\ pc[Writer] = "release_old" /\ Goto(Writer, "idle")
    /\ creference' = Drop(creference, ret[Writer]) /\ ret' = [ret EXCEPT ![Writer] = 0]
    /\ UNCHANGED <<object, lock, version, last_version, lastcopy, box, seen>>

\* stm_release: ldeletewriter.
ReleaseLock ==
    /\ pc[Writer] = "idle" /\ wlock /\ Goto(Writer, "release")
    /\ UNCHANGED <<object, copies, ret, lastcopy, box, seen>>
Release ==
    /\ pc[Writer] = "release" /\ copy' = 0 /\ reference' = reference - 1
    /\ creference' = Drop(creference, copy)
    /\ IF reference > 1 THEN Goto(Writer, "unlock") /\ UNCHANGED freed
                        ELSE Goto(Writer, "gone") /\ freed' = TRUE
    /\ UNCHANGED <<lock, version, last_version, ret, lastcopy, box, seen>>
ReleaseUnlock ==
    /\ pc[Writer] = "unlock" /\ wunlock /\ Goto(Writer, "gone")
    /\ UNCHANGED <<object, copies, ret, lastcopy, box, seen>>

------------------------------------------------------------------------------
\* Readers.

\* Mutant: the lock is not taken.
ReadUnlocked(r) ==
    /\ pc[r] = "idle" /\ Goto(r, "copy")
    /\ UNCHANGED <<object, lock, copies, ret, lastcopy, box, seen>>
\* lread: stm_copy, then the comparison with the copy read before.
ReadLock(r) ==
    /\ pc[r] = "idle" /\ rlock(r) /\ Goto(r, "copy")
    /\ UNCHANGED <<object, copies, ret, lastcopy, box, seen>>
Copy(r) ==
    /\ pc[r] = "copy" /\ ret' = [ret EXCEPT ![r] = copy]
    /\ Goto(r, IF copy = 0 THEN "copied" ELSE "count")
    /\ UNCHANGED <<object, lock, copies, lastcopy, box, seen>>
Count(r) ==
    /\ pc[r] = "count" /\ Goto(r, "copied")
    /\ creference' = [creference EXCEPT ![ret[r]] = @ + 1]
    /\ UNCHANGED <<object, lock, version, last_version, ret, lastcopy, box, seen>>
ReadUnlock(r) ==
    /\ pc[r] = "copied" /\ runlock(r) /\ Goto(r, "compare")
    /\ UNCHANGED <<object, copies, ret, lastcopy, box, seen>>
Compare(r) ==
    /\ pc[r] = "compare" /\ Goto(r, "idle") /\ ret' = [ret EXCEPT ![r] = 0]
    /\ IF ret[r] = lastcopy[r]
       THEN /\ creference' = Drop(creference, ret[r])
            /\ missed' = IF ret[r] # 0 /\ version[ret[r]] # heard[r] THEN missed \cup {r} ELSE missed
            /\ UNCHANGED <<lastcopy, heard>>
       ELSE /\ creference' = Drop(creference, lastcopy[r])
            /\ lastcopy' = [lastcopy EXCEPT ![r] = ret[r]]
            /\ heard' = IF ret[r] # 0 THEN [heard EXCEPT ![r] = version[ret[r]]] ELSE heard
            /\ UNCHANGED missed
    /\ UNCHANGED <<object, lock, version, last_version, box>>

\* ldeletereader: stm_releasereader, then the copy.
DeleteLock(r) ==
    /\ pc[r] = "idle" /\ rlock(r) /\ Goto(r, "delete")
    /\ UNCHANGED <<object, copies, ret, lastcopy, box, seen>>
Delete(r) ==
    /\ pc[r] = "delete" /\ reference' = reference - 1
    /\ IF reference = 1 THEN Goto(r, "release_copy") /\ freed' = TRUE
                        ELSE Goto(r, "deleted") /\ UNCHANGED freed
    /\ UNCHANGED <<copy, lock, copies, ret, lastcopy, box, seen>>
DeleteUnlock(r) ==
    /\ pc[r] = "deleted" /\ runlock(r) /\ Goto(r, "release_copy")
    /\ UNCHANGED <<object, copies, ret, lastcopy, box, seen>>
ReleaseCopy(r) ==
    /\ pc[r] = "release_copy" /\ Goto(r, "gone")
    /\ creference' = Drop(creference, lastcopy[r]) /\ lastcopy' = [lastcopy EXCEPT ![r] = 0]
    /\ UNCHANGED <<object, lock, version, last_version, ret, box, seen>>

Next ==
    \/ Grab \/ GrabUnlock \/ UpdateLock \/ Swap \/ ReleaseOld \/ ReleaseLock \/ Release \/ ReleaseUnlock
    \/ \E a \in Addr : Update(a)
    \/ \E r \in Reader :
        \/ GrabLock(r) \/ ReadLock(r) \/ Copy(r) \/ Count(r) \/ ReadUnlock(r) \/ Compare(r)
        \/ DeleteLock(r) \/ Delete(r) \/ DeleteUnlock(r) \/ ReleaseCopy(r)
Spec == Init /\ [][Next]_vars

------------------------------------------------------------------------------
\* Properties.

\* A copy is counted once for the object and once for each box and thread that
\* has it, so that it is freed with its last user and not before; and it is still
\* there when a reader counts it (the assertion of stm_copy).
CopiesCounted ==
    /\ \A a \in Addr :
          creference[a] = (IF copy = a THEN 1 ELSE 0)
                        + Cardinality({t \in Thread : ret[t] = a /\ pc[t] # "count"})
                        + Cardinality({t \in Thread : lastcopy[t] = a})
    /\ \A r \in Reader : pc[r] = "count" => creference[ret[r]] > 0

\* A reader who is told that nothing was updated has the copy there is.
UpdateHeard == missed = {}

\* When everybody has let go the object and its copies are free.
AllFreed ==
    (\A t \in Thread : pc[t] \in {"none", "gone"}) => freed /\ \A a \in Addr : creference[a] = 0

\* The object is not used any more when it is freed.
UnusedWhenFreed == freed => \A t \in Thread : pc[t] \in {"none", "release_copy", "gone"}

==================================================================================
