------------------------------- MODULE StmProof -------------------------------
(***************************************************************************)
(* Proofs about the shared objects of stm (Stm): for any readers, copies   *)
(* and updates, a copy is freed with its last user, and not before.        *)
(***************************************************************************)
EXTENDS Stm, FiniteSetTheorems, TLAPS

Copies == Addr \cup {0}
Place == {"none", "sent", "idle", "copy", "count", "copied", "compare", "delete", "deleted",
          "release_copy", "gone", "grab", "grabbed", "update", "swap", "release_old", "release",
          "unlock"}

StmTypes ==
    /\ reference \in Nat /\ freed \in BOOLEAN /\ copy \in Copies
    /\ inside \subseteq Thread /\ write \in BOOLEAN
    /\ creference \in [Addr -> Nat] /\ version \in [Addr -> Nat] /\ last_version \in Nat
    /\ ret \in [Thread -> Copies] /\ lastcopy \in [Thread -> Copies]
    /\ pc \in [Thread -> Place] /\ box \in Thread /\ heard \in [Reader -> Nat]
    /\ pc[Writer] \in {"idle", "grab", "grabbed", "update", "swap", "release_old", "release",
                           "unlock", "gone"}
    /\ \A r \in Reader : pc[r] \notin {"grab", "grabbed", "update", "swap", "release_old", "release",
                                       "unlock"}

\* The writer is alone where it changes the copy, and a reader is in the lock
\* from before it looks at the copy until it has counted it.
Locked ==
    /\ write => inside = {}
    /\ pc[Writer] \in {"swap", "release", "unlock"} => write
    /\ pc[Writer] \in {"grab", "grabbed"} =>
          Writer \in inside /\ box \in Reader /\ pc[box] = "sent"
    /\ \A r \in Reader :
          /\ pc[r] \in {"copy", "count", "copied", "delete", "deleted"} => r \in inside
          /\ pc[r] = "count" => ret[r] = copy /\ copy # 0
          /\ pc[r] = "sent" => pc[Writer] \in {"grab", "grabbed"} /\ r = box

\* What is in whose hands, and what a reader has been told it is.
Hands ==
    /\ ret[Writer] # 0 => pc[Writer] \in {"update", "swap", "release_old"}
    /\ lastcopy[Writer] = 0
    /\ pc[Writer] \in {"unlock", "gone"} => copy = 0
    /\ \A r \in Reader :
          /\ ret[r] # 0 => pc[r] \in {"count", "copied", "compare"}
          /\ lastcopy[r] # 0 => /\ pc[r] \notin {"none", "sent", "gone"}
                                /\ version[lastcopy[r]] = heard[r]
    /\ missed = {}

\* A copy is counted for the object, each hand that has counted it and each box.
One(p) == IF p THEN 1 ELSE 0
Has(t, a) == ret[t] = a /\ pc[t] # "count"
Taken(a) == {t \in Thread : Has(t, a)}
Last(a) == {t \in Thread : lastcopy[t] = a}
Counted ==
    \A a \in Addr : creference[a] = One(copy = a) + Cardinality(Taken(a)) + Cardinality(Last(a))

\* The object is counted for the writer and each reader that has been sent it.
Holds(r) == \/ pc[r] \in {"idle", "copy", "count", "copied", "compare", "delete"}
            \/ pc[r] = "sent" /\ pc[Writer] = "grabbed"
Holding == {r \in Reader : Holds(r)}
Referenced ==
    /\ reference = One(pc[Writer] \notin {"unlock", "gone"}) + Cardinality(Holding)
    /\ freed <=> reference = 0

\* Who is still in the lock after giving up its reference finds the object there:
\* the writer, and the reader when there is one.
InUse ==
    /\ pc[Writer] = "unlock" => reference > 0
    /\ (\A r, s \in Reader : r = s) => \A r \in Reader : pc[r] = "deleted" => reference > 0

StmInv == StmTypes /\ Locked /\ Hands /\ Counted /\ Referenced /\ InUse

LEMMA StmConstants ==
  ASSUME StmAssumption
  PROVE  /\ Writer \notin Reader /\ Writer \in Thread /\ Thread = Reader \cup {Writer}
         /\ IsFiniteSet(Thread) /\ IsFiniteSet(Reader) /\ 0 \notin Addr /\ Addr \subseteq Nat
<1>1. IsFiniteSet(Reader) /\ Writer \notin Reader /\ Addr \subseteq Nat \ {0}
  BY DEF StmAssumption
<1>2. IsFiniteSet(Reader \cup {Writer})
  BY <1>1, FS_AddElement
<1> QED
  BY <1>1, <1>2 DEF Thread

\* A set in which one member changes.
LEMMA OneMoves ==
  ASSUME NEW T, IsFiniteSet(T), NEW A \in SUBSET T, NEW B \in SUBSET T, NEW t,
         \A u \in T : u # t => (u \in A <=> u \in B)
  PROVE  /\ Cardinality(A) \in Nat /\ Cardinality(B) \in Nat
         /\ Cardinality(B) = Cardinality(A) - (IF t \in A THEN 1 ELSE 0) + (IF t \in B THEN 1 ELSE 0)
         /\ t \in A => Cardinality(A) > 0
<1>1. IsFiniteSet(A) /\ IsFiniteSet(B)
  BY FS_Subset
<1>2. Cardinality(A) \in Nat /\ Cardinality(B) \in Nat
  BY <1>1, FS_CardinalityType
<1>3. A \ {t} = B \ {t}
  OBVIOUS
<1>4. /\ Cardinality(A \ {t}) = IF t \in A THEN Cardinality(A) - 1 ELSE Cardinality(A)
      /\ Cardinality(B \ {t}) = IF t \in B THEN Cardinality(B) - 1 ELSE Cardinality(B)
  BY <1>1, FS_RemoveElement
<1>5. t \in A => Cardinality(A) # 0
  BY <1>1, FS_EmptySet
<1>6. CASE t \in A
  BY <1>2, <1>3, <1>4, <1>5, <1>6
<1>7. CASE t \notin A
  BY <1>2, <1>3, <1>4, <1>7
<1> QED
  BY <1>6, <1>7

\* What the counts are after a step in which one thread takes or gives something.
LEMMA CountsMove ==
  ASSUME StmAssumption, NEW t \in Thread, NEW a \in Addr,
         \A u \in Thread \ {t} : /\ Has(u, a)' <=> Has(u, a)
                                 /\ (lastcopy'[u] = a) <=> (lastcopy[u] = a)
  PROVE  /\ Cardinality(Taken(a)) \in Nat /\ Cardinality(Last(a)) \in Nat
         /\ Cardinality(Taken(a))' = Cardinality(Taken(a)) - One(Has(t, a)) + One(Has(t, a)')
         /\ Cardinality(Last(a))' = Cardinality(Last(a)) - One(lastcopy[t] = a) + One(lastcopy'[t] = a)
         /\ Has(t, a) => Cardinality(Taken(a)) > 0
         /\ lastcopy[t] = a => Cardinality(Last(a)) > 0
<1> DEFINE A == Taken(a)
           B == {u \in Thread : Has(u, a)'}
           C == Last(a)
           D == {u \in Thread : lastcopy'[u] = a}
<1>1. /\ A \in SUBSET Thread /\ B \in SUBSET Thread /\ C \in SUBSET Thread /\ D \in SUBSET Thread
      /\ \A u \in Thread : u # t => (u \in A <=> u \in B) /\ (u \in C <=> u \in D)
  BY DEF Taken, Last
<1>2. /\ t \in A <=> Has(t, a)
      /\ t \in B <=> Has(t, a)'
      /\ t \in C <=> lastcopy[t] = a
      /\ t \in D <=> lastcopy'[t] = a
  BY DEF Taken, Last
<1>3. B = Taken(a)' /\ D = Last(a)'
  BY DEF Taken, Last
<1> HIDE DEF A, B, C, D
<1>4. /\ Cardinality(A) \in Nat
      /\ Cardinality(B) = Cardinality(A) - (IF t \in A THEN 1 ELSE 0) + (IF t \in B THEN 1 ELSE 0)
      /\ t \in A => Cardinality(A) > 0
  BY <1>1, StmConstants, OneMoves
<1>5. /\ Cardinality(C) \in Nat
      /\ Cardinality(D) = Cardinality(C) - (IF t \in C THEN 1 ELSE 0) + (IF t \in D THEN 1 ELSE 0)
      /\ t \in C => Cardinality(C) > 0
  BY <1>1, StmConstants, OneMoves
<1>6. /\ Cardinality(B) = Cardinality(A) - One(Has(t, a)) + One(Has(t, a)')
      /\ Cardinality(D) = Cardinality(C) - One(lastcopy[t] = a) + One(lastcopy'[t] = a)
  BY <1>2, <1>4, <1>5 DEF One
<1> QED
  BY <1>2, <1>3, <1>4, <1>5, <1>6 DEF A, C

\* What a step leaves alone that takes and gives no copy, or no reference of the object.
LEMMA CountedStays ==
  ASSUME Counted, UNCHANGED <<creference, copy, ret, lastcopy>>,
         \A u \in Thread : pc'[u] = "count" <=> pc[u] = "count"
  PROVE  Counted'
<1>1. \A a \in Addr : Taken(a)' = Taken(a) /\ Last(a)' = Last(a)
  BY DEF Taken, Last, Has
<1> QED
  BY <1>1 DEF Counted

LEMMA ReferencedStays ==
  ASSUME Referenced, UNCHANGED <<reference, freed>>,
         pc'[Writer] \in {"unlock", "gone"} <=> pc[Writer] \in {"unlock", "gone"},
         \A r \in Reader : Holds(r)' <=> Holds(r)
  PROVE  Referenced'
<1>1. Holding' = Holding
  BY DEF Holding
<1> QED
  BY <1>1 DEF Referenced, One

\* A step that only moves in and out of the lock.
LEMMA GrabLockStep ==
  ASSUME StmAssumption, StmInv, NEW r \in Reader, GrabLock(r)
  PROVE  StmInv'
<1>1. /\ pc[Writer] = "idle" /\ pc[r] = "none" /\ ~ write /\ inside' = inside \cup {Writer} /\ write' = write
      /\ pc' = [pc EXCEPT ![Writer] = "grab", ![r] = "sent"] /\ box' = r
      /\ UNCHANGED <<reference, copy, freed, creference, version, last_version, ret, lastcopy, heard, missed>>
  BY DEF GrabLock, rlock, object, copies, seen
<1>2. /\ Writer \notin Reader /\ Writer \in Thread /\ Thread = Reader \cup {Writer}
      /\ StmTypes /\ Locked /\ Hands /\ Counted /\ Referenced /\ InUse
  BY StmConstants DEF StmInv
<1>3. /\ pc' \in [Thread -> Place] /\ pc'[Writer] = "grab" /\ pc'[r] = "sent"
      /\ \A u \in Thread : u # Writer /\ u # r => pc'[u] = pc[u]
  BY <1>1, <1>2 DEF StmTypes, Place
<1>4. StmTypes'
  BY <1>1, <1>2, <1>3 DEF StmTypes
<1>5. Locked'
  BY <1>1, <1>2, <1>3 DEF Locked
<1>6. Hands'
  BY <1>1, <1>2, <1>3 DEF Hands
<1>7. Counted'
  BY <1>1, <1>2, <1>3, CountedStays
<1>8. Referenced'
  <2>1. \A u \in Reader : Holds(u)' <=> Holds(u)
    BY <1>1, <1>2, <1>3 DEF Holds, Locked
  <2> QED
    BY <1>1, <1>2, <1>3, <2>1, ReferencedStays
<1>9. InUse'
  BY <1>1, <1>2, <1>3 DEF InUse, Locked
<1> QED
  BY <1>4, <1>5, <1>6, <1>7, <1>8, <1>9 DEF StmInv

LEMMA GrabUnlockStep ==
  ASSUME StmAssumption, StmInv, GrabUnlock
  PROVE  StmInv'
<1>1. /\ pc[Writer] = "grabbed" /\ inside' = inside \ {Writer} /\ write' = write
      /\ pc' = [pc EXCEPT ![Writer] = "idle", ![box] = "idle"]
      /\ UNCHANGED <<reference, copy, freed, creference, version, last_version, ret, lastcopy, box, heard, missed>>
  BY DEF GrabUnlock, runlock, object, copies, seen
<1>2. /\ Writer \notin Reader /\ Writer \in Thread /\ Thread = Reader \cup {Writer}
      /\ StmTypes /\ Locked /\ Hands /\ Counted /\ Referenced /\ InUse
  BY StmConstants DEF StmInv
<1>3. box \in Reader /\ pc[box] = "sent"
  BY <1>1, <1>2 DEF Locked
<1>4. /\ pc' \in [Thread -> Place] /\ pc'[Writer] = "idle" /\ pc'[box] = "idle"
      /\ \A u \in Thread : u # Writer /\ u # box => pc'[u] = pc[u]
  BY <1>1, <1>2, <1>3 DEF StmTypes, Place
<1>5. StmTypes'
  BY <1>1, <1>2, <1>4 DEF StmTypes
<1>6. Locked'
  BY <1>1, <1>2, <1>3, <1>4 DEF Locked
<1>7. Hands'
  BY <1>1, <1>2, <1>3, <1>4 DEF Hands
<1>8. Counted'
  BY <1>1, <1>2, <1>3, <1>4, CountedStays
<1>9. Referenced'
  <2>1. \A u \in Reader : Holds(u)' <=> Holds(u)
    BY <1>1, <1>2, <1>3, <1>4 DEF Holds, Locked
  <2> QED
    BY <1>1, <1>2, <1>4, <2>1, ReferencedStays
<1>10. InUse'
  BY <1>1, <1>2, <1>3, <1>4 DEF InUse, Locked
<1> QED
  BY <1>5, <1>6, <1>7, <1>8, <1>9, <1>10 DEF StmInv

LEMMA WriterLockStep ==
  ASSUME StmAssumption, StmInv, UpdateLock \/ ReleaseLock \/ ReleaseUnlock
  PROVE  StmInv'
<1>1. /\ \/ pc[Writer] = "update" /\ pc' = [pc EXCEPT ![Writer] = "swap"] /\ inside = {} /\ write'
         \/ pc[Writer] = "idle" /\ pc' = [pc EXCEPT ![Writer] = "release"] /\ inside = {} /\ write'
         \/ pc[Writer] = "unlock" /\ pc' = [pc EXCEPT ![Writer] = "gone"] /\ ~ write'
      /\ inside' = inside /\ write' \in BOOLEAN
      /\ UNCHANGED <<reference, copy, freed, creference, version, last_version, ret, lastcopy, box, heard, missed>>
  BY DEF UpdateLock, ReleaseLock, ReleaseUnlock, wlock, wunlock, Goto, object, copies, seen
<1>2. /\ Writer \notin Reader /\ Writer \in Thread /\ Thread = Reader \cup {Writer}
      /\ StmTypes /\ Locked /\ Hands /\ Counted /\ Referenced /\ InUse
  BY StmConstants DEF StmInv
<1>3. /\ pc' \in [Thread -> Place] /\ \A u \in Thread : u # Writer => pc'[u] = pc[u]
      /\ \/ pc[Writer] = "update" /\ pc'[Writer] = "swap"
         \/ pc[Writer] = "idle" /\ pc'[Writer] = "release"
         \/ pc[Writer] = "unlock" /\ pc'[Writer] = "gone"
  BY <1>1, <1>2 DEF StmTypes, Place
<1>4. StmTypes'
  BY <1>1, <1>2, <1>3 DEF StmTypes
<1>5. Locked'
  BY <1>1, <1>2, <1>3 DEF Locked, StmTypes
<1>6. Hands'
  BY <1>1, <1>2, <1>3 DEF Hands
<1>7. Counted'
  BY <1>1, <1>2, <1>3, CountedStays
<1>8. Referenced'
  <2>1. \A u \in Reader : Holds(u)' <=> Holds(u)
    BY <1>1, <1>2, <1>3 DEF Holds
  <2> QED
    BY <1>1, <1>2, <1>3, <2>1, ReferencedStays
<1>9. InUse'
  BY <1>1, <1>2, <1>3 DEF InUse, Locked
<1> QED
  BY <1>4, <1>5, <1>6, <1>7, <1>8, <1>9 DEF StmInv

LEMMA ReaderLockStep ==
  ASSUME StmAssumption, StmInv, NEW r \in Reader,
         ReadLock(r) \/ ReadUnlock(r) \/ DeleteLock(r) \/ DeleteUnlock(r)
  PROVE  StmInv'
<1>1. /\ \/ pc[r] = "idle" /\ pc' = [pc EXCEPT ![r] = "copy"] /\ ~ write /\ inside' = inside \cup {r}
         \/ pc[r] = "copied" /\ pc' = [pc EXCEPT ![r] = "compare"] /\ inside' = inside \ {r}
         \/ pc[r] = "idle" /\ pc' = [pc EXCEPT ![r] = "delete"] /\ ~ write /\ inside' = inside \cup {r}
         \/ pc[r] = "deleted" /\ pc' = [pc EXCEPT ![r] = "release_copy"] /\ inside' = inside \ {r}
      /\ write' = write
      /\ UNCHANGED <<reference, copy, freed, creference, version, last_version, ret, lastcopy, box, heard, missed>>
  BY DEF ReadLock, ReadUnlock, DeleteLock, DeleteUnlock, rlock, runlock, Goto, object, copies, seen
<1>2. /\ Writer \notin Reader /\ Writer \in Thread /\ Thread = Reader \cup {Writer}
      /\ StmTypes /\ Locked /\ Hands /\ Counted /\ Referenced /\ InUse
  BY StmConstants DEF StmInv
<1>3. /\ pc' \in [Thread -> Place] /\ \A u \in Thread : u # r => pc'[u] = pc[u]
      /\ \/ pc[r] = "idle" /\ pc'[r] \in {"copy", "delete"}
         \/ pc[r] = "copied" /\ pc'[r] = "compare"
         \/ pc[r] = "deleted" /\ pc'[r] = "release_copy"
      /\ r # Writer /\ pc'[Writer] = pc[Writer]
  BY <1>1, <1>2 DEF StmTypes, Place
<1>4. StmTypes'
  BY <1>1, <1>2, <1>3 DEF StmTypes
<1>5. Locked'
  BY <1>1, <1>2, <1>3 DEF Locked
<1>6. Hands'
  BY <1>1, <1>2, <1>3 DEF Hands
<1>7. Counted'
  BY <1>1, <1>2, <1>3, CountedStays
<1>8. Referenced'
  <2>1. \A u \in Reader : Holds(u)' <=> Holds(u)
    BY <1>1, <1>2, <1>3 DEF Holds
  <2> QED
    BY <1>1, <1>2, <1>3, <2>1, ReferencedStays
<1>9. InUse'
  BY <1>1, <1>2, <1>3 DEF InUse, Locked
<1> QED
  BY <1>4, <1>5, <1>6, <1>7, <1>8, <1>9 DEF StmInv

\* A step in which one reader gets or loses its reference of the object.
LEMMA HoldingMoves ==
  ASSUME StmAssumption, NEW r \in Reader, \A u \in Reader \ {r} : Holds(u)' <=> Holds(u)
  PROVE  /\ Cardinality(Holding) \in Nat /\ Cardinality(Holding)' \in Nat
         /\ Cardinality(Holding)' = Cardinality(Holding) - (IF Holds(r) THEN 1 ELSE 0)
                                                         + (IF Holds(r)' THEN 1 ELSE 0)
         /\ Holds(r) => Cardinality(Holding) > 0
<1> DEFINE A == Holding
           B == {u \in Reader : Holds(u)'}
<1>1. /\ A \in SUBSET Reader /\ B \in SUBSET Reader
      /\ \A u \in Reader : u # r => (u \in A <=> u \in B)
      /\ r \in A <=> Holds(r)
      /\ r \in B <=> Holds(r)'
  BY DEF Holding
<1>2. B = Holding'
  BY DEF Holding
<1> HIDE DEF A, B
<1>3. /\ Cardinality(A) \in Nat /\ Cardinality(B) \in Nat
      /\ Cardinality(B) = Cardinality(A) - (IF r \in A THEN 1 ELSE 0) + (IF r \in B THEN 1 ELSE 0)
      /\ r \in A => Cardinality(A) > 0
  BY <1>1, StmConstants, OneMoves
<1> QED
  BY <1>1, <1>2, <1>3 DEF A

LEMMA GrabStep ==
  ASSUME StmAssumption, StmInv, Grab
  PROVE  StmInv'
<1>1. /\ pc[Writer] = "grab" /\ pc' = [pc EXCEPT ![Writer] = "grabbed"] /\ reference' = reference + 1
      /\ UNCHANGED <<copy, freed, inside, write, creference, version, last_version, ret, lastcopy,
                     box, heard, missed>>
  BY DEF Grab, Goto, lock, copies, seen
<1>2. /\ Writer \notin Reader /\ Writer \in Thread /\ Thread = Reader \cup {Writer}
      /\ StmTypes /\ Locked /\ Hands /\ Counted /\ Referenced /\ InUse
  BY StmConstants DEF StmInv
<1>3. /\ pc' \in [Thread -> Place] /\ pc'[Writer] = "grabbed"
      /\ \A u \in Thread : u # Writer => pc'[u] = pc[u]
  BY <1>1, <1>2 DEF StmTypes, Place
<1>4. box \in Reader /\ pc[box] = "sent" /\ \A r \in Reader : pc[r] = "sent" => r = box
  BY <1>1, <1>2 DEF Locked
<1>5. StmTypes'
  BY <1>1, <1>2, <1>3 DEF StmTypes
<1>6. Locked'
  BY <1>1, <1>2, <1>3 DEF Locked
<1>7. Hands'
  BY <1>1, <1>2, <1>3 DEF Hands
<1>8. Counted'
  BY <1>1, <1>2, <1>3, CountedStays
<1>9. Referenced'
  <2> PICK b \in Reader : b = box
    BY <1>4
  <2>1. /\ ~ Holds(b) /\ Holds(b)'
        /\ \A u \in Reader \ {b} : Holds(u)' <=> Holds(u)
    BY <1>1, <1>2, <1>3, <1>4 DEF Holds
  <2>2. Cardinality(Holding) \in Nat /\ Cardinality(Holding)' = Cardinality(Holding) + 1
    BY <2>1, HoldingMoves
  <2>3. reference = 1 + Cardinality(Holding) /\ ~ freed
    BY <1>1, <1>2, <2>2 DEF Referenced, One, StmTypes
  <2> QED
    BY <1>1, <1>3, <2>2, <2>3 DEF Referenced, One
<1>10. InUse'
  BY <1>1, <1>2, <1>3 DEF InUse, Locked
<1> QED
  BY <1>5, <1>6, <1>7, <1>8, <1>9, <1>10 DEF StmInv

LEMMA DeleteStep ==
  ASSUME StmAssumption, StmInv, NEW r \in Reader, Delete(r)
  PROVE  StmInv'
<1>1. /\ pc[r] = "delete" /\ reference' = reference - 1
      /\ IF reference = 1 THEN pc' = [pc EXCEPT ![r] = "release_copy"] /\ freed' = TRUE
                          ELSE pc' = [pc EXCEPT ![r] = "deleted"] /\ freed' = freed
      /\ UNCHANGED <<copy, inside, write, creference, version, last_version, ret, lastcopy, box,
                     heard, missed>>
  BY DEF Delete, Goto, lock, copies, seen
<1>2. /\ Writer \notin Reader /\ Writer \in Thread /\ Thread = Reader \cup {Writer}
      /\ StmTypes /\ Locked /\ Hands /\ Counted /\ Referenced /\ InUse
  BY StmConstants DEF StmInv
<1>3. /\ pc' \in [Thread -> Place] /\ pc'[r] \in {"deleted", "release_copy"}
      /\ \A u \in Thread : u # r => pc'[u] = pc[u]
      /\ r # Writer /\ pc'[Writer] = pc[Writer]
  BY <1>1, <1>2 DEF StmTypes, Place
<1>4. Referenced' /\ reference' \in Nat /\ reference \in Nat /\ reference > 0
  <2>1. /\ Holds(r) /\ ~ Holds(r)'
        /\ \A u \in Reader \ {r} : Holds(u)' <=> Holds(u)
    BY <1>1, <1>2, <1>3 DEF Holds
  <2>2. /\ Cardinality(Holding) \in Nat /\ Cardinality(Holding) > 0
        /\ Cardinality(Holding)' = Cardinality(Holding) - 1
    BY <2>1, HoldingMoves
  <2>3. /\ reference = One(pc[Writer] \notin {"unlock", "gone"}) + Cardinality(Holding)
        /\ reference > 0 /\ ~ freed
    BY <1>2, <2>2 DEF Referenced, One
  <2>4. reference' = One(pc[Writer] \notin {"unlock", "gone"}) + Cardinality(Holding)' /\ reference' \in Nat
    BY <1>1, <2>2, <2>3 DEF One
  <2>5. freed' <=> reference' = 0
    BY <1>1, <1>2, <2>3 DEF StmTypes
  <2> QED
    BY <1>2, <1>3, <2>3, <2>4, <2>5 DEF Referenced, StmTypes
<1>5. StmTypes'
  BY <1>1, <1>2, <1>3, <1>4 DEF StmTypes
<1>6. Locked'
  BY <1>1, <1>2, <1>3 DEF Locked
<1>7. Hands'
  BY <1>1, <1>2, <1>3 DEF Hands
<1>8. Counted'
  BY <1>1, <1>2, <1>3, CountedStays
<1>9. InUse'
  <2>1. pc'[Writer] # "unlock"
    BY <1>1, <1>2, <1>3 DEF Locked
  <2>2. pc'[r] = "deleted" => reference # 1
    BY <1>1, <1>2, <1>3 DEF StmTypes
  <2>3. pc'[r] = "deleted" => reference' > 0
    BY <1>1, <1>4, <2>2
  <2> QED
    BY <2>1, <2>3 DEF InUse
<1> QED
  BY <1>4, <1>5, <1>6, <1>7, <1>8, <1>9 DEF StmInv

\* A step in which thread t takes or gives copies, and leaves the object alone.
LEMMA CountedMoves ==
  ASSUME StmAssumption, StmTypes, Counted, NEW t \in Thread,
         creference' \in [Addr -> Int],
         \A u \in Thread \ {t} : ret'[u] = ret[u] /\ lastcopy'[u] = lastcopy[u] /\ pc'[u] = pc[u],
         \A a \in Addr : creference'[a] - One(copy' = a) - One(Has(t, a)') - One(lastcopy'[t] = a)
                       = creference[a] - One(copy = a) - One(Has(t, a)) - One(lastcopy[t] = a)
  PROVE  Counted' /\ creference' \in [Addr -> Nat]
<1>1. ASSUME NEW a \in Addr
      PROVE  /\ creference'[a] = One(copy' = a) + Cardinality(Taken(a))' + Cardinality(Last(a))'
             /\ creference'[a] \in Nat
  <2>1. \A u \in Thread \ {t} : /\ Has(u, a)' <=> Has(u, a)
                                /\ (lastcopy'[u] = a) <=> (lastcopy[u] = a)
    BY DEF Has
  <2>2. /\ Cardinality(Taken(a)) \in Nat /\ Cardinality(Last(a)) \in Nat
        /\ Cardinality(Taken(a))' = Cardinality(Taken(a)) - One(Has(t, a)) + One(Has(t, a)')
        /\ Cardinality(Last(a))' = Cardinality(Last(a)) - One(lastcopy[t] = a) + One(lastcopy'[t] = a)
        /\ Has(t, a) => Cardinality(Taken(a)) > 0
        /\ lastcopy[t] = a => Cardinality(Last(a)) > 0
    BY <2>1, CountsMove
  <2>3. creference[a] = One(copy = a) + Cardinality(Taken(a)) + Cardinality(Last(a))
    BY DEF Counted
  <2>4. /\ One(copy' = a) \in {0, 1} /\ One(copy = a) \in {0, 1}
        /\ One(Has(t, a)') \in {0, 1} /\ One(Has(t, a)) \in {0, 1}
        /\ One(lastcopy'[t] = a) \in {0, 1} /\ One(lastcopy[t] = a) \in {0, 1}
        /\ One(Has(t, a)) = 1 => Cardinality(Taken(a)) > 0
        /\ One(lastcopy[t] = a) = 1 => Cardinality(Last(a)) > 0
    BY <2>2 DEF One
  <2>5. creference'[a] \in Int /\ creference[a] \in Nat
    BY DEF StmTypes
  <2> QED
    BY <2>2, <2>3, <2>4, <2>5
<1> QED
  BY <1>1 DEF Counted

\* Whoever has a copy in its hands or its box keeps it counted.
LEMMA CountPositive ==
  ASSUME StmAssumption, StmTypes, Counted, NEW t \in Thread, NEW a \in Addr
  PROVE  /\ Has(t, a) \/ lastcopy[t] = a \/ copy = a => creference[a] > 0
         /\ Has(t, a) /\ lastcopy[t] = a => creference[a] > 1
<1>1. /\ Cardinality(Taken(a)) \in Nat /\ Cardinality(Last(a)) \in Nat
      /\ Has(t, a) => Cardinality(Taken(a)) > 0
      /\ lastcopy[t] = a => Cardinality(Last(a)) > 0
  <2>1. Taken(a) \in SUBSET Thread /\ Last(a) \in SUBSET Thread
    BY DEF Taken, Last
  <2>2. Has(t, a) <=> t \in Taken(a)
    BY DEF Taken
  <2>3. lastcopy[t] = a <=> t \in Last(a)
    BY DEF Last
  <2> QED
    BY <2>1, <2>2, <2>3, StmConstants, OneMoves
<1>2. creference[a] = One(copy = a) + Cardinality(Taken(a)) + Cardinality(Last(a))
  BY DEF Counted
<1> QED
  BY <1>1, <1>2 DEF One

LEMMA UpdateStep ==
  ASSUME StmAssumption, StmInv, NEW a \in Addr, Update(a)
  PROVE  StmInv'
<1>1. /\ pc[Writer] = "idle" /\ creference[a] = 0 /\ pc' = [pc EXCEPT ![Writer] = "update"]
      /\ creference' = [creference EXCEPT ![a] = 1] /\ version' = [version EXCEPT ![a] = last_version + 1]
      /\ ret' = [ret EXCEPT ![Writer] = a]
      /\ UNCHANGED <<reference, copy, freed, inside, write, last_version, lastcopy, box, heard, missed>>
  BY DEF Update, Goto, object, lock, seen
<1>2. /\ Writer \notin Reader /\ Writer \in Thread /\ Thread = Reader \cup {Writer}
      /\ StmTypes /\ Locked /\ Hands /\ Counted /\ Referenced /\ InUse /\ a # 0 /\ 0 \notin Addr
  BY StmConstants DEF StmInv
<1>3. /\ pc' \in [Thread -> Place] /\ pc'[Writer] = "update"
      /\ \A u \in Thread : u # Writer => pc'[u] = pc[u]
      /\ ret' \in [Thread -> Copies] /\ ret'[Writer] = a /\ ret[Writer] = 0
      /\ \A u \in Thread : u # Writer => ret'[u] = ret[u]
  BY <1>1, <1>2 DEF StmTypes, Place, Copies, Hands
<1>4. /\ creference' \in [Addr -> Nat] /\ version' \in [Addr -> Nat]
      /\ creference'[a] = 1
      /\ \A b \in Addr : b # a => creference'[b] = creference[b] /\ version'[b] = version[b]
  BY <1>1, <1>2 DEF StmTypes
<1>5. StmTypes'
  BY <1>1, <1>2, <1>3, <1>4 DEF StmTypes
<1>6. Locked'
  BY <1>1, <1>2, <1>3 DEF Locked
<1>7. Hands'
  <2>1. \A r \in Reader : lastcopy[r] # a
    BY <1>1, <1>2, CountPositive
  <2>2. \A r \in Reader : lastcopy[r] # 0 => lastcopy[r] \in Addr /\ lastcopy[r] # a
    BY <1>2, <2>1 DEF StmTypes, Copies
  <2> QED
    BY <1>1, <1>2, <1>3, <1>4, <2>2 DEF Hands
<1>8. Counted'
  <2>1. copy # a
    BY <1>1, <1>2, CountPositive
  <2>2. ASSUME NEW b \in Addr
        PROVE  creference'[b] - One(copy' = b) - One(Has(Writer, b)') - One(lastcopy'[Writer] = b)
             = creference[b] - One(copy = b) - One(Has(Writer, b)) - One(lastcopy[Writer] = b)
    <3>1. ~ Has(Writer, b) /\ (Has(Writer, b)' <=> b = a)
      BY <1>1, <1>2, <1>3 DEF Has
    <3>2. creference'[b] = creference[b] + (IF b = a THEN 1 ELSE 0)
      BY <1>1, <1>4 DEF StmTypes
    <3>3. creference[b] \in Nat
      BY <1>2 DEF StmTypes
    <3> QED
      BY <1>1, <3>1, <3>2, <3>3 DEF One
  <2>3. creference' \in [Addr -> Int]
    BY <1>4
  <2> QED
    BY <1>1, <1>2, <1>3, <2>2, <2>3, CountedMoves
<1>9. Referenced'
  BY <1>1, <1>2, <1>3, ReferencedStays DEF Holds
<1>10. InUse'
  BY <1>1, <1>2, <1>3 DEF InUse, Locked
<1> QED
  BY <1>5, <1>6, <1>7, <1>8, <1>9, <1>10 DEF StmInv

LEMMA SwapStep ==
  ASSUME StmAssumption, StmInv, Swap
  PROVE  StmInv'
<1>1. /\ pc[Writer] = "swap" /\ write' = FALSE /\ inside' = inside
      /\ pc' = [pc EXCEPT ![Writer] = "release_old"]
      /\ copy' = ret[Writer] /\ ret' = [ret EXCEPT ![Writer] = copy] /\ last_version' = last_version + 1
      /\ UNCHANGED <<reference, freed, creference, version, lastcopy, box, heard, missed>>
  BY DEF Swap, Goto, wunlock, seen
<1>2. /\ Writer \notin Reader /\ Writer \in Thread /\ Thread = Reader \cup {Writer}
      /\ StmTypes /\ Locked /\ Hands /\ Counted /\ Referenced /\ InUse
  BY StmConstants DEF StmInv
<1>3. /\ pc' \in [Thread -> Place] /\ pc'[Writer] = "release_old"
      /\ \A u \in Thread : u # Writer => pc'[u] = pc[u]
      /\ ret' \in [Thread -> Copies] /\ ret'[Writer] = copy
      /\ \A u \in Thread : u # Writer => ret'[u] = ret[u]
  BY <1>1, <1>2 DEF StmTypes, Place
<1>4. \A r \in Reader : pc[r] # "count"
  BY <1>1, <1>2 DEF Locked
<1>5. StmTypes'
  <2>1. copy' \in Copies
    BY <1>1, <1>2 DEF StmTypes
  <2>2. last_version' \in Nat
    BY <1>1, <1>2 DEF StmTypes
  <2>3. write' \in BOOLEAN
    BY <1>1
  <2> QED
    BY <1>1, <1>2, <1>3, <2>1, <2>2, <2>3 DEF StmTypes
<1>6. Locked'
  BY <1>1, <1>2, <1>3, <1>4 DEF Locked
<1>7. Hands'
  BY <1>1, <1>2, <1>3 DEF Hands
<1>8. Counted'
  <2>1. ASSUME NEW b \in Addr
        PROVE  creference'[b] - One(copy' = b) - One(Has(Writer, b)') - One(lastcopy'[Writer] = b)
             = creference[b] - One(copy = b) - One(Has(Writer, b)) - One(lastcopy[Writer] = b)
    <3>1. (Has(Writer, b) <=> copy' = b) /\ (Has(Writer, b)' <=> copy = b)
      BY <1>1, <1>2, <1>3 DEF Has
    <3>2. creference'[b] = creference[b] /\ creference[b] \in Nat
      BY <1>1, <1>2 DEF StmTypes
    <3> QED
      BY <1>1, <3>1, <3>2 DEF One
  <2>2. creference' \in [Addr -> Int]
    BY <1>1, <1>2 DEF StmTypes
  <2> QED
    BY <1>1, <1>2, <1>3, <2>1, <2>2, CountedMoves
<1>9. Referenced'
  BY <1>1, <1>2, <1>3, ReferencedStays DEF Holds
<1>10. InUse'
  BY <1>1, <1>2, <1>3 DEF InUse, Locked
<1> QED
  BY <1>5, <1>6, <1>7, <1>8, <1>9, <1>10 DEF StmInv

\* A count that is taken back.
LEMMA Dropped ==
  ASSUME StmAssumption, StmTypes, NEW a \in Copies
  PROVE  /\ Drop(creference, a) \in [Addr -> Int]
         /\ \A b \in Addr : Drop(creference, a)[b] = creference[b] - (IF b = a THEN 1 ELSE 0)
         /\ \A b \in Addr : creference[b] \in Nat
<1>1. CASE a = 0
  BY <1>1, StmConstants DEF Drop, StmTypes
<1>2. CASE a # 0
  BY <1>2 DEF Drop, StmTypes, Copies
<1> QED
  BY <1>1, <1>2

LEMMA ReleaseOldStep ==
  ASSUME StmAssumption, StmInv, ReleaseOld
  PROVE  StmInv'
<1>1. /\ pc[Writer] = "release_old" /\ pc' = [pc EXCEPT ![Writer] = "idle"]
      /\ creference' = Drop(creference, ret[Writer]) /\ ret' = [ret EXCEPT ![Writer] = 0]
      /\ UNCHANGED <<reference, copy, freed, inside, write, version, last_version, lastcopy, box,
                     heard, missed>>
  BY DEF ReleaseOld, Goto, object, lock, seen
<1>2. /\ Writer \notin Reader /\ Writer \in Thread /\ Thread = Reader \cup {Writer}
      /\ StmTypes /\ Locked /\ Hands /\ Counted /\ Referenced /\ InUse /\ 0 \notin Addr
  BY StmConstants DEF StmInv
<1>3. /\ pc' \in [Thread -> Place] /\ pc'[Writer] = "idle"
      /\ \A u \in Thread : u # Writer => pc'[u] = pc[u]
      /\ ret' \in [Thread -> Copies] /\ ret'[Writer] = 0 /\ ret[Writer] \in Copies
      /\ \A u \in Thread : u # Writer => ret'[u] = ret[u]
  BY <1>1, <1>2 DEF StmTypes, Place, Copies
<1>4. /\ creference' \in [Addr -> Int]
      /\ \A b \in Addr : creference[b] \in Nat
                         /\ creference'[b] = creference[b] - (IF b = ret[Writer] THEN 1 ELSE 0)
  BY <1>1, <1>2, <1>3, Dropped
<1>5. Counted' /\ creference' \in [Addr -> Nat]
  <2>1. ASSUME NEW b \in Addr
        PROVE  creference'[b] - One(copy' = b) - One(Has(Writer, b)') - One(lastcopy'[Writer] = b)
             = creference[b] - One(copy = b) - One(Has(Writer, b)) - One(lastcopy[Writer] = b)
    <3>1. (Has(Writer, b) <=> b = ret[Writer]) /\ ~ Has(Writer, b)'
      BY <1>1, <1>2, <1>3 DEF Has
    <3> QED
      BY <1>1, <1>4, <3>1 DEF One
  <2> QED
    BY <1>1, <1>2, <1>3, <1>4, <2>1, CountedMoves
<1>6. StmTypes'
  BY <1>1, <1>2, <1>3, <1>5 DEF StmTypes
<1>7. Locked'
  BY <1>1, <1>2, <1>3 DEF Locked
<1>8. Hands'
  BY <1>1, <1>2, <1>3 DEF Hands
<1>9. Referenced'
  BY <1>1, <1>2, <1>3, ReferencedStays DEF Holds
<1>10. InUse'
  BY <1>1, <1>2, <1>3 DEF InUse, Locked
<1> QED
  BY <1>5, <1>6, <1>7, <1>8, <1>9, <1>10 DEF StmInv

LEMMA ReleaseStep ==
  ASSUME StmAssumption, StmInv, Release
  PROVE  StmInv'
<1>1. /\ pc[Writer] = "release" /\ copy' = 0 /\ reference' = reference - 1
      /\ creference' = Drop(creference, copy)
      /\ IF reference > 1 THEN pc' = [pc EXCEPT ![Writer] = "unlock"] /\ freed' = freed
                          ELSE pc' = [pc EXCEPT ![Writer] = "gone"] /\ freed' = TRUE
      /\ UNCHANGED <<inside, write, version, last_version, ret, lastcopy, box, heard, missed>>
  BY DEF Release, Goto, lock, seen
<1>2. /\ Writer \notin Reader /\ Writer \in Thread /\ Thread = Reader \cup {Writer}
      /\ StmTypes /\ Locked /\ Hands /\ Counted /\ Referenced /\ InUse /\ 0 \notin Addr
  BY StmConstants DEF StmInv
<1>3. /\ pc' \in [Thread -> Place] /\ pc'[Writer] \in {"unlock", "gone"}
      /\ \A u \in Thread : u # Writer => pc'[u] = pc[u]
  BY <1>1, <1>2 DEF StmTypes, Place
<1>4. /\ creference' \in [Addr -> Int] /\ copy \in Copies
      /\ \A b \in Addr : creference[b] \in Nat
                         /\ creference'[b] = creference[b] - (IF b = copy THEN 1 ELSE 0)
  <2>1. copy \in Copies
    BY <1>2 DEF StmTypes
  <2> QED
    BY <1>1, <1>2, <2>1, Dropped
<1>5. Counted' /\ creference' \in [Addr -> Nat]
  <2>1. ASSUME NEW b \in Addr
        PROVE  creference'[b] - One(copy' = b) - One(Has(Writer, b)') - One(lastcopy'[Writer] = b)
             = creference[b] - One(copy = b) - One(Has(Writer, b)) - One(lastcopy[Writer] = b)
    <3>1. (Has(Writer, b)' <=> Has(Writer, b)) /\ copy' # b
      BY <1>1, <1>2, <1>3 DEF Has
    <3> QED
      BY <1>1, <1>4, <3>1 DEF One
  <2> QED
    BY <1>1, <1>2, <1>3, <1>4, <2>1, CountedMoves
<1>6. Locked'
  <2>1. \A r \in Reader : pc[r] # "count"
    BY <1>1, <1>2 DEF Locked
  <2> QED
    BY <1>1, <1>2, <1>3, <2>1 DEF Locked
<1>7. Hands'
  BY <1>1, <1>2, <1>3 DEF Hands
<1>8. Referenced' /\ reference' \in Nat
  <2>1. \A r \in Reader : Holds(r)' <=> Holds(r)
    BY <1>1, <1>2, <1>3 DEF Holds
  <2>2. Holding' = Holding /\ Cardinality(Holding) \in Nat
    <3>1. Holding' = Holding
      BY <2>1 DEF Holding
    <3>2. Holding \in SUBSET Reader
      BY DEF Holding
    <3> QED
      BY <3>1, <3>2, StmConstants, OneMoves
  <2>3. reference = 1 + Cardinality(Holding) /\ ~ freed
    BY <1>1, <1>2, <2>2 DEF Referenced, One
  <2>4. reference' = Cardinality(Holding)' /\ reference' \in Nat
    BY <1>1, <2>2, <2>3
  <2>5. freed' <=> reference' = 0
    BY <1>1, <2>2, <2>3
  <2> QED
    BY <1>3, <2>2, <2>4, <2>5 DEF Referenced, One
<1>9. StmTypes'
  <2>1. copy' \in Copies /\ freed' \in BOOLEAN
    BY <1>1, <1>2 DEF StmTypes, Copies
  <2>2. pc'[Writer] \in {"idle", "grab", "grabbed", "update", "swap", "release_old", "release",
                         "unlock", "gone"}
    BY <1>3
  <2> QED
    BY <1>1, <1>2, <1>3, <1>5, <1>8, <2>1, <2>2 DEF StmTypes
<1>10. InUse'
  <2>1. pc'[Writer] = "unlock" => reference > 1
    BY <1>1, <1>2, <1>3 DEF StmTypes
  <2>2. reference \in Nat
    BY <1>2 DEF StmTypes
  <2>3. \A r \in Reader : pc'[r] # "deleted"
    BY <1>1, <1>2, <1>3 DEF Locked
  <2> QED
    BY <1>1, <2>1, <2>2, <2>3 DEF InUse
<1> QED
  BY <1>5, <1>6, <1>7, <1>8, <1>9, <1>10 DEF StmInv

LEMMA CopyStep ==
  ASSUME StmAssumption, StmInv, NEW r \in Reader, Copy(r)
  PROVE  StmInv'
<1>1. /\ pc[r] = "copy" /\ ret' = [ret EXCEPT ![r] = copy]
      /\ pc' = [pc EXCEPT ![r] = IF copy = 0 THEN "copied" ELSE "count"]
      /\ UNCHANGED <<reference, copy, freed, inside, write, creference, version, last_version,
                     lastcopy, box, heard, missed>>
  BY DEF Copy, Goto, object, lock, copies, seen
<1>2. /\ Writer \notin Reader /\ Writer \in Thread /\ Thread = Reader \cup {Writer}
      /\ StmTypes /\ Locked /\ Hands /\ Counted /\ Referenced /\ InUse /\ 0 \notin Addr
  BY StmConstants DEF StmInv
<1>3. /\ pc' \in [Thread -> Place] /\ pc'[r] = (IF copy = 0 THEN "copied" ELSE "count")
      /\ \A u \in Thread : u # r => pc'[u] = pc[u] /\ ret'[u] = ret[u]
      /\ r # Writer /\ pc'[Writer] = pc[Writer] /\ ret'[Writer] = ret[Writer]
      /\ ret' \in [Thread -> Copies] /\ ret'[r] = copy /\ ret[r] = 0 /\ copy \in Copies
  BY <1>1, <1>2 DEF StmTypes, Place, Hands
<1>4. StmTypes'
  BY <1>1, <1>2, <1>3 DEF StmTypes
<1>5. Locked'
  BY <1>1, <1>2, <1>3 DEF Locked
<1>6. Hands'
  BY <1>1, <1>2, <1>3 DEF Hands
<1>7. Counted'
  <2>1. ASSUME NEW b \in Addr
        PROVE  creference'[b] - One(copy' = b) - One(Has(r, b)') - One(lastcopy'[r] = b)
             = creference[b] - One(copy = b) - One(Has(r, b)) - One(lastcopy[r] = b)
    <3>1. ~ Has(r, b) /\ ~ Has(r, b)'
      BY <1>1, <1>2, <1>3 DEF Has
    <3> QED
      BY <1>1, <3>1 DEF One
  <2>2. creference' \in [Addr -> Int]
    BY <1>1, <1>2 DEF StmTypes
  <2> QED
    BY <1>1, <1>2, <1>3, <2>1, <2>2, CountedMoves
<1>8. Referenced'
  <2>1. \A u \in Reader : Holds(u)' <=> Holds(u)
    BY <1>1, <1>2, <1>3 DEF Holds
  <2> QED
    BY <1>1, <1>2, <1>3, <2>1, ReferencedStays
<1>9. InUse'
  BY <1>1, <1>2, <1>3 DEF InUse, Locked
<1> QED
  BY <1>4, <1>5, <1>6, <1>7, <1>8, <1>9 DEF StmInv

LEMMA CountStep ==
  ASSUME StmAssumption, StmInv, NEW r \in Reader, Count(r)
  PROVE  StmInv'
<1>1. /\ pc[r] = "count" /\ pc' = [pc EXCEPT ![r] = "copied"]
      /\ creference' = [creference EXCEPT ![ret[r]] = @ + 1]
      /\ UNCHANGED <<reference, copy, freed, inside, write, version, last_version, ret, lastcopy,
                     box, heard, missed>>
  BY DEF Count, Goto, object, lock, seen
<1>2. /\ Writer \notin Reader /\ Writer \in Thread /\ Thread = Reader \cup {Writer}
      /\ StmTypes /\ Locked /\ Hands /\ Counted /\ Referenced /\ InUse /\ 0 \notin Addr
  BY StmConstants DEF StmInv
<1>3. /\ pc' \in [Thread -> Place] /\ pc'[r] = "copied"
      /\ \A u \in Thread : u # r => pc'[u] = pc[u]
      /\ r # Writer /\ pc'[Writer] = pc[Writer]
  BY <1>1, <1>2 DEF StmTypes, Place
<1>4. ret[r] \in Addr
  BY <1>1, <1>2 DEF Locked, StmTypes, Copies
<1>5. /\ creference' \in [Addr -> Int]
      /\ \A b \in Addr : creference[b] \in Nat
                         /\ creference'[b] = creference[b] + (IF b = ret[r] THEN 1 ELSE 0)
  BY <1>1, <1>2, <1>4 DEF StmTypes
<1>6. Counted' /\ creference' \in [Addr -> Nat]
  <2>1. ASSUME NEW b \in Addr
        PROVE  creference'[b] - One(copy' = b) - One(Has(r, b)') - One(lastcopy'[r] = b)
             = creference[b] - One(copy = b) - One(Has(r, b)) - One(lastcopy[r] = b)
    <3>1. ~ Has(r, b) /\ (Has(r, b)' <=> b = ret[r])
      BY <1>1, <1>2, <1>3 DEF Has
    <3> QED
      BY <1>1, <1>5, <3>1 DEF One
  <2> QED
    BY <1>1, <1>2, <1>3, <1>5, <2>1, CountedMoves
<1>7. StmTypes'
  BY <1>1, <1>2, <1>3, <1>6 DEF StmTypes
<1>8. Locked' /\ Hands'
  BY <1>1, <1>2, <1>3 DEF Locked, Hands
<1>9. Referenced'
  <2>1. \A u \in Reader : Holds(u)' <=> Holds(u)
    BY <1>1, <1>2, <1>3 DEF Holds
  <2> QED
    BY <1>1, <1>2, <1>3, <2>1, ReferencedStays
<1>10. InUse'
  BY <1>1, <1>2, <1>3 DEF InUse, Locked
<1> QED
  BY <1>6, <1>7, <1>8, <1>9, <1>10 DEF StmInv

LEMMA ReleaseCopyStep ==
  ASSUME StmAssumption, StmInv, NEW r \in Reader, ReleaseCopy(r)
  PROVE  StmInv'
<1>1. /\ pc[r] = "release_copy" /\ pc' = [pc EXCEPT ![r] = "gone"]
      /\ creference' = Drop(creference, lastcopy[r]) /\ lastcopy' = [lastcopy EXCEPT ![r] = 0]
      /\ UNCHANGED <<reference, copy, freed, inside, write, version, last_version, ret, box, heard, missed>>
  BY DEF ReleaseCopy, Goto, object, lock, seen
<1>2. /\ Writer \notin Reader /\ Writer \in Thread /\ Thread = Reader \cup {Writer}
      /\ StmTypes /\ Locked /\ Hands /\ Counted /\ Referenced /\ InUse /\ 0 \notin Addr
  BY StmConstants DEF StmInv
<1>3. /\ pc' \in [Thread -> Place] /\ pc'[r] = "gone"
      /\ \A u \in Thread : u # r => pc'[u] = pc[u] /\ lastcopy'[u] = lastcopy[u]
      /\ r # Writer /\ pc'[Writer] = pc[Writer] /\ lastcopy'[Writer] = lastcopy[Writer]
      /\ lastcopy' \in [Thread -> Copies] /\ lastcopy'[r] = 0 /\ lastcopy[r] \in Copies
  BY <1>1, <1>2 DEF StmTypes, Place, Copies
<1>4. /\ creference' \in [Addr -> Int]
      /\ \A b \in Addr : creference[b] \in Nat
                         /\ creference'[b] = creference[b] - (IF b = lastcopy[r] THEN 1 ELSE 0)
  BY <1>1, <1>2, <1>3, Dropped
<1>5. Counted' /\ creference' \in [Addr -> Nat]
  <2>1. ASSUME NEW b \in Addr
        PROVE  creference'[b] - One(copy' = b) - One(Has(r, b)') - One(lastcopy'[r] = b)
             = creference[b] - One(copy = b) - One(Has(r, b)) - One(lastcopy[r] = b)
    <3>1. (Has(r, b)' <=> Has(r, b)) /\ lastcopy'[r] # b
      BY <1>1, <1>2, <1>3 DEF Has
    <3> QED
      BY <1>1, <1>4, <3>1 DEF One
  <2> QED
    BY <1>1, <1>2, <1>3, <1>4, <2>1, CountedMoves
<1>6. StmTypes'
  BY <1>1, <1>2, <1>3, <1>5 DEF StmTypes
<1>7. Locked' /\ Hands'
  BY <1>1, <1>2, <1>3 DEF Locked, Hands
<1>8. Referenced'
  <2>1. \A u \in Reader : Holds(u)' <=> Holds(u)
    BY <1>1, <1>2, <1>3 DEF Holds
  <2> QED
    BY <1>1, <1>2, <1>3, <2>1, ReferencedStays
<1>9. InUse'
  BY <1>1, <1>2, <1>3 DEF InUse, Locked
<1> QED
  BY <1>5, <1>6, <1>7, <1>8, <1>9 DEF StmInv

LEMMA CompareStep ==
  ASSUME StmAssumption, StmInv, NEW r \in Reader, Compare(r)
  PROVE  StmInv'
<1>1. /\ pc[r] = "compare" /\ pc' = [pc EXCEPT ![r] = "idle"] /\ ret' = [ret EXCEPT ![r] = 0]
      /\ UNCHANGED <<reference, copy, freed, inside, write, version, last_version, box>>
  BY DEF Compare, Goto, object, lock
<1>2. /\ Writer \notin Reader /\ Writer \in Thread /\ Thread = Reader \cup {Writer}
      /\ StmTypes /\ Locked /\ Hands /\ Counted /\ Referenced /\ InUse /\ 0 \notin Addr
  BY StmConstants DEF StmInv
<1>3. /\ pc' \in [Thread -> Place] /\ pc'[r] = "idle"
      /\ \A u \in Thread : u # r => pc'[u] = pc[u] /\ ret'[u] = ret[u]
      /\ r # Writer /\ pc'[Writer] = pc[Writer] /\ ret'[Writer] = ret[Writer]
      /\ ret' \in [Thread -> Copies] /\ ret'[r] = 0
      /\ ret[r] \in Copies /\ lastcopy[r] \in Copies
  BY <1>1, <1>2 DEF StmTypes, Place, Copies
<1>4. Locked'
  BY <1>1, <1>2, <1>3 DEF Locked
<1>5. Referenced'
  <2>1. \A u \in Reader : Holds(u)' <=> Holds(u)
    BY <1>1, <1>2, <1>3 DEF Holds
  <2> QED
    BY <1>1, <1>2, <1>3, <2>1, ReferencedStays
<1>6. InUse'
  BY <1>1, <1>2, <1>3 DEF InUse
<1>7. CASE ret[r] = lastcopy[r]
  <2>1. /\ creference' = Drop(creference, ret[r])
        /\ missed' = IF ret[r] # 0 /\ version[ret[r]] # heard[r] THEN missed \cup {r} ELSE missed
        /\ UNCHANGED <<lastcopy, heard>>
    BY <1>7 DEF Compare
  <2>2. /\ creference' \in [Addr -> Int]
        /\ \A b \in Addr : creference[b] \in Nat
                           /\ creference'[b] = creference[b] - (IF b = ret[r] THEN 1 ELSE 0)
    BY <1>2, <1>3, <2>1, Dropped
  <2>3. missed' = {}
    BY <1>2, <1>7, <2>1 DEF Hands
  <2>4. Counted' /\ creference' \in [Addr -> Nat]
    <3>1. ASSUME NEW b \in Addr
          PROVE  creference'[b] - One(copy' = b) - One(Has(r, b)') - One(lastcopy'[r] = b)
               = creference[b] - One(copy = b) - One(Has(r, b)) - One(lastcopy[r] = b)
      <4>1. (Has(r, b) <=> b = ret[r]) /\ ~ Has(r, b)'
        BY <1>1, <1>2, <1>3 DEF Has
      <4> QED
        BY <1>1, <2>1, <2>2, <4>1 DEF One
    <3> QED
      BY <1>1, <1>2, <1>3, <2>1, <2>2, <3>1, CountedMoves
  <2>5. StmTypes'
    BY <1>1, <1>2, <1>3, <2>1, <2>4 DEF StmTypes
  <2>6. Hands'
    BY <1>1, <1>2, <1>3, <2>1, <2>3 DEF Hands
  <2> QED
    BY <1>4, <1>5, <1>6, <2>4, <2>5, <2>6 DEF StmInv
<1>8. CASE ret[r] # lastcopy[r]
  <2>1. /\ creference' = Drop(creference, lastcopy[r])
        /\ lastcopy' = [lastcopy EXCEPT ![r] = ret[r]]
        /\ heard' = IF ret[r] # 0 THEN [heard EXCEPT ![r] = version[ret[r]]] ELSE heard
        /\ missed' = missed
    BY <1>8 DEF Compare
  <2>2. /\ creference' \in [Addr -> Int]
        /\ \A b \in Addr : creference[b] \in Nat
                           /\ creference'[b] = creference[b] - (IF b = lastcopy[r] THEN 1 ELSE 0)
    BY <1>2, <1>3, <2>1, Dropped
  <2>3. /\ lastcopy' \in [Thread -> Copies] /\ lastcopy'[r] = ret[r]
        /\ \A u \in Thread : u # r => lastcopy'[u] = lastcopy[u]
        /\ lastcopy'[Writer] = lastcopy[Writer]
    BY <1>2, <1>3, <2>1 DEF StmTypes
  <2>4. /\ heard' \in [Reader -> Nat]
        /\ \A u \in Reader : u # r => heard'[u] = heard[u]
        /\ ret[r] # 0 => heard'[r] = version[ret[r]]
    <3>1. CASE ret[r] = 0
      BY <1>2, <2>1, <3>1 DEF StmTypes
    <3>2. CASE ret[r] # 0
      <4>1. version[ret[r]] \in Nat
        BY <1>2, <1>3, <3>2 DEF StmTypes, Copies
      <4> QED
        BY <1>2, <2>1, <3>2, <4>1 DEF StmTypes
    <3> QED
      BY <3>1, <3>2
  <2>5. Counted' /\ creference' \in [Addr -> Nat]
    <3>1. ASSUME NEW b \in Addr
          PROVE  creference'[b] - One(copy' = b) - One(Has(r, b)') - One(lastcopy'[r] = b)
               = creference[b] - One(copy = b) - One(Has(r, b)) - One(lastcopy[r] = b)
      <4>1. (Has(r, b) <=> b = ret[r]) /\ ~ Has(r, b)'
        BY <1>1, <1>2, <1>3 DEF Has
      <4> QED
        BY <1>1, <2>2, <2>3, <4>1 DEF One
    <3> QED
      BY <1>1, <1>2, <1>3, <2>2, <2>3, <3>1, CountedMoves
  <2>6. StmTypes'
    BY <1>1, <1>2, <1>3, <2>3, <2>4, <2>5 DEF StmTypes
  <2>7. Hands'
    BY <1>1, <1>2, <1>3, <2>1, <2>3, <2>4 DEF Hands
  <2> QED
    BY <1>4, <1>5, <1>6, <2>5, <2>6, <2>7 DEF StmInv
<1> QED
  BY <1>7, <1>8

LEMMA StmStep ==
  ASSUME StmAssumption, StmInv, [Next]_vars
  PROVE  StmInv'
<1>1. CASE Next
  BY <1>1, GrabStep, GrabUnlockStep, WriterLockStep, SwapStep, ReleaseOldStep, ReleaseStep, UpdateStep,
     GrabLockStep, ReaderLockStep, CopyStep, CountStep, CompareStep, DeleteStep, ReleaseCopyStep DEF Next
<1>2. CASE UNCHANGED vars
  BY <1>2 DEF vars, object, lock, copies, local, seen, StmInv, StmTypes, Locked, Hands, Counted, Taken,
     Last, Has, Referenced, Holding, Holds, InUse
<1> QED
  BY <1>1, <1>2

LEMMA StmInit ==
  ASSUME StmAssumption, Init
  PROVE  StmInv
<1>1. PICK a \in Addr : /\ copy = a
                        /\ creference = [b \in Addr |-> IF b = a THEN 1 ELSE 0]
                        /\ version = [b \in Addr |-> IF b = a THEN 1 ELSE 0]
  BY DEF Init
<1>2. /\ Writer \notin Reader /\ Writer \in Thread /\ Thread = Reader \cup {Writer} /\ 0 \notin Addr
  BY StmConstants
<1>3. /\ pc = [t \in Thread |-> IF t = Writer THEN "idle" ELSE "none"] /\ box = Writer
      /\ ret = [t \in Thread |-> 0] /\ lastcopy = [t \in Thread |-> 0]
      /\ reference = 1 /\ freed = FALSE /\ inside = {} /\ write = FALSE /\ last_version = 1
      /\ heard = [r \in Reader |-> 0] /\ missed = {}
  BY DEF Init
<1>4. pc[Writer] = "idle" /\ \A r \in Reader : pc[r] = "none"
  BY <1>2, <1>3
<1>5. StmTypes
  <2>1. pc \in [Thread -> Place]
    BY <1>3 DEF Place
  <2> QED
    BY <1>1, <1>2, <1>3, <1>4, <2>1 DEF StmTypes, Copies
<1>6. Locked /\ Hands
  BY <1>2, <1>3, <1>4 DEF Locked, Hands
<1>7. Counted
  <2>1. \A b \in Addr : Taken(b) = {} /\ Last(b) = {}
    BY <1>2, <1>3 DEF Taken, Last, Has
  <2> QED
    BY <1>1, <2>1, FS_EmptySet DEF Counted, One
<1>8. Referenced
  <2>1. Holding = {}
    BY <1>4 DEF Holding, Holds
  <2> QED
    BY <1>3, <1>4, <2>1, FS_EmptySet DEF Referenced, One
<1>9. InUse
  BY <1>2, <1>4 DEF InUse
<1> QED
  BY <1>5, <1>6, <1>7, <1>8, <1>9 DEF StmInv

\* The counters say who has a copy or the object, for any readers, addresses and
\* updates, however reading, updating and releasing interleave.
THEOREM StmInvariant == StmAssumption /\ Spec => []StmInv
<1> SUFFICES ASSUME StmAssumption PROVE Spec => []StmInv
  OBVIOUS
<1> QED
  BY StmInit, StmStep, PTL DEF Spec

\* A copy is freed when nobody has it any more, and not before: neither between a
\* reader's look at the copy and its count, nor where an address is used again.
THEOREM CopiesKept == StmAssumption /\ Spec => []CopiesCounted
<1> SUFFICES ASSUME StmAssumption PROVE Spec => []CopiesCounted
  OBVIOUS
<1>1. StmInv => CopiesCounted
  <2> SUFFICES ASSUME StmInv PROVE CopiesCounted
    OBVIOUS
  <2>1. \A a \in Addr : /\ Taken(a) = {t \in Thread : ret[t] = a /\ pc[t] # "count"}
                        /\ Last(a) = {t \in Thread : lastcopy[t] = a}
    BY DEF Taken, Last, Has
  <2>2. ASSUME NEW r \in Reader, pc[r] = "count" PROVE creference[ret[r]] > 0
    <3>1. ret[r] = copy /\ copy \in Addr /\ r \in Thread
      BY <2>2 DEF StmInv, Locked, StmTypes, Copies, Thread
    <3> QED
      BY <3>1, CountPositive DEF StmInv
  <2> QED
    BY <2>1, <2>2 DEF CopiesCounted, StmInv, Counted, One
<1> QED
  BY <1>1, StmInvariant, PTL

\* A reader who is told that nothing was updated has the copy there is, although
\* only addresses are compared; and when all have let go, all is freed.
THEOREM ReadersTold == StmAssumption /\ Spec => []UpdateHeard /\ []AllFreed
<1> SUFFICES ASSUME StmAssumption PROVE Spec => []UpdateHeard /\ []AllFreed
  OBVIOUS
<1>1. StmInv => UpdateHeard
  BY DEF StmInv, Hands, UpdateHeard
<1>2. StmInv => AllFreed
  <2> SUFFICES ASSUME StmInv, \A t \in Thread : pc[t] \in {"none", "gone"}
               PROVE  freed /\ \A a \in Addr : creference[a] = 0
    BY DEF AllFreed
  <2>1. /\ Writer \in Thread /\ Thread = Reader \cup {Writer} /\ 0 \notin Addr
        /\ StmTypes /\ Hands /\ Counted /\ Referenced /\ InUse
    BY StmConstants DEF StmInv
  <2>2. pc[Writer] = "gone" /\ copy = 0
    BY <2>1 DEF StmTypes, Hands
  <2>3. \A t \in Thread : ret[t] = 0 /\ lastcopy[t] = 0
    BY <2>1 DEF Hands
  <2>4. \A a \in Addr : Taken(a) = {} /\ Last(a) = {} /\ copy # a
    BY <2>1, <2>2, <2>3 DEF Taken, Last, Has
  <2>5. \A a \in Addr : creference[a] = 0
    BY <2>1, <2>4, FS_EmptySet DEF Counted, One
  <2>6. Holding = {}
    BY <2>1, <2>2 DEF Holding, Holds
  <2>7. freed
    BY <2>1, <2>2, <2>6, FS_EmptySet DEF Referenced, One
  <2> QED
    BY <2>5, <2>7
<1> QED
  BY <1>1, <1>2, StmInvariant, PTL

\* With one reader, the object is not used any more when it is freed (with more,
\* one may still be leaving its lock).
THEOREM FreedUnused ==
  StmAssumption /\ (\A r, s \in Reader : r = s) /\ Spec => []UnusedWhenFreed
<1> SUFFICES ASSUME StmAssumption, \A r, s \in Reader : r = s PROVE Spec => []UnusedWhenFreed
  OBVIOUS
<1>1. StmInv => UnusedWhenFreed
  <2> SUFFICES ASSUME StmInv, freed, NEW t \in Thread
               PROVE  pc[t] \in {"none", "release_copy", "gone"}
    BY DEF UnusedWhenFreed
  <2>1. /\ Thread = Reader \cup {Writer} /\ StmTypes /\ Locked /\ Referenced /\ InUse /\ reference = 0
    BY StmConstants DEF StmInv, Referenced
  <2>2. Cardinality(Holding) \in Nat /\ \A r \in Reader : Holds(r) => Cardinality(Holding) > 0
    <3>1. Holding \in SUBSET Reader /\ \A r \in Reader : r \in Holding <=> Holds(r)
      BY DEF Holding
    <3> QED
      BY <3>1, StmConstants, OneMoves
  <2>3. pc[Writer] \in {"unlock", "gone"} /\ \A r \in Reader : ~ Holds(r)
    BY <2>1, <2>2 DEF Referenced, One
  <2>4. pc[Writer] = "gone"
    BY <2>1, <2>3 DEF InUse
  <2>5. ASSUME NEW r \in Reader PROVE pc[r] \in {"none", "release_copy", "gone"}
    <3>1. pc[r] # "sent" /\ pc[r] # "deleted"
      BY <2>1, <2>4 DEF Locked, InUse
    <3>2. pc[r] \in Place /\ pc[r] \notin {"grab", "grabbed", "update", "swap", "release_old",
                                            "release", "unlock"}
      BY <2>1 DEF StmTypes
    <3> QED
      BY <2>3, <3>1, <3>2 DEF Holds, Place
  <2> QED
    BY <2>1, <2>4, <2>5
<1> QED
  BY <1>1, StmInvariant, PTL

==============================================================================
