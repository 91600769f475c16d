----------------------------- MODULE HandleProof -----------------------------
(***************************************************************************)
(* Proofs about the lock of the handle table and the table under it, for   *)
(* any number of threads, contexts and names, any size of the table and    *)
(* any mask: the lock excludes, and with one launching thread contexts and *)
(* names are found until they retire.                                      *)
(***************************************************************************)
EXTENDS HandleStorage, FiniteSetTheorems, SequenceTheorems, WellFoundedInduction, TLAPS

-----------------------------------------------------------------------------
(***************************************************************************)
(* The lock (rwlock.h).                                                    *)
(***************************************************************************)
LEMMA ReadersWritersFinite ==
  /\ IsFiniteSet(Readers) /\ Cardinality(Readers) \in Nat
  /\ IsFiniteSet(Writers) /\ Cardinality(Writers) \in Nat
  BY LockAssumption, FS_Subset, FS_CardinalityType DEF Readers, Writers

\* A count of zero or one says what the set is.
LEMMA SmallCounts ==
  ASSUME NEW S, IsFiniteSet(S)
  PROVE  /\ Cardinality(S) = 0 => S = {}
         /\ \A x, y \in S : x # y => Cardinality(S) > 1
<1>1. Cardinality(S) = 0 => S = {}
  BY FS_EmptySet
<1>2. ASSUME NEW x \in S, NEW y \in S, x # y
      PROVE  Cardinality(S) > 1
  <2>1. IsFiniteSet({x}) /\ Cardinality({x}) = 1
    BY FS_Singleton
  <2>2. IsFiniteSet({x} \cup {y}) /\ Cardinality({x} \cup {y}) = 2
    <3>1. y \notin {x}
      BY <1>2
    <3> QED
      BY <2>1, <3>1, FS_AddElement
  <2>3. {x} \cup {y} \subseteq S
    OBVIOUS
  <2>4. Cardinality({x} \cup {y}) <= Cardinality(S)
    BY <2>3, FS_Subset
  <2> QED
    BY <2>2, <2>4, FS_CardinalityType
<1> QED BY <1>1, <1>2

LEMMA InvExcludes == LockInv => MutualExclusion
<1> SUFFICES ASSUME LockInv, NEW t \in Thread, NEW u \in Thread, t # u,
                    lpc[t] = "writing"
             PROVE  lpc[u] \notin {"reading", "writing"}
  BY DEF MutualExclusion
<1>1. lpc[u] # "reading"
  BY DEF LockInv
<1>2. lpc[u] # "writing"
  <2> SUFFICES ASSUME lpc[u] = "writing" PROVE FALSE
    OBVIOUS
  <2>1. t \in Writers /\ u \in Writers
    BY DEF Writers
  <2>2. Cardinality(Writers) > 1
    BY <2>1, ReadersWritersFinite, SmallCounts
  <2> QED
    BY <2>2 DEF LockInv, LockTypeOK
<1> QED BY <1>1, <1>2

LEMMA LockInitInv == LockInit => LockInv
<1> SUFFICES ASSUME LockInit PROVE LockInv
  OBVIOUS
<1>1. Readers = {} /\ Writers = {}
  BY DEF LockInit, Readers, Writers
<1> QED
  BY <1>1, FS_EmptySet DEF LockInit, LockInv, LockTypeOK

\* Threads that neither count nor are counted move between other places.
LEMMA Bystander ==
  ASSUME LockInv, NEW t \in Thread, NEW from, NEW to, LockGoto(t, from, to),
         to \in {"out", "r_load", "r_inc", "w_cas"},
         from \in {"out", "r_load", "r_inc", "w_cas"},
         read' = read, write' = write
  PROVE  /\ Readers' = Readers /\ Writers' = Writers
         /\ lpc' \in [Thread -> {"out", "r_load", "r_inc", "r_check", "r_back",
                                 "reading", "w_cas", "w_wait", "writing"}]
         /\ \A x, y \in Thread : lpc'[x] = "writing" => lpc'[y] # "reading"
  BY DEF LockInv, LockTypeOK, LockGoto, Readers, Writers

LEMMA LockStepInv == C11 = FALSE /\ LockInv /\ [LockNext]_lockVars => LockInv'
<1> SUFFICES ASSUME C11 = FALSE, LockInv, [LockNext]_lockVars PROVE LockInv'
  OBVIOUS
<1> USE DEF LockInv, LockTypeOK
<1>0. /\ IsFiniteSet(Readers) /\ Cardinality(Readers) \in Nat
      /\ IsFiniteSet(Writers) /\ Cardinality(Writers) \in Nat
  BY ReadersWritersFinite
<1>1. ASSUME NEW t \in Thread, BeginRead(t) \/ ReadLoad(t) PROVE LockInv'
  BY <1>1, Bystander DEF BeginRead, ReadLoad
<1>2. ASSUME NEW t \in Thread, ReadInc(t) PROVE LockInv'
  <2>1. Readers' = Readers \cup {t} /\ t \notin Readers /\ Writers' = Writers
    BY <1>2 DEF ReadInc, LockGoto, Readers, Writers
  <2>2. Cardinality(Readers') = Cardinality(Readers) + 1
    BY <1>0, <2>1, FS_AddElement
  <2> QED
    BY <1>2, <2>1, <2>2 DEF ReadInc, LockGoto
<1>3. ASSUME NEW t \in Thread, ReadCheck(t) PROVE LockInv'
  <2>1. Readers' = Readers /\ Writers' = Writers
    BY <1>3 DEF ReadCheck, LockGoto, Readers, Writers
  <2>2. CASE write # 0
    BY <1>3, <2>1, <2>2 DEF ReadCheck, LockGoto
  <2>3. CASE write = 0
    <3>1. Writers = {}
      BY <1>0, <2>3, SmallCounts
    <3>2. \A x \in Thread : lpc'[x] # "writing"
      BY <2>1, <3>1 DEF Writers
    <3> QED
      BY <1>3, <2>1, <2>3, <3>2 DEF ReadCheck, LockGoto
  <2> QED BY <2>2, <2>3
<1>4. ASSUME NEW t \in Thread, ReadBack(t) \/ ReadUnlock(t) PROVE LockInv'
  <2>1. Readers' = Readers \ {t} /\ t \in Readers /\ Writers' = Writers
    BY <1>4 DEF ReadBack, ReadUnlock, LockGoto, Readers, Writers
  <2>2. Cardinality(Readers') = Cardinality(Readers) - 1
    BY <1>0, <2>1, FS_RemoveElement
  <2>3. Cardinality(Readers') \in Nat
    BY <1>0, <2>1, FS_Subset, FS_CardinalityType
  <2> QED
    BY <1>0, <1>4, <2>1, <2>2, <2>3 DEF ReadBack, ReadUnlock, LockGoto
<1>5. ASSUME NEW t \in Thread, BeginWrite(t) PROVE LockInv'
  BY <1>5, Bystander DEF BeginWrite
<1>6. ASSUME NEW t \in Thread, WriteCas(t) PROVE LockInv'
  <2>1. Writers' = Writers \cup {t} /\ t \notin Writers /\ Readers' = Readers
    BY <1>6 DEF WriteCas, LockGoto, Readers, Writers
  <2>2. Cardinality(Writers') = Cardinality(Writers) + 1
    BY <1>0, <2>1, FS_AddElement
  <2> QED
    BY <1>6, <2>1, <2>2 DEF WriteCas, LockGoto
<1>7. ASSUME NEW t \in Thread, WriteCasFails(t) PROVE LockInv'
  BY <1>7 DEF WriteCasFails, Readers, Writers
<1>8. ASSUME NEW t \in Thread, WriteWait(t) PROVE LockInv'
  <2>1. Readers' = Readers /\ Writers' = Writers
    BY <1>8 DEF WriteWait, LockGoto, Readers, Writers
  <2>2. Readers = {}
    BY <1>0, <1>8, SmallCounts DEF WriteWait
  <2>3. \A x \in Thread : lpc'[x] # "reading"
    BY <2>1, <2>2 DEF Readers
  <2> QED
    BY <1>8, <2>1, <2>3 DEF WriteWait, LockGoto
<1>9. ASSUME NEW t \in Thread, WriteUnlock(t) PROVE LockInv'
  <2>1. Writers' = Writers \ {t} /\ t \in Writers /\ Readers' = Readers
    BY <1>9 DEF WriteUnlock, LockGoto, Readers, Writers
  <2>2. Cardinality(Writers') = Cardinality(Writers) - 1
    BY <1>0, <2>1, FS_RemoveElement
  <2>3. Cardinality(Writers) = 1
    BY <1>0, <2>1, SmallCounts, FS_EmptySet
  <2> QED
    BY <1>9, <2>1, <2>2, <2>3 DEF WriteUnlock, LockGoto
<1>10. CASE UNCHANGED lockVars
  BY <1>10 DEF lockVars, Readers, Writers
<1> QED
  BY <1>1, <1>2, <1>3, <1>4, <1>5, <1>6, <1>7, <1>8, <1>9, <1>10
     DEF LockNext, LockStep

\* The counters of the lock are exact, and so the types of its variables.
THEOREM LockInvariant ==
  ASSUME C11 = FALSE
  PROVE  LockSpec => []LockInv
<1>1. LockInv /\ [LockNext]_lockVars => LockInv'
  BY LockStepInv
<1> QED
  BY <1>1, LockInitInv, PTL DEF LockSpec

\* A writer of the handle table is alone with it, for any number of threads,
\* when the compare-and-swap of the build leaves its expected value alone.
THEOREM LockExcludes ==
  ASSUME C11 = FALSE
  PROVE  LockSpec => []MutualExclusion
  BY LockInvariant, InvExcludes, PTL

-----------------------------------------------------------------------------
(***************************************************************************)
(* Induction.  The provers cannot instantiate a theorem on predicates; a   *)
(* least counterexample serves as well.                                    *)
(***************************************************************************)
\* A set of natural numbers that is not empty has a least element.
LEMMA Least ==
  ASSUME NEW T, T \subseteq Nat, T # {}
  PROVE  \E x \in T : \A y \in T : x <= y
<1> DEFINE Below(n) == 0 .. n - 1
           F == {Below(n) : n \in T}
           R == StrictSubsetOrdering(Nat)
<1>1. F \subseteq FiniteSubsetsOf(Nat)
  <2> SUFFICES ASSUME NEW n \in T PROVE Below(n) \in FiniteSubsetsOf(Nat)
    OBVIOUS
  <2>1. IsFiniteSet(0 .. n - 1)
    BY FS_Interval
  <2> QED
    BY <2>1 DEF FiniteSubsetsOf
<1>2. \E x \in F : \A y \in F : ~ (<<y, x>> \in R)
  <2>1. F # {} /\ IsWellFoundedOn(R, FiniteSubsetsOf(Nat))
    BY FS_StrictSubsetOrderingWellFounded
  <2> HIDE DEF F, R
  <2> QED
    BY <1>1, <2>1, WFMin
<1>3. PICK x \in T : \A y \in T : ~ (<<Below(y), Below(x)>> \in R)
  BY <1>2
<1>4. ASSUME NEW y \in T, y < x PROVE <<Below(y), Below(x)>> \in R
  <2>1. /\ Below(y) \subseteq Below(x) /\ Below(x) \subseteq Nat
        /\ y \in Below(x) /\ y \notin Below(y)
    BY <1>4
  <2> QED
    BY <2>1 DEF StrictSubsetOrdering
<1>5. \A y \in T : ~ (y < x)
  BY <1>3, <1>4
<1> QED
  BY <1>5

-----------------------------------------------------------------------------
(***************************************************************************)
(* The name table: a sorted sequence, searched by bisection.               *)
(***************************************************************************)
Entry == [name : Name, handle : 1 .. HandleMask]

Sorted(s) == \A i, j \in 1 .. Len(s) : i < j => s[i].name < s[j].name

\* The interval from b to e contains n at one place, or n belongs between two of
\* its entries; v says where.
Ends(n, b, e, v) ==
    IF b > e THEN v = <<b, e>>
    ELSE \/ \E m \in b .. e : name[m].name = n /\ v = <<m, m>>
         \/ \E p \in b .. e + 1 :
              /\ v = <<p, p - 1>>
              /\ \A j \in b .. e : /\ j < p => name[j].name < n
                                   /\ j >= p => n < name[j].name

Intervals == (1 .. Len(name) + 1) \X (0 .. Len(name))

\* One round of the loop, and then the rest of it.
Round(n, left, i) ==
    LET mid == (i[1] + i[2]) \div 2
    IN IF i[1] > i[2] THEN i
       ELSE IF name[mid].name = n THEN <<mid, mid>>
       ELSE IF name[mid].name < n THEN left[<<mid + 1, i[2]>>]
       ELSE left[<<i[1], mid - 1>>]

\* Names are integers, in a table whose length is a number.
LEMMA NamesAreNumbers ==
  ASSUME name \in Seq(Entry)
  PROVE  /\ Len(name) \in Nat
         /\ \A j \in 1 .. Len(name) : name[j] \in Entry /\ name[j].name \in Int
<1>1. \A j \in 1 .. Len(name) : name[j] \in Entry
  BY ElementOfSeq
<1> QED
  BY <1>1, LenProperties, HandleAssumption DEF Entry

\* The place where a name belongs is the end of the search.
LEMMA Belongs ==
  ASSUME NEW n, NEW b \in Int, NEW e \in Int, b <= e, NEW p \in b .. e + 1,
         \A j \in b .. e : /\ j < p => name[j].name < n
                           /\ j >= p => n < name[j].name
  PROVE  Ends(n, b, e, <<p, p - 1>>)
<1>1. ~ (b > e)
  OBVIOUS
<1>2. \E q \in b .. e + 1 :
        /\ <<p, p - 1>> = <<q, q - 1>>
        /\ \A j \in b .. e : /\ j < q => name[j].name < n
                             /\ j >= q => n < name[j].name
  BY Zenon
<1>3. Ends(n, b, e, <<p, p - 1>>) <=>
        \/ \E m \in b .. e : name[m].name = n /\ <<p, p - 1>> = <<m, m>>
        \/ \E q \in b .. e + 1 :
             /\ <<p, p - 1>> = <<q, q - 1>>
             /\ \A j \in b .. e : /\ j < q => name[j].name < n
                                  /\ j >= q => n < name[j].name
  BY <1>1 DEF Ends
<1> QED
  BY <1>2, <1>3, Zenon

\* When the rest of the loop ends as it should, so does the loop.
LEMMA RoundEnds ==
  ASSUME name \in Seq(Entry), Sorted(name), NEW n \in Int, NEW left,
         NEW b \in 1 .. Len(name) + 1, NEW e \in 0 .. Len(name),
         \A c \in 1 .. Len(name) + 1, d \in 0 .. Len(name) :
           d - c < e - b => Ends(n, c, d, left[<<c, d>>])
  PROVE  Ends(n, b, e, Round(n, left, <<b, e>>))
<1>1. CASE b > e
  BY <1>1 DEF Round, Ends
<1>2. CASE b <= e
  <2> DEFINE mid == (b + e) \div 2
             round == Round(n, left, <<b, e>>)
  <2>0. Len(name) \in Nat /\ \A j \in 1 .. Len(name) : name[j].name \in Int
    BY NamesAreNumbers
  <2>1. round = IF name[mid].name = n THEN <<mid, mid>>
                ELSE IF name[mid].name < n THEN left[<<mid + 1, e>>]
                ELSE left[<<b, mid - 1>>]
    BY <1>2, <2>0 DEF Round
  <2>2. mid \in b .. e
    BY <1>2, <2>0
  <2> SUFFICES Ends(n, b, e, round)
    OBVIOUS
  <2> HIDE DEF mid, round
  <2>3. /\ Ends(n, mid + 1, e, left[<<mid + 1, e>>])
        /\ Ends(n, b, mid - 1, left[<<b, mid - 1>>])
    BY <1>2, <2>0, <2>2
  <2>4. \A j \in b .. e : /\ j < mid => name[j].name < name[mid].name
                          /\ j > mid => name[mid].name < name[j].name
    <3>1. mid \in 1 .. Len(name) /\ \A j \in b .. e : j \in 1 .. Len(name)
      BY <2>0, <2>2
    <3> QED
      BY <3>1 DEF Sorted
  <2>5. CASE name[mid].name = n
    <3>1. round = <<mid, mid>>
      BY <2>1, <2>5
    <3> QED
      BY <1>2, <2>0, <2>2, <2>5, <3>1 DEF Ends
  <2>6. CASE name[mid].name < n
    <3>1. round = left[<<mid + 1, e>>]
      BY <2>0, <2>1, <2>2, <2>6
    <3>2. ASSUME NEW j \in b .. mid PROVE name[j].name < n
      <4>1. j \in b .. e /\ j \in 1 .. Len(name) /\ mid \in 1 .. Len(name)
        BY <2>0, <2>2
      <4>2. name[j].name \in Int /\ name[mid].name \in Int
        BY <2>0, <4>1
      <4>3. j = mid \/ j < mid
        BY <4>1
      <4> QED
        BY <2>4, <2>6, <4>1, <4>2, <4>3
    <3>3. CASE mid + 1 > e
      <4>1. PICK p \in b .. e + 1 : p = e + 1
        BY <1>2, <2>0
      <4>2. p - 1 = e /\ mid = e
        BY <2>0, <2>2, <3>3, <4>1
      <4>3. round = <<p, p - 1>>
        BY <2>3, <3>1, <3>3, <4>1, <4>2 DEF Ends
      <4>4. \A j \in b .. e : /\ j < p => name[j].name < n
                              /\ j >= p => n < name[j].name
        BY <2>0, <3>2, <4>1, <4>2
      <4>5. Ends(n, b, e, <<p, p - 1>>)
        BY <1>2, <2>0, <4>4, Belongs
      <4> QED
        BY <4>3, <4>5
    <3>4. ASSUME NEW m \in mid + 1 .. e, name[m].name = n, round = <<m, m>>
          PROVE  Ends(n, b, e, round)
      BY <1>2, <2>0, <2>2, <3>4 DEF Ends
    <3>5. ASSUME NEW p \in mid + 1 .. e + 1, round = <<p, p - 1>>,
                 \A j \in mid + 1 .. e : /\ j < p => name[j].name < n
                                         /\ j >= p => n < name[j].name
          PROVE  Ends(n, b, e, round)
      <4>1. \A j \in b .. e : /\ j < p => name[j].name < n
                              /\ j >= p => n < name[j].name
        BY <2>0, <2>2, <3>2, <3>5
      <4>2. p \in b .. e + 1 /\ b \in Int /\ e \in Int
        BY <2>0, <2>2
      <4>3. Ends(n, b, e, <<p, p - 1>>)
        BY <1>2, <4>1, <4>2, Belongs
      <4> QED
        BY <3>5, <4>3
    <3> QED
      BY <2>0, <2>2, <2>3, <3>1, <3>3, <3>4, <3>5 DEF Ends
  <2>7. CASE n < name[mid].name
    <3>1. round = left[<<b, mid - 1>>]
      BY <2>0, <2>1, <2>2, <2>7
    <3>2. ASSUME NEW j \in mid .. e PROVE n < name[j].name
      <4>1. j \in b .. e /\ j \in 1 .. Len(name) /\ mid \in 1 .. Len(name)
        BY <2>0, <2>2
      <4>2. name[j].name \in Int /\ name[mid].name \in Int
        BY <2>0, <4>1
      <4>3. j = mid \/ j > mid
        BY <4>1
      <4> QED
        BY <2>4, <2>7, <4>1, <4>2, <4>3
    <3>3. CASE b > mid - 1
      <4>0. mid = b
        BY <2>0, <2>2, <3>3
      <4>1. round = <<b, b - 1>>
        BY <2>3, <3>1, <3>3, <4>0 DEF Ends
      <4>2. \A j \in b .. e : /\ j < b => name[j].name < n
                              /\ j >= b => n < name[j].name
        BY <2>0, <3>2, <4>0
      <4>3. b \in b .. e + 1 /\ b \in Int /\ e \in Int
        BY <1>2, <2>0
      <4> QED
        BY <1>2, <4>1, <4>2, <4>3, Belongs
    <3>4. ASSUME NEW m \in b .. mid - 1, name[m].name = n, round = <<m, m>>
          PROVE  Ends(n, b, e, round)
      BY <1>2, <2>0, <2>2, <3>4 DEF Ends
    <3>5. ASSUME NEW p \in b .. mid - 1 + 1, round = <<p, p - 1>>,
                 \A j \in b .. mid - 1 : /\ j < p => name[j].name < n
                                         /\ j >= p => n < name[j].name
          PROVE  Ends(n, b, e, round)
      <4>1. \A j \in b .. e : /\ j < p => name[j].name < n
                              /\ j >= p => n < name[j].name
        BY <2>0, <2>2, <3>2, <3>5
      <4>2. p \in b .. e + 1 /\ b \in Int /\ e \in Int
        BY <2>0, <2>2
      <4>3. Ends(n, b, e, <<p, p - 1>>)
        BY <1>2, <4>1, <4>2, Belongs
      <4> QED
        BY <3>5, <4>3
    <3> QED
      BY <2>0, <2>2, <2>3, <3>1, <3>3, <3>4, <3>5 DEF Ends
  <2> QED
    BY <2>0, <2>2, <2>5, <2>6, <2>7
<1> QED
  BY <1>1, <1>2, NamesAreNumbers

\* The search of the whole table.
LEMMA BisectEnds ==
  ASSUME name \in Seq(Entry), Sorted(name), NEW n \in Int
  PROVE  Ends(n, 1, Len(name), Bisect(n))
<1>0. Len(name) \in Nat /\ \A j \in 1 .. Len(name) : name[j].name \in Int
  BY NamesAreNumbers
<1> DEFINE B == 1 .. Len(name) + 1
           E == 0 .. Len(name)
\* An interval has an end ...
<1>1. \A b \in B, e \in E : \E v : Ends(n, b, e, v)
  <2> SUFFICES ASSUME NEW b \in B, NEW e \in E PROVE \E v : Ends(n, b, e, v)
    OBVIOUS
  <2>1. CASE b > e
    BY <2>1 DEF Ends
  <2>2. CASE b <= e
    <3> DEFINE T == {j \in b .. e + 1 : j = e + 1 \/ ~ (name[j].name < n)}
    <3>1. T \subseteq Nat /\ e + 1 \in T
      BY <1>0, <2>2
    <3>2. PICK p \in T : \A y \in T : p <= y
      <4> HIDE DEF T
      <4> QED BY <3>1, Least
    <3>3. CASE p <= e /\ name[p].name = n
      <4>1. \E m \in b .. e : name[m].name = n /\ <<p, p>> = <<m, m>>
        BY <3>3
      <4> QED
        BY <1>0, <2>2, <4>1 DEF Ends
    <3>4. CASE ~ (p <= e /\ name[p].name = n)
      <4>1. \A j \in b .. e : /\ j < p => name[j].name < n
                              /\ j >= p => n < name[j].name
        <5> SUFFICES ASSUME NEW j \in b .. e
                     PROVE  /\ j < p => name[j].name < n
                            /\ j >= p => n < name[j].name
          OBVIOUS
        <5>1. j < p => name[j].name < n
          <6>1. j < p => j \notin T
            BY <3>2, <1>0
          <6> QED
            BY <6>1, <1>0
        <5>2. j >= p => n < name[j].name
          <6>1. j >= p => p <= e /\ p \in 1 .. Len(name) /\ n < name[p].name
            BY <1>0, <3>4
          <6>2. j > p => name[p].name < name[j].name
            BY <1>0 DEF Sorted
          <6> QED
            BY <6>1, <6>2, <1>0
        <5> QED
          BY <5>1, <5>2
      <4>2. Ends(n, b, e, <<p, p - 1>>)
        BY <1>0, <2>2, <4>1, Belongs
      <4> QED
        BY <4>2
    <3> QED
      BY <3>3, <3>4
  <2>3. b \in Int /\ e \in Int
    BY <1>0
  <2> QED
    BY <2>1, <2>2, <2>3
\* ... and only one.
<1>2. ASSUME NEW b \in B, NEW e \in E, NEW v, NEW w, Ends(n, b, e, v), Ends(n, b, e, w)
      PROVE  v = w
  <2>0. b \in Int /\ e \in Int /\ b >= 1 /\ e <= Len(name)
    BY <1>0
  <2>1. CASE b > e
    BY <1>2, <2>1 DEF Ends
  <2>2. CASE b <= e
    <3>1. ASSUME NEW m \in b .. e, name[m].name = n, NEW p \in b .. e + 1,
                 \A j \in b .. e : /\ j < p => name[j].name < n
                                   /\ j >= p => n < name[j].name
          PROVE  FALSE
      BY <1>0, <2>0, <3>1
    <3>2. ASSUME NEW m \in b .. e, name[m].name = n, NEW k \in b .. e, name[k].name = n
          PROVE  m = k
      BY <1>0, <2>0, <3>2 DEF Sorted
    <3>3. ASSUME NEW p \in b .. e + 1, NEW q \in b .. e + 1,
                 \A j \in b .. e : /\ j < p => name[j].name < n
                                   /\ j >= p => n < name[j].name,
                 \A j \in b .. e : /\ j < q => name[j].name < n
                                   /\ j >= q => n < name[j].name
          PROVE  p = q
      <4>1. ASSUME p < q PROVE FALSE
        <5>1. p \in b .. e /\ p >= p /\ name[p].name \in Int
          BY <1>0, <2>0, <4>1
        <5> QED
          BY <3>3, <4>1, <5>1
      <4>2. ASSUME q < p PROVE FALSE
        <5>1. q \in b .. e /\ q >= q /\ name[q].name \in Int
          BY <1>0, <2>0, <4>2
        <5> QED
          BY <3>3, <4>2, <5>1
      <4> QED
        BY <2>0, <4>1, <4>2
    <3>4. \/ \E m \in b .. e : name[m].name = n /\ v = <<m, m>>
          \/ \E p \in b .. e + 1 :
               /\ v = <<p, p - 1>>
               /\ \A j \in b .. e : /\ j < p => name[j].name < n
                                    /\ j >= p => n < name[j].name
      BY <1>2, <2>0, <2>2 DEF Ends
    <3>5. \/ \E m \in b .. e : name[m].name = n /\ w = <<m, m>>
          \/ \E p \in b .. e + 1 :
               /\ w = <<p, p - 1>>
               /\ \A j \in b .. e : /\ j < p => name[j].name < n
                                    /\ j >= p => n < name[j].name
      BY <1>2, <2>0, <2>2 DEF Ends
    <3>6. CASE \E m \in b .. e : name[m].name = n
      BY <3>1, <3>2, <3>4, <3>5, <3>6
    <3>7. CASE ~ \E m \in b .. e : name[m].name = n
      BY <3>3, <3>4, <3>5, <3>7
    <3> QED
      BY <3>6, <3>7
  <2> QED
    BY <2>0, <2>1, <2>2
\* The equation of the loop has a solution ...
<1> DEFINE IsLoop(f) == f = [i \in Intervals |-> Round(n, f, i)]
<1>3. \E f : IsLoop(f)
  <2> DEFINE end(b, e) == CHOOSE v : Ends(n, b, e, v)
             g == [i \in Intervals |-> end(i[1], i[2])]
  <2>1. \A b \in B, e \in E : Ends(n, b, e, end(b, e))
    BY <1>1
  <2>2. \A b \in B, e \in E : <<b, e>> \in Intervals /\ g[<<b, e>>] = end(b, e)
    BY DEF Intervals
  <2>3. \A i \in Intervals : i = <<i[1], i[2]>> /\ i[1] \in B /\ i[2] \in E
    BY DEF Intervals
  <2> HIDE DEF end, g, B, E
  <2>4. \A b \in B, e \in E : Ends(n, b, e, Round(n, g, <<b, e>>))
    BY <2>1, <2>2, RoundEnds DEF B, E
  <2>5. \A b \in B, e \in E : Round(n, g, <<b, e>>) = g[<<b, e>>]
    <3> SUFFICES ASSUME NEW b \in B, NEW e \in E
                 PROVE  Round(n, g, <<b, e>>) = g[<<b, e>>]
      OBVIOUS
    <3>1. Ends(n, b, e, g[<<b, e>>]) /\ Ends(n, b, e, Round(n, g, <<b, e>>))
      BY <2>1, <2>2, <2>4
    <3> QED
      BY <1>2, <3>1
  <2>6. \A i \in Intervals : Round(n, g, i) = g[i]
    BY <2>3, <2>5
  <2>7. g = [i \in Intervals |-> g[i]]
    BY DEF g
  <2>8. IsLoop(g)
    BY <2>6, <2>7
  <2> QED
    BY <2>8
\* ... and each solution finds the ends.
<1>4. ASSUME NEW f, IsLoop(f), NEW b \in B, NEW e \in E
      PROVE  Ends(n, b, e, f[<<b, e>>])
  <2> SUFFICES ASSUME ~ Ends(n, b, e, f[<<b, e>>]) PROVE FALSE
    OBVIOUS
  <2>0. \A c \in B, d \in E : f[<<c, d>>] = Round(n, f, <<c, d>>)
    BY <1>4 DEF Intervals
  <2> DEFINE size(c, d) == d - c + Len(name) + 1
             T == {k \in Nat : \E c \in B, d \in E :
                                 k = size(c, d) /\ ~ Ends(n, c, d, f[<<c, d>>])}
  <2>1. \A c \in B, d \in E : size(c, d) \in Nat
    BY <1>0
  <2>2. T # {} /\ T \subseteq Nat
    BY <2>1
  <2>3. PICK k \in T : \A l \in T : k <= l
    <3> HIDE DEF T
    <3> QED BY <2>2, Least
  <2>4. PICK c \in B, d \in E : k = size(c, d) /\ ~ Ends(n, c, d, f[<<c, d>>])
    BY DEF T
  <2>5. \A a \in B, z \in E : z - a < d - c => Ends(n, a, z, f[<<a, z>>])
    <3> SUFFICES ASSUME NEW a \in B, NEW z \in E, z - a < d - c,
                        ~ Ends(n, a, z, f[<<a, z>>])
                 PROVE  FALSE
      OBVIOUS
    <3>1. size(a, z) \in T
      BY <2>1
    <3>2. size(a, z) < k
      BY <1>0, <2>4
    <3>3. k \in Nat /\ size(a, z) \in Nat
      BY <2>1, <2>4
    <3> HIDE DEF T, size
    <3>4. k <= size(a, z)
      BY <2>3, <3>1
    <3> QED
      BY <3>2, <3>3, <3>4
  <2>6. Ends(n, c, d, Round(n, f, <<c, d>>))
    BY <2>5, RoundEnds
  <2> QED
    BY <2>0, <2>4, <2>6
<1>5. Bisect(n) = (CHOOSE f : IsLoop(f))[<<1, Len(name)>>]
  BY DEF Bisect, Round, Intervals
<1>6. IsLoop(CHOOSE f : IsLoop(f))
  <2> HIDE DEF IsLoop
  <2> QED BY <1>3
<1>7. 1 \in B /\ Len(name) \in E
  BY <1>0
<1> QED
  <2> HIDE DEF IsLoop, B, E
  <2> QED BY <1>4, <1>5, <1>6, <1>7

\* What skynet_handle_findname and _insert_name have of it.
LEMMA FindsName ==
  ASSUME name \in Seq(Entry), Sorted(name), NEW i \in 1 .. Len(name)
  PROVE  FindName(name[i].name) = name[i].handle
<1> DEFINE n == name[i].name
<1>0. Len(name) \in Nat /\ \A j \in 1 .. Len(name) : name[j].name \in Int
  BY NamesAreNumbers
<1>1. Ends(n, 1, Len(name), Bisect(n))
  BY <1>0, BisectEnds
<1>2. ~ (1 > Len(name))
  BY <1>0
<1>3. PICK m \in 1 .. Len(name) : name[m].name = n /\ Bisect(n) = <<m, m>>
  <2>1. ASSUME NEW p \in 1 .. Len(name) + 1,
               \A j \in 1 .. Len(name) : /\ j < p => name[j].name < n
                                         /\ j >= p => n < name[j].name
        PROVE  FALSE
    BY <1>0, <2>1
  <2> QED
    BY <1>1, <1>2, <2>1 DEF Ends
<1>4. m = i
  BY <1>0, <1>3 DEF Sorted
<1> QED
  BY <1>3, <1>4 DEF FindName

LEMMA NotFound ==
  ASSUME name \in Seq(Entry), Sorted(name), NEW n \in Int,
         \A i \in 1 .. Len(name) : name[i].name # n
  PROVE  \E p \in 1 .. Len(name) + 1 :
           /\ Bisect(n) = <<p, p - 1>>
           /\ \A j \in 1 .. Len(name) : /\ j < p => name[j].name < n
                                        /\ j >= p => n < name[j].name
<1>0. Len(name) \in Nat
  BY NamesAreNumbers
<1>1. Ends(n, 1, Len(name), Bisect(n))
  BY BisectEnds
<1>2. CASE Len(name) = 0
  <2>1. Bisect(n) = <<1, 0>>
    BY <1>1, <1>2 DEF Ends
  <2>2. 1 \in 1 .. Len(name) + 1 /\ 1 .. Len(name) = {} /\ 1 - 1 = 0
    BY <1>2
  <2> QED
    BY <2>1, <2>2
<1>3. CASE Len(name) > 0
  BY <1>0, <1>1, <1>3 DEF Ends
<1> QED
  BY <1>0, <1>2, <1>3

\* InsertAt puts an entry between those before and those from p on.
LEMMA InsertedAt ==
  ASSUME name \in Seq(Entry), NEW p \in 1 .. Len(name) + 1, NEW e \in Entry
  PROVE  LET s == InsertAt(name, p, e)
         IN /\ s \in Seq(Entry) /\ Len(s) = Len(name) + 1
            /\ \A j \in 1 .. Len(s) : s[j] = IF j < p THEN name[j]
                                             ELSE IF j = p THEN e ELSE name[j - 1]
<1> DEFINE a == SubSeq(name, 1, p - 1)
           b == SubSeq(name, p, Len(name))
<1>0. Len(name) \in Nat /\ \A j \in 1 .. Len(name) : name[j] \in Entry
  BY NamesAreNumbers
<1>1. /\ a \in Seq(Entry) /\ Len(a) = p - 1
      /\ \A j \in 1 .. p - 1 : a[j] = name[j]
  <2>1. \A j \in 1 .. p - 1 : name[j] \in Entry
    BY <1>0
  <2> QED
    BY <1>0, <2>1, SubSeqProperties
<1>2. /\ b \in Seq(Entry) /\ Len(b) = Len(name) - p + 1
      /\ \A j \in 1 .. Len(name) - p + 1 : b[j] = name[p + j - 1]
  <2>1. \A j \in p .. Len(name) : name[j] \in Entry
    BY <1>0
  <2> QED
    BY <1>0, <2>1, SubSeqProperties
<1>3. <<e>> \in Seq(Entry) /\ Len(<<e>>) = 1 /\ <<e>>[1] = e
  OBVIOUS
<1> HIDE DEF a, b
<1>4. /\ a \o <<e>> \in Seq(Entry) /\ Len(a \o <<e>>) = p
      /\ \A j \in 1 .. p : (a \o <<e>>)[j] = IF j < p THEN name[j] ELSE e
  BY <1>0, <1>1, <1>3, ConcatProperties
<1> DEFINE ae == a \o <<e>>
<1> HIDE DEF ae
<1>5. ae \in Seq(Entry) /\ Len(ae) = p
  BY <1>4 DEF ae
<1>6. /\ ae \o b \in Seq(Entry) /\ Len(ae \o b) = Len(name) + 1
      /\ \A j \in 1 .. Len(name) + 1 :
           (ae \o b)[j] = IF j <= p THEN ae[j] ELSE b[j - p]
  <2>1. /\ ae \o b \in Seq(Entry) /\ Len(ae \o b) = Len(ae) + Len(b)
        /\ \A j \in 1 .. Len(ae) + Len(b) :
             (ae \o b)[j] = IF j <= Len(ae) THEN ae[j] ELSE b[j - Len(ae)]
    BY <1>2, <1>5, ConcatProperties
  <2> QED
    BY <1>0, <1>2, <1>5, <2>1
<1>7. InsertAt(name, p, e) = ae \o b
  BY DEF InsertAt, ae, a, b
<1>8. \A j \in 1 .. Len(name) + 1 : j > p => b[j - p] = name[j - 1]
  BY <1>0, <1>2
<1> QED
  BY <1>0, <1>4, <1>6, <1>7, <1>8 DEF ae

LEMMA Inserted ==
  ASSUME name \in Seq(Entry), Sorted(name), NEW n \in Name, NEW h \in 1 .. HandleMask
  PROVE  LET s == InsertName(n, h)
         IN /\ s \in Seq(Entry) /\ Sorted(s)
            /\ \A i \in 1 .. Len(name) : \E j \in 1 .. Len(s) : s[j] = name[i]
<1>0. /\ Len(name) \in Nat /\ n \in Int
      /\ \A j \in 1 .. Len(name) : name[j] \in Entry /\ name[j].name \in Int
  BY NamesAreNumbers, HandleAssumption
<1>1. ASSUME NEW i \in 1 .. Len(name), name[i].name = n
      PROVE  InsertName(n, h) = name
  <2>1. Ends(n, 1, Len(name), Bisect(n))
    BY <1>0, BisectEnds
  <2>2. ~ (1 > Len(name))
    BY <1>0
  <2>3. ASSUME NEW p \in 1 .. Len(name) + 1,
               \A j \in 1 .. Len(name) : /\ j < p => name[j].name < n
                                         /\ j >= p => n < name[j].name
        PROVE  FALSE
    BY <1>0, <1>1, <2>3
  <2>4. PICK m \in 1 .. Len(name) : Bisect(n) = <<m, m>>
    BY <2>1, <2>2, <2>3 DEF Ends
  <2> QED
    BY <2>4 DEF InsertName
<1>2. ASSUME \A i \in 1 .. Len(name) : name[i].name # n
      PROVE  LET s == InsertName(n, h)
             IN /\ s \in Seq(Entry) /\ Sorted(s)
                /\ \A i \in 1 .. Len(name) : \E j \in 1 .. Len(s) : s[j] = name[i]
  <2> DEFINE e == [name |-> n, handle |-> h]
             s == InsertName(n, h)
  <2>1. PICK p \in 1 .. Len(name) + 1 :
           /\ Bisect(n) = <<p, p - 1>>
           /\ \A j \in 1 .. Len(name) : /\ j < p => name[j].name < n
                                        /\ j >= p => n < name[j].name
    BY <1>0, <1>2, NotFound
  <2>2. s = InsertAt(name, p, e)
    BY <1>0, <2>1 DEF InsertName
  <2>3. e \in Entry /\ e.name = n
    BY DEF Entry
  <2> HIDE DEF e, s
  <2>4. /\ s \in Seq(Entry) /\ Len(s) = Len(name) + 1
        /\ \A j \in 1 .. Len(s) : s[j] = IF j < p THEN name[j]
                                         ELSE IF j = p THEN e ELSE name[j - 1]
    <3>1. LET r == InsertAt(name, p, e)
          IN /\ r \in Seq(Entry) /\ Len(r) = Len(name) + 1
             /\ \A j \in 1 .. Len(r) : r[j] = IF j < p THEN name[j]
                                              ELSE IF j = p THEN e ELSE name[j - 1]
      BY <2>3, InsertedAt
    <3> QED
      BY <2>2, <3>1
  <2>5. Sorted(s)
    <3> SUFFICES ASSUME NEW i \in 1 .. Len(s), NEW j \in 1 .. Len(s), i < j
                 PROVE  s[i].name < s[j].name
      BY DEF Sorted
    <3>1. CASE j < p
      BY <1>0, <2>4, <3>1 DEF Sorted
    <3>2. CASE j = p
      BY <1>0, <2>1, <2>3, <2>4, <3>2
    <3>3. CASE j > p /\ i < p
      <4>1. s[i] = name[i] /\ s[j] = name[j - 1]
        BY <1>0, <2>4, <3>3
      <4>2. i \in 1 .. Len(name) /\ j - 1 \in 1 .. Len(name) /\ i < j - 1
        BY <1>0, <2>4, <3>3
      <4> QED
        BY <4>1, <4>2 DEF Sorted
    <3>4. CASE j > p /\ i = p
      <4>1. s[i] = e /\ s[j] = name[j - 1]
        <5>1. ~ (i < p) /\ ~ (j < p) /\ j # p
          BY <3>4
        <5> QED
          BY <2>4, <3>4, <5>1
      <4>2. j - 1 \in 1 .. Len(name) /\ j - 1 >= p
        BY <1>0, <2>4, <3>4
      <4>3. n < name[j - 1].name
        BY <2>1, <4>2
      <4> QED
        BY <2>3, <4>1, <4>3
    <3>5. CASE j > p /\ i > p
      <4>1. s[i] = name[i - 1] /\ s[j] = name[j - 1]
        BY <1>0, <2>4, <3>5
      <4>2. /\ i - 1 \in 1 .. Len(name) /\ j - 1 \in 1 .. Len(name)
            /\ i - 1 < j - 1
        BY <1>0, <2>4, <3>5
      <4> QED
        BY <4>1, <4>2 DEF Sorted
    <3> QED
      BY <1>0, <2>4, <3>1, <3>2, <3>3, <3>4, <3>5
  <2>6. ASSUME NEW i \in 1 .. Len(name)
        PROVE  \E j \in 1 .. Len(s) : s[j] = name[i]
    <3>1. CASE i < p
      <4>1. i \in 1 .. Len(s) /\ s[i] = name[i]
        BY <1>0, <2>4, <3>1
      <4> QED BY <4>1
    <3>2. CASE i >= p
      <4>1. i + 1 \in 1 .. Len(s) /\ s[i + 1] = name[i + 1 - 1] /\ i + 1 - 1 = i
        BY <1>0, <2>4, <3>2
      <4> QED BY <4>1
    <3> QED
      BY <1>0, <3>1, <3>2
  <2> QED
    BY <2>4, <2>5, <2>6 DEF s
<1> QED
  BY <1>1, <1>2

\* The table without the names of h among its first k entries.
Squeezed(h, k, s) ==
    /\ s \in Seq(Entry) /\ Sorted(s)
    /\ \A j \in 1 .. Len(s) : \E i \in 1 .. k : s[j] = name[i]
    /\ \A i \in 1 .. k : name[i].handle # h => \E j \in 1 .. Len(s) : s[j] = name[i]

LEMMA SqueezeOne ==
  ASSUME name \in Seq(Entry), Sorted(name), NEW h, NEW k \in 1 .. Len(name),
         NEW s, Squeezed(h, k - 1, s)
  PROVE  Squeezed(h, k, IF name[k].handle = h THEN s ELSE Append(s, name[k]))
<1>0. Len(name) \in Nat /\ \A j \in 1 .. Len(name) : name[j] \in Entry /\ name[j].name \in Int
  BY NamesAreNumbers
<1>1. CASE name[k].handle = h
  <2>1. \A i \in 1 .. k : name[i].handle # h => i \in 1 .. k - 1
    BY <1>0, <1>1
  <2>2. \A i \in 1 .. k - 1 : i \in 1 .. k
    BY <1>0
  <2> QED
    BY <1>1, <2>1, <2>2 DEF Squeezed
<1>2. CASE name[k].handle # h
  <2> DEFINE t == Append(s, name[k])
  <2>1. s \in Seq(Entry) /\ Len(s) \in Nat
    BY LenProperties DEF Squeezed
  <2>2. /\ t \in Seq(Entry) /\ Len(t) = Len(s) + 1
        /\ \A j \in 1 .. Len(s) : t[j] = s[j]
        /\ t[Len(s) + 1] = name[k]
    BY <1>0, <2>1
  <2> HIDE DEF t
  <2>3. \A j \in 1 .. Len(s) : \E i \in 1 .. k - 1 : s[j] = name[i]
    BY DEF Squeezed
  <2>4. Sorted(t)
    <3> SUFFICES ASSUME NEW i \in 1 .. Len(t), NEW j \in 1 .. Len(t), i < j
                 PROVE  t[i].name < t[j].name
      BY DEF Sorted
    <3>1. i \in 1 .. Len(s) /\ t[i] = s[i]
      BY <2>1, <2>2
    <3>2. CASE j \in 1 .. Len(s)
      BY <2>2, <3>1, <3>2 DEF Squeezed, Sorted
    <3>3. CASE j = Len(s) + 1
      <4>1. PICK l \in 1 .. k - 1 : s[i] = name[l]
        BY <2>3, <3>1
      <4>2. name[l].name < name[k].name
        BY <1>0 DEF Sorted
      <4> QED
        BY <2>2, <3>1, <3>3, <4>1, <4>2
    <3>4. j \in 1 .. Len(s) \/ j = Len(s) + 1
      BY <2>1, <2>2
    <3> QED
      BY <3>2, <3>3, <3>4
  <2>5. ASSUME NEW j \in 1 .. Len(t) PROVE \E i \in 1 .. k : t[j] = name[i]
    <3>1. CASE j \in 1 .. Len(s)
      <4>1. PICK i \in 1 .. k - 1 : s[j] = name[i]
        BY <2>3, <3>1
      <4>2. i \in 1 .. k
        BY <1>0
      <4> QED
        BY <2>2, <3>1, <4>1, <4>2
    <3>2. CASE j = Len(s) + 1
      BY <1>0, <2>2, <3>2
    <3> QED
      BY <2>1, <2>2, <3>1, <3>2
  <2>6. ASSUME NEW i \in 1 .. k, name[i].handle # h
        PROVE  \E j \in 1 .. Len(t) : t[j] = name[i]
    <3>1. CASE i = k
      <4>1. Len(s) + 1 \in 1 .. Len(t)
        BY <2>1, <2>2
      <4> QED
        BY <2>2, <3>1, <4>1
    <3>2. CASE i # k
      <4>1. i \in 1 .. k - 1
        BY <1>0, <3>2
      <4>2. PICK j \in 1 .. Len(s) : s[j] = name[i]
        BY <2>6, <4>1 DEF Squeezed
      <4>3. j \in 1 .. Len(t)
        BY <2>1, <2>2
      <4> QED
        BY <2>2, <4>2, <4>3
    <3> QED
      BY <3>1, <3>2
  <2> QED
    BY <1>2, <2>2, <2>4, <2>5, <2>6 DEF Squeezed, t
<1> QED
  BY <1>1, <1>2

LEMMA WithoutNames ==
  ASSUME name \in Seq(Entry), Sorted(name), NEW h
  PROVE  Squeezed(h, Len(name), WithoutNamesOf(h))
<1>0. Len(name) \in Nat
  BY NamesAreNumbers
<1> DEFINE Round2(f, i) == IF i = 0 THEN <<>>
                           ELSE IF name[i].handle = h THEN f[i - 1]
                           ELSE Append(f[i - 1], name[i])
           IsLoop(f, k) == f = [i \in 0 .. k |-> Round2(f, i)]
\* The equation of the loop has a solution ...
<1>1. \E f : IsLoop(f, Len(name))
  <2> DEFINE T == {k \in Nat : ~ \E f : IsLoop(f, k)}
  <2> SUFFICES ASSUME T # {} PROVE FALSE
    BY <1>0
  <2>1. T \subseteq Nat
    OBVIOUS
  <2>2. PICK k \in T : \A l \in T : k <= l
    <3> HIDE DEF T
    <3> QED BY <2>1, Least
  <2>3. CASE k = 0
    <3> DEFINE f == [i \in 0 .. 0 |-> <<>>]
    <3>1. \A i \in 0 .. 0 : Round2(f, i) = <<>>
      OBVIOUS
    <3>2. IsLoop(f, 0)
      BY <3>1
    <3> QED
      BY <2>3, <3>2
  <2>4. CASE k # 0
    <3>1. k - 1 \in Nat /\ k - 1 \notin T
      <4>1. k \in Nat
        BY <2>1
      <4> HIDE DEF T
      <4> QED BY <2>2, <2>4, <4>1
    <3>2. PICK f : IsLoop(f, k - 1)
      BY <3>1
    <3> DEFINE g == [i \in 0 .. k |-> IF i < k THEN f[i] ELSE Round2(f, k)]
    <3>3. \A i \in 0 .. k - 1 : g[i] = f[i] /\ f[i] = Round2(f, i)
      <4>1. \A i \in 0 .. k - 1 : g[i] = f[i]
        BY <3>1
      <4> HIDE DEF g, Round2
      <4> QED BY <3>2, <4>1
    <3>4. ASSUME NEW i \in 0 .. k PROVE Round2(g, i) = Round2(f, i)
      <4>1. i = 0 \/ i - 1 \in 0 .. k - 1
        BY <3>1
      <4>2. i # 0 => g[i - 1] = f[i - 1]
        BY <3>3, <4>1
      <4> HIDE DEF g
      <4> QED
        BY <4>2
    <3>5. ASSUME NEW i \in 0 .. k PROVE g[i] = Round2(f, i)
      <4>1. CASE i = k
        <5>1. ~ (i < k)
          BY <3>1, <4>1
        <5> HIDE DEF Round2
        <5> QED BY <4>1, <5>1
      <4>2. i # k => i \in 0 .. k - 1
        BY <3>1
      <4> HIDE DEF g, Round2
      <4> QED
        BY <3>3, <4>1, <4>2
    <3>6. g = [i \in 0 .. k |-> g[i]]
      OBVIOUS
    <3> HIDE DEF g, Round2
    <3>7. IsLoop(g, k)
      BY <3>4, <3>5, <3>6
    <3> QED
      BY <3>7
  <2> QED
    BY <2>3, <2>4
\* ... and each solution is what it should be.
<1>2. ASSUME NEW f, IsLoop(f, Len(name)), NEW m \in 0 .. Len(name)
      PROVE  Squeezed(h, m, f[m])
  <2> DEFINE T == {k \in 0 .. Len(name) : ~ Squeezed(h, k, f[k])}
  <2> SUFFICES ASSUME T # {} PROVE FALSE
    OBVIOUS
  <2>1. T \subseteq Nat
    BY <1>0
  <2>2. PICK k \in T : \A l \in T : k <= l
    <3> HIDE DEF T
    <3> QED BY <2>1, Least
  <2>3. CASE k = 0
    <3>1. f[0] = <<>>
      BY <1>0, <1>2
    <3>2. Squeezed(h, 0, <<>>)
      BY DEF Squeezed, Sorted
    <3> QED
      BY <2>3, <3>1, <3>2
  <2>4. CASE k # 0
    <3>1. k \in 1 .. Len(name) /\ k - 1 \in 0 .. Len(name) /\ k - 1 \notin T
      BY <1>0, <2>1, <2>2, <2>4
    <3>2. Squeezed(h, k - 1, f[k - 1])
      BY <3>1
    <3>3. f[k] = IF name[k].handle = h THEN f[k - 1] ELSE Append(f[k - 1], name[k])
      <4>1. k # 0 /\ k \in 0 .. Len(name)
        BY <3>1
      <4>2. f[k] = Round2(f, k)
        <5> HIDE DEF Round2
        <5> QED BY <1>2, <4>1
      <4> QED
        BY <4>1, <4>2
    <3>4. Squeezed(h, k, f[k])
      BY <3>1, <3>2, <3>3, SqueezeOne
    <3> QED
      BY <3>4
  <2> QED
    BY <2>3, <2>4
<1>3. WithoutNamesOf(h) = (CHOOSE f : IsLoop(f, Len(name)))[Len(name)]
  BY DEF WithoutNamesOf
<1>4. IsLoop(CHOOSE f : IsLoop(f, Len(name)), Len(name))
  <2> HIDE DEF IsLoop
  <2> QED BY <1>1
<1> QED
  <2> HIDE DEF IsLoop
  <2> QED BY <1>0, <1>2, <1>3, <1>4

-----------------------------------------------------------------------------
(***************************************************************************)
(* The inductive invariant.                                                *)
(***************************************************************************)
\* One thread launches services; with two, an expansion by the second may take
\* the handle of the context the first has placed to be 0.
OneLauncher == \A t, u \in Launcher : t = u

Types ==
    /\ slotSize \in Nat \ {0}
    /\ slot \in [0 .. slotSize - 1 -> Context \cup {None}]
    /\ handleIndex \in 1 .. HandleMask + 1
    /\ handle \in [Context -> 0 .. HandleMask]
    /\ status \in [Context -> {"new", "placed", "up", "gone"}]
    /\ task \in [Thread -> [do : {"idle", "register", "retire", "grab", "name"},
                            c : Context \cup {None}, n : Name \cup {0}]]
    /\ step \in [Thread -> {"look", "change", "expand", "assign", "done"}]
    /\ pick \in [Thread -> 0 .. HandleMask]
    /\ found \in [Thread -> Context \cup {None}]
    /\ failed \in {"no", "mask", "null", "collision"}

\* What a thread does tells where it is in the lock, and what it knows of the
\* context it does it with.
ToWrite == {"w_cas", "w_wait", "writing"}
ToRead == {"r_load", "r_inc", "r_check", "r_back", "reading"}

Idle(t) == task[t] = NoTask /\ step[t] = "look" /\ lpc[t] = "out"
Registers(t) == /\ task[t].do = "register" /\ t \in Launcher /\ task[t].c \in Context
                /\ \/ step[t] = "look" /\ lpc[t] \in ToWrite /\ status[task[t].c] = "new"
                   \/ /\ step[t] \in {"change", "expand"} /\ lpc[t] = "writing"
                      /\ status[task[t].c] = "new"
                   \/ step[t] = "assign" /\ lpc[t] = "out" /\ status[task[t].c] = "placed"
Retires(t) == /\ task[t].do = "retire" /\ task[t].c \in Context /\ Known(task[t].c)
              /\ \/ step[t] = "look" /\ lpc[t] \in ToWrite
                 \/ step[t] = "change" /\ lpc[t] = "writing"
Grabs(t) == /\ task[t].do = "grab" /\ task[t].c \in Context /\ Known(task[t].c)
            /\ \/ step[t] = "look" /\ lpc[t] \in ToRead
               \/ step[t] = "done" /\ lpc[t] = "reading"
Names(t) == /\ task[t].do = "name" /\ task[t].c \in Context /\ Known(task[t].c)
            /\ task[t].n \in Name /\ step[t] = "look" /\ lpc[t] \in ToWrite

Control == \A t \in Thread : Idle(t) \/ Registers(t) \/ Retires(t) \/ Grabs(t) \/ Names(t)

\* Handles of contexts, before and after skynet_context_new has stored them.
Handles == \A c \in Context : handle[c] # 0 <=> Known(c)

\* The table holds the contexts that are placed or up, each in the slot of its
\* handle, which for one that is placed only its launcher knows.
Placing(t) == task[t].do = "register" /\ step[t] = "assign"
Held == \A i \in 0 .. slotSize - 1 :
          slot[i] # None =>
            \/ status[slot[i]] = "up" /\ Hash(handle[slot[i]]) = i
            \/ /\ status[slot[i]] = "placed"
               /\ \E t \in Launcher : Placing(t) /\ task[t].c = slot[i] /\ Hash(pick[t]) = i

\* What a thread has seen of the table still holds when it changes it.
Seen == \A t \in Thread :
          /\ task[t].do = "register" /\ step[t] = "change" =>
               pick[t] # 0 /\ slot[Hash(pick[t])] = None
          /\ Placing(t) => pick[t] # 0 /\ slot[Hash(pick[t])] = task[t].c
          /\ task[t].do = "retire" /\ step[t] = "change" => IsRegistered(handle[task[t].c])

NameTable == name \in Seq(Entry) /\ Sorted(name)

TableInv == Types /\ Control /\ Handles /\ Held /\ Findable /\ Seen /\ NameTable
HandleInv == LockInv /\ TableInv

-----------------------------------------------------------------------------
(***************************************************************************)
(* Every step keeps the lock's invariant.                                  *)
(***************************************************************************)
LEMMA LockMoves == [Next]_vars => [LockNext]_lockVars
<1> SUFFICES ASSUME [Next]_vars PROVE [LockNext]_lockVars
  OBVIOUS
<1>1. CASE UNCHANGED vars
  BY <1>1 DEF vars, lockVars
<1>2. ASSUME NEW t \in Thread, Acquire(t) PROVE LockNext
  BY <1>2 DEF Acquire, LockNext
<1>3. ASSUME NEW t \in Thread, NEW c \in Context,
             \/ BeginRegister(t, c) \/ BeginRetire(t, c) \/ BeginGrab(t, c)
             \/ \E n \in Name : BeginName(t, c, n)
      PROVE  LockNext
  BY <1>3 DEF BeginRegister, BeginRetire, BeginGrab, BeginName, LockNext
<1>4. ASSUME NEW t \in Thread, RegisterLook(t) \/ Expand(t) \/ Assign(t) \/ GrabLook(t)
      PROVE  UNCHANGED lockVars
  BY <1>4 DEF RegisterLook, Expand, Assign, GrabLook
<1>5. ASSUME NEW t \in Thread,
             RegisterChange(t) \/ RetireChange(t) \/ NameChange(t) \/ ReadDone(t)
      PROVE  LockNext
  BY <1>5 DEF RegisterChange, RetireChange, NameChange, ReadDone, LockNext
<1>6. ASSUME NEW t \in Thread, RetireLook(t) PROVE LockNext \/ UNCHANGED lockVars
  BY <1>6 DEF RetireLook, LockNext
<1> QED
  BY <1>1, <1>2, <1>3, <1>4, <1>5, <1>6 DEF Next

LEMMA LockKept ==
  C11 = FALSE /\ LockInv /\ [Next]_vars => LockInv'
  BY LockMoves, LockStepInv

\* The lock of the handle table excludes, for any number of threads that launch,
\* retire, grab and name services, with a compare-and-swap that leaves its
\* expected value alone.
THEOREM TableLocked ==
  ASSUME C11 = FALSE
  PROVE  Spec => []MutualExclusion
<1>1. Init => LockInv
  BY LockInitInv DEF Init
<1>2. LockInv /\ [Next]_vars => LockInv'
  BY LockKept
<1> QED
  BY <1>1, <1>2, InvExcludes, PTL DEF Spec

-----------------------------------------------------------------------------
(***************************************************************************)
(* Every step keeps the invariant of the table.                            *)
(***************************************************************************)
\* What t does not touch of the other threads.
Others(t) == \A u \in Thread : u # t => /\ task'[u] = task[u] /\ step'[u] = step[u]
                                        /\ lpc'[u] = lpc[u] /\ pick'[u] = pick[u]

Doing(t) == Idle(t) \/ Registers(t) \/ Retires(t) \/ Grabs(t) \/ Names(t)

\* The other threads go on with what they did.
LEMMA ControlKept ==
  ASSUME Control, NEW t \in Thread, Others(t), Doing(t)',
         \A c \in Context : Known(c) => Known(c)',
         \A u \in Thread : u # t /\ Registers(u) => status'[task[u].c] = status[task[u].c]
  PROVE  Control'
<1> SUFFICES ASSUME NEW u \in Thread, u # t PROVE Doing(u)'
  BY DEF Control, Doing
<1>1. /\ task'[u] = task[u] /\ step'[u] = step[u] /\ lpc'[u] = lpc[u]
  BY DEF Others
<1>2. CASE Registers(u)
  BY <1>1, <1>2 DEF Registers, Doing
<1>3. CASE Idle(u)
  BY <1>1, <1>3 DEF Idle, Doing
<1>4. CASE Retires(u) \/ Grabs(u) \/ Names(u)
  BY <1>1, <1>4 DEF Retires, Grabs, Names, Doing
<1> QED
  BY <1>2, <1>3, <1>4 DEF Control

\* A step that neither changes the table nor relies on what it has seen of it.
LEMMA TableKept ==
  ASSUME TableInv, NEW t \in Thread, Others(t), UNCHANGED <<tableVars, handle, status>>,
         ~ Placing(t), ~ Placing(t)', step'[t] # "change"
  PROVE  Handles' /\ Held' /\ Findable' /\ Seen' /\ NameTable'
<1> USE DEF TableInv, tableVars
<1>1. Handles'
  BY DEF Handles, Known
<1>2. \A u \in Thread : u # t => (Placing(u)' <=> Placing(u))
  BY DEF Others, Placing
<1>3. Held'
  <2> SUFFICES ASSUME NEW i \in 0 .. slotSize - 1, slot[i] # None, status[slot[i]] = "placed",
                      NEW u \in Launcher, Placing(u), task[u].c = slot[i], Hash(pick[u]) = i
               PROVE  \E v \in Launcher : /\ Placing(v)' /\ task'[v].c = slot[i]
                                          /\ Hash(pick'[v]) = i
    BY DEF Held, Hash
  <2>1. u \in Thread /\ u # t
    BY HandleAssumption
  <2> QED
    BY <1>2, <2>1 DEF Others
<1>4. Findable' /\ NameTable'
  BY DEF Findable, NameTable, Hash, Sorted
<1>5. Seen'
  BY <1>2 DEF Seen, Others, Hash, IsRegistered, Occupant, Placing
<1> QED
  BY <1>1, <1>3, <1>4, <1>5

\* A thread on its way to the lock.
LEMMA AcquireStep ==
  ASSUME HandleInv, NEW t \in Thread, Acquire(t)
  PROVE  TableInv'
<1> USE DEF HandleInv, TableInv
<1>1. UNCHANGED <<tableVars, handle, status, task, step, pick, found, failed>>
  BY DEF Acquire
<1>2. Types' /\ Handles' /\ Held' /\ Findable' /\ Seen' /\ NameTable'
  BY <1>1 DEF Types, Handles, Held, Findable, Seen, NameTable, tableVars, Known, Hash,
              IsRegistered, Occupant, Placing, Sorted
<1>3. /\ lpc[t] \in ToRead \cup ToWrite /\ lpc[t] \notin {"reading", "writing"}
      /\ lpc[t] \in ToRead => lpc'[t] \in ToRead
      /\ lpc[t] \in ToWrite => lpc'[t] \in ToWrite
      /\ \A u \in Thread : u # t => lpc'[u] = lpc[u]
  BY DEF Acquire, LockStep, ReadLoad, ReadInc, ReadCheck, ReadBack, WriteCas,
         WriteCasFails, WriteWait, LockGoto, LockInv, LockTypeOK, ToRead, ToWrite
<1>4. Doing(t)
  BY DEF Control, Doing
<1>5. Doing(t)'
  BY <1>1, <1>3, <1>4 DEF Doing, Idle, Registers, Retires, Grabs, Names, Known, ToRead, ToWrite
<1>6. Others(t)
  BY <1>1, <1>3 DEF Others
<1>7. Control'
  BY <1>1, <1>5, <1>6, ControlKept DEF Known
<1> QED
  BY <1>2, <1>7

\* A thread begins a task.
LEMMA BeginStep ==
  ASSUME HandleInv, NEW t \in Thread, NEW c \in Context,
         \/ BeginRegister(t, c) \/ BeginRetire(t, c) \/ BeginGrab(t, c)
         \/ \E n \in Name : BeginName(t, c, n)
  PROVE  TableInv'
<1> USE DEF HandleInv, TableInv
<1>1. /\ UNCHANGED <<tableVars, handle, status, pick, failed>>
      /\ task[t] = NoTask
      /\ found' \in [Thread -> Context \cup {None}]
      /\ step' = [step EXCEPT ![t] = "look"]
      /\ \A u \in Thread : u # t => lpc'[u] = lpc[u]
  BY DEF BeginRegister, BeginRetire, BeginGrab, BeginName, Begin, StepTo, BeginWrite,
         BeginRead, LockGoto, LockInv, LockTypeOK, Types
<1>2. PICK do \in {"register", "retire", "grab", "name"}, n \in Name \cup {0} :
         task' = [task EXCEPT ![t] = [do |-> do, c |-> c, n |-> n]]
  BY DEF BeginRegister, BeginRetire, BeginGrab, BeginName, Begin
<1>3. Types'
  BY <1>1, <1>2 DEF Types, tableVars
<1>4. Others(t)
  BY <1>1, <1>2 DEF Others, Types
<1>5. ~ Placing(t) /\ ~ Placing(t)' /\ step'[t] = "look"
  BY <1>1 DEF Placing, NoTask, Types
<1>6. Handles' /\ Held' /\ Findable' /\ Seen' /\ NameTable'
  BY <1>1, <1>4, <1>5, TableKept
<1>7. Doing(t)'
  <2>1. CASE BeginRegister(t, c)
    BY <1>5, <2>1 DEF BeginRegister, Begin, BeginWrite, LockGoto, Doing, Registers, ToWrite,
                      Types, LockInv, LockTypeOK
  <2>2. CASE BeginRetire(t, c)
    BY <1>5, <2>2 DEF BeginRetire, Begin, BeginWrite, LockGoto, Doing, Retires, ToWrite,
                      Known, Types, LockInv, LockTypeOK
  <2>3. CASE BeginGrab(t, c)
    BY <1>5, <2>3 DEF BeginGrab, Begin, BeginRead, LockGoto, Doing, Grabs, ToRead,
                      Known, Types, LockInv, LockTypeOK
  <2>4. CASE \E m \in Name : BeginName(t, c, m)
    BY <1>5, <2>4 DEF BeginName, Begin, BeginWrite, LockGoto, Doing, Names, ToWrite,
                      Known, Types, LockInv, LockTypeOK
  <2> QED
    BY <2>1, <2>2, <2>3, <2>4
<1>8. Control'
  BY <1>1, <1>4, <1>7, ControlKept DEF Known
<1> QED
  BY <1>3, <1>6, <1>8

\* A handle that is tried is one, and fits the table.
LEMMA TriedIsHandle ==
  ASSUME Types, NEW i \in 0 .. slotSize - 1
  PROVE  Tried(i) \in 1 .. HandleMask
  BY HandleAssumption DEF Tried, Types

\* What happens inside the lock to the place of the thread in it.
LEMMA Unlocked ==
  ASSUME HandleInv, NEW t \in Thread, WriteUnlock(t) \/ ReadUnlock(t)
  PROVE  lpc'[t] = "out" /\ \A u \in Thread : u # t => lpc'[u] = lpc[u]
  BY DEF WriteUnlock, ReadUnlock, LockGoto, HandleInv, LockInv, LockTypeOK

LEMMA FinishTypes ==
  ASSUME Types, NEW t \in Thread, Finish(t)
  PROVE  /\ task'[t] = NoTask /\ step'[t] = "look"
         /\ \A u \in Thread : u # t => /\ task'[u] = task[u] /\ step'[u] = step[u]
                                       /\ pick'[u] = pick[u]
         /\ task' \in [Thread -> [do : {"idle", "register", "retire", "grab", "name"},
                                  c : Context \cup {None}, n : Name \cup {0}]]
         /\ step' \in [Thread -> {"look", "change", "expand", "assign", "done"}]
         /\ pick' \in [Thread -> 0 .. HandleMask]
         /\ found' \in [Thread -> Context \cup {None}]
<1>1. 0 \in 0 .. HandleMask
  BY HandleAssumption
<1> QED
  BY <1>1 DEF Finish, StepTo, Types, NoTask

\* skynet_handle_register looks for a free slot.
LEMMA RegisterLookStep ==
  ASSUME HandleInv, NEW t \in Thread, RegisterLook(t)
  PROVE  TableInv'
<1> USE DEF HandleInv, TableInv
<1>1. /\ UNCHANGED <<lockVars, tableVars, handle, status, task, found, failed>>
      /\ task[t].do = "register" /\ step[t] = "look" /\ lpc[t] = "writing"
  BY DEF RegisterLook, Writing
<1>2. Registers(t)
  BY <1>1 DEF Control, Idle, NoTask, Retires, Grabs, Names
<1>3. CASE FreeTries # {}
  <2>1. PICK i \in FreeTries : pick' = [pick EXCEPT ![t] = Tried(i)]
    <3> DEFINE first == CHOOSE i \in FreeTries : \A j \in FreeTries : i <= j
    <3>1. FreeTries \subseteq Nat
      BY DEF FreeTries, Types
    <3>2. \E i \in FreeTries : \A j \in FreeTries : i <= j
      BY <1>3, <3>1, Least
    <3>3. first \in FreeTries
      BY <3>2
    <3> QED
      BY <1>3, <3>3 DEF RegisterLook
  <2>2. step' = [step EXCEPT ![t] = "change"]
    BY <1>3 DEF RegisterLook, StepTo
  <2>3. /\ Tried(i) \in 1 .. HandleMask /\ slot[Hash(Tried(i))] = None
    BY TriedIsHandle DEF FreeTries
  <2>4. Types'
    BY <1>1, <2>1, <2>2, <2>3 DEF Types, tableVars
  <2>5. Others(t) /\ step'[t] = "change" /\ pick'[t] = Tried(i) /\ Tried(i) # 0
    BY <1>1, <2>1, <2>2, <2>3 DEF Others, Types, lockVars
  <2>6. Doing(t)'
    BY <1>1, <1>2, <2>5 DEF Doing, Registers, lockVars
  <2>7. Control'
    BY <1>1, <2>5, <2>6, ControlKept DEF Known
  <2>8. Handles' /\ Findable' /\ NameTable'
    BY <1>1 DEF Handles, Findable, NameTable, Known, Hash, tableVars, Sorted
  <2>9. \A u \in Thread : Placing(u)' <=> Placing(u)
    BY <1>1, <2>5 DEF Placing, Others
  <2>10. Held'
    <3> SUFFICES ASSUME NEW k \in 0 .. slotSize - 1, slot[k] # None, status[slot[k]] = "placed",
                        NEW u \in Launcher, Placing(u), task[u].c = slot[k], Hash(pick[u]) = k
                 PROVE  Placing(u)' /\ task'[u].c = slot[k] /\ Hash(pick'[u]) = k
      BY <1>1 DEF Held, Hash, tableVars
    <3>1. u \in Thread /\ u # t
      BY <1>1, HandleAssumption DEF Placing
    <3> QED
      BY <1>1, <2>5, <2>9, <3>1 DEF Others
  <2>11. Seen'
    BY <1>1, <2>3, <2>5, <2>9
       DEF Seen, Others, Hash, tableVars, IsRegistered, Occupant, Placing
  <2> QED
    BY <2>4, <2>7, <2>8, <2>10, <2>11
<1>4. CASE FreeTries = {}
  <2>1. step' = [step EXCEPT ![t] = "expand"] /\ UNCHANGED pick
    BY <1>4 DEF RegisterLook, StepTo
  <2>2. Types'
    BY <1>1, <2>1 DEF Types, tableVars
  <2>3. Others(t) /\ step'[t] = "expand"
    BY <1>1, <2>1 DEF Others, Types, lockVars
  <2>4. Doing(t)'
    BY <1>1, <1>2, <2>3 DEF Doing, Registers, lockVars
  <2>5. Control'
    BY <1>1, <2>3, <2>4, ControlKept DEF Known
  <2>6. Handles' /\ Held' /\ Findable' /\ Seen' /\ NameTable'
    BY <1>1, <2>3, TableKept DEF Placing
  <2> QED
    BY <2>2, <2>5, <2>6
<1> QED
  BY <1>3, <1>4

\* While a thread writes, no other is about to change the table.
LEMMA Alone ==
  ASSUME HandleInv, NEW t \in Thread, lpc[t] = "writing", NEW u \in Thread, u # t
  PROVE  step[u] # "change" /\ step[u] # "expand"
<1>1. lpc[u] # "writing"
  BY InvExcludes DEF HandleInv, MutualExclusion
<1> QED
  BY <1>1 DEF HandleInv, TableInv, Control, Idle, Registers, Retires, Grabs, Names

\* With one launching thread no context is placed but by it.
LEMMA PlacedByOne ==
  ASSUME OneLauncher, HandleInv, NEW t \in Thread, task[t].do = "register"
  PROVE  /\ Registers(t)
         /\ \A u \in Thread : u # t => task[u].do # "register"
         /\ \A i \in 0 .. slotSize - 1 :
              slot[i] # None /\ status[slot[i]] = "placed" =>
                Placing(t) /\ task[t].c = slot[i] /\ Hash(pick[t]) = i
<1> USE DEF HandleInv, TableInv
<1>1. Registers(t)
  BY DEF Control, Idle, NoTask, Retires, Grabs, Names
<1>2. ASSUME NEW u \in Thread, task[u].do = "register" PROVE u = t
  <2>1. Registers(u)
    BY <1>2 DEF Control, Idle, NoTask, Retires, Grabs, Names
  <2> QED
    BY <1>1, <2>1 DEF Registers, OneLauncher
<1>3. \A u \in Launcher : u = t
  BY <1>1 DEF Registers, OneLauncher
<1> QED
  BY <1>1, <1>2, <1>3 DEF Held

\* skynet_handle_register fills the slot.
LEMMA RegisterChangeStep ==
  ASSUME OneLauncher, HandleInv, NEW t \in Thread, RegisterChange(t)
  PROVE  TableInv'
<1> USE DEF HandleInv, TableInv
<1> DEFINE c == task[t].c
           k == Hash(pick[t])
<1>1. /\ UNCHANGED <<slotSize, name, handle, task, pick, found, failed>>
      /\ slot' = [slot EXCEPT ![k] = c]
      /\ handleIndex' = pick[t] + 1
      /\ status' = [status EXCEPT ![c] = "placed"]
      /\ step' = [step EXCEPT ![t] = "assign"]
      /\ task[t].do = "register" /\ step[t] = "change" /\ lpc[t] = "writing"
      /\ WriteUnlock(t)
  BY DEF RegisterChange, Writing, StepTo
<1>2. /\ Registers(t) /\ \A u \in Thread : u # t => task[u].do # "register"
      /\ \A i \in 0 .. slotSize - 1 : slot[i] # None => status[slot[i]] # "placed"
  BY <1>1, PlacedByOne DEF Placing
<1>3. c \in Context /\ status[c] = "new" /\ t \in Launcher
  BY <1>1, <1>2 DEF Registers
<1>4. pick[t] \in 1 .. HandleMask /\ slot[k] = None /\ k \in 0 .. slotSize - 1
  BY <1>1 DEF Seen, Types, Hash
<1>5. lpc'[t] = "out" /\ \A u \in Thread : u # t => lpc'[u] = lpc[u]
  BY <1>1, Unlocked
<1> HIDE DEF c, k
<1>6. Types'
  <2>1. handleIndex' \in 1 .. HandleMask + 1
    BY <1>1, <1>4, HandleAssumption
  <2>2. slot' \in [0 .. slotSize - 1 -> Context \cup {None}]
    BY <1>1, <1>3 DEF Types
  <2>3. /\ status' \in [Context -> {"new", "placed", "up", "gone"}]
        /\ step' \in [Thread -> {"look", "change", "expand", "assign", "done"}]
    BY <1>1 DEF Types
  <2> QED
    BY <1>1, <2>1, <2>2, <2>3 DEF Types
<1>7. /\ status'[c] = "placed" /\ \A d \in Context : d # c => status'[d] = status[d]
      /\ slot'[k] = c /\ \A i \in 0 .. slotSize - 1 : i # k => slot'[i] = slot[i]
      /\ step'[t] = "assign" /\ Others(t)
  BY <1>1, <1>3, <1>4, <1>5 DEF Types, Others
<1>8. Control'
  <2>1. Doing(t)'
    BY <1>1, <1>2, <1>3, <1>5, <1>7 DEF Doing, Registers, c
  <2>2. \A d \in Context : Known(d) => Known(d)'
    BY <1>3, <1>7 DEF Known
  <2>3. \A u \in Thread : u # t => ~ Registers(u)
    BY <1>2 DEF Registers
  <2> QED
    BY <1>7, <2>1, <2>2, <2>3, ControlKept
<1>9. Handles'
  BY <1>1, <1>3, <1>7 DEF Handles, Known
<1>10. Held'
  <2> SUFFICES ASSUME NEW i \in 0 .. slotSize - 1, slot'[i] # None
               PROVE  \/ status'[slot'[i]] = "up" /\ Hash(handle[slot'[i]]) = i
                      \/ /\ status'[slot'[i]] = "placed"
                         /\ \E u \in Launcher : /\ Placing(u)' /\ task[u].c = slot'[i]
                                                /\ Hash(pick[u]) = i
    BY <1>1 DEF Held, Hash
  <2>1. CASE i = k
    BY <1>1, <1>3, <1>7, <2>1 DEF Placing, c, k
  <2>2. CASE i # k
    <3>1. slot'[i] = slot[i] /\ slot[i] \in Context
      BY <1>7, <2>2 DEF Types
    <3>2. status[slot[i]] = "up" /\ Hash(handle[slot[i]]) = i
      BY <1>2, <3>1 DEF Held
    <3> QED
      BY <1>3, <1>7, <3>1, <3>2
  <2> QED
    BY <2>1, <2>2
<1>11. Findable'
  <2> SUFFICES ASSUME NEW d \in Context, status'[d] = "up"
               PROVE  slot'[Hash(handle[d])] = d
    BY <1>1 DEF Findable, Hash
  <2>1. status[d] = "up"
    BY <1>7
  <2>2. slot[Hash(handle[d])] = d /\ Hash(handle[d]) \in 0 .. slotSize - 1
    BY <2>1 DEF Findable, Types, Hash
  <2>3. Hash(handle[d]) # k
    BY <1>4, <2>2, HandleAssumption
  <2> QED
    BY <1>7, <2>2, <2>3
<1>12. Seen'
  <2>1. \A u \in Thread : u # t => task[u].do # "register" /\ step'[u] # "change"
    BY <1>1, <1>2, <1>7, Alone DEF Others
  <2>2. step'[t] # "change" /\ pick[t] # 0 /\ slot'[Hash(pick[t])] = task[t].c
    BY <1>4, <1>7 DEF c, k
  <2> QED
    BY <1>1, <2>1, <2>2 DEF Seen, Placing, Hash
<1>13. NameTable'
  BY <1>1 DEF NameTable, Sorted
<1> QED
  BY <1>6, <1>8, <1>9, <1>10, <1>11, <1>12, <1>13

\* skynet_context_new stores the handle.
LEMMA AssignStep ==
  ASSUME OneLauncher, HandleInv, NEW t \in Thread, Assign(t)
  PROVE  TableInv'
<1> USE DEF HandleInv, TableInv
<1> DEFINE c == task[t].c
<1>1. /\ UNCHANGED <<lockVars, tableVars, failed>>
      /\ handle' = [handle EXCEPT ![c] = pick[t]]
      /\ status' = [status EXCEPT ![c] = "up"]
      /\ Finish(t) /\ Placing(t)
  BY DEF Assign, Placing
<1>2. /\ Registers(t) /\ \A u \in Thread : u # t => task[u].do # "register"
      /\ \A i \in 0 .. slotSize - 1 :
           slot[i] # None /\ status[slot[i]] = "placed" => c = slot[i] /\ Hash(pick[t]) = i
  BY <1>1, PlacedByOne DEF Placing
<1>3. c \in Context /\ status[c] = "placed" /\ lpc[t] = "out"
  BY <1>1, <1>2 DEF Registers, Placing
<1>4. /\ pick[t] \in 1 .. HandleMask /\ slot[Hash(pick[t])] = c
      /\ Hash(pick[t]) \in 0 .. slotSize - 1
  BY <1>1 DEF Seen, Types, Hash
<1>5. handle[c] = 0
  BY <1>3 DEF Handles, Known
<1> HIDE DEF c
<1>6. Types'
  BY <1>1, <1>3, <1>4, FinishTypes DEF Types, tableVars
<1>7. /\ status'[c] = "up" /\ \A d \in Context : d # c => status'[d] = status[d]
      /\ handle'[c] = pick[t] /\ \A d \in Context : d # c => handle'[d] = handle[d]
      /\ slot' = slot /\ slotSize' = slotSize
  BY <1>1, <1>3 DEF Types, tableVars
<1>8. Others(t) /\ Idle(t)'
  BY <1>1, <1>3, FinishTypes DEF Others, Idle, lockVars
<1>9. Control'
  <2>1. Doing(t)'
    BY <1>8 DEF Doing
  <2>2. \A d \in Context : Known(d) => Known(d)'
    BY <1>3, <1>7 DEF Known
  <2>3. \A u \in Thread : u # t => ~ Registers(u)
    BY <1>2 DEF Registers
  <2> QED
    BY <1>8, <2>1, <2>2, <2>3, ControlKept
<1>10. Handles'
  BY <1>4, <1>7 DEF Handles, Known
<1>11. Held'
  <2> SUFFICES ASSUME NEW i \in 0 .. slotSize - 1, slot[i] # None
               PROVE  status'[slot[i]] = "up" /\ Hash(handle'[slot[i]]) = i
    BY <1>7 DEF Held, Hash
  <2>1. slot[i] \in Context
    BY DEF Types
  <2>2. CASE slot[i] = c
    BY <1>2, <1>3, <1>7, <2>2
  <2>3. CASE slot[i] # c
    BY <1>2, <1>7, <2>1, <2>3 DEF Held
  <2> QED
    BY <2>2, <2>3
<1>12. Findable'
  <2> SUFFICES ASSUME NEW d \in Context, status'[d] = "up"
               PROVE  slot[Hash(handle'[d])] = d
    BY <1>7 DEF Findable, Hash
  <2> QED
    BY <1>4, <1>7 DEF Findable
<1>13. Seen'
  <2> SUFFICES ASSUME NEW u \in Thread, u # t, task[u].do = "retire", step[u] = "change"
               PROVE  slot[Hash(handle'[task[u].c])] # None
                      /\ handle'[slot[Hash(handle'[task[u].c])]] = handle'[task[u].c]
    BY <1>2, <1>7, <1>8 DEF Seen, Others, Idle, NoTask, Placing, Hash, IsRegistered, Occupant
  <2>1. task[u].c \in Context /\ Known(task[u].c)
    BY DEF Control, Idle, NoTask, Registers, Retires, Grabs, Names
  <2>2. task[u].c # c
    BY <1>3, <2>1 DEF Known
  <2>3. IsRegistered(handle[task[u].c]) /\ handle[task[u].c] # 0
    BY <2>1 DEF Seen, Handles
  <2>4. Occupant(handle[task[u].c]) \in Context
    BY <2>1, <2>3 DEF IsRegistered, Occupant, Types, Hash
  <2>5. Occupant(handle[task[u].c]) # c
    BY <1>5, <2>3 DEF IsRegistered
  <2> QED
    BY <1>7, <2>1, <2>2, <2>3, <2>4, <2>5 DEF IsRegistered, Occupant
<1>14. NameTable'
  BY <1>1 DEF NameTable, tableVars, Sorted
<1> QED
  BY <1>6, <1>9, <1>10, <1>11, <1>12, <1>13, <1>14

\* Division with a remainder, which has one result.
LEMMA Division ==
  ASSUME NEW n \in Nat \ {0}, NEW x \in Nat
  PROVE  x \div n \in Nat /\ x % n \in 0 .. n - 1 /\ x = n * (x \div n) + (x % n)
  OBVIOUS

LEMMA Remainder ==
  ASSUME NEW n \in Nat \ {0}, NEW q \in Nat, NEW r \in 0 .. n - 1
  PROVE  (n * q + r) % n = r
<1> DEFINE x == n * q + r
           p == x \div n
           s == x % n
<1>1. x \in Nat /\ p \in Nat /\ s \in 0 .. n - 1 /\ x = n * p + s
  OBVIOUS
<1> HIDE DEF p, s
<1>2. CASE p = q
  BY <1>1, <1>2
<1>3. CASE p < q
  <2>1. PICK d \in Nat : q = p + 1 + d
    <3>1. q - p - 1 \in Nat /\ q = p + 1 + (q - p - 1)
      BY <1>1, <1>3
    <3> QED BY <3>1
  <2>2. n * q = n * p + n + n * d /\ n * d >= 0
    BY <1>1, <2>1
  <2> QED BY <1>1, <2>2
<1>4. CASE q < p
  <2>1. PICK d \in Nat : p = q + 1 + d
    <3>1. p - q - 1 \in Nat /\ p = q + 1 + (p - q - 1)
      BY <1>1, <1>4
    <3> QED BY <3>1
  <2>2. n * p = n * q + n + n * d /\ n * d >= 0
    BY <1>1, <2>1
  <2> QED BY <1>1, <2>2
<1>5. (n * q + r) % n = s
  BY DEF s
<1> QED BY <1>1, <1>2, <1>3, <1>4, <1>5

\* Two handles that share a slot of the table that has doubled shared one before.
LEMMA HalfOfTable ==
  ASSUME NEW n \in Nat \ {0}, NEW a \in Nat, NEW b \in Nat, a % (2 * n) = b % (2 * n)
  PROVE  a % n = b % n
<1>1. ASSUME NEW x \in Nat
      PROVE  x % n = IF x % (2 * n) < n THEN x % (2 * n) ELSE (x % (2 * n)) - n
  <2> DEFINE m == 2 * n
             q == x \div m
             r == x % m
  <2>1. q \in Nat /\ r \in 0 .. m - 1 /\ x = m * q + r
    <3>1. m \in Nat \ {0}
      OBVIOUS
    <3> HIDE DEF m
    <3> QED BY <3>1, Division DEF q, r
  <2>2. m = 2 * n /\ m \in Nat
    OBVIOUS
  <2> HIDE DEF q, r
  <2>3. CASE r < n
    <3>1. x = n * (2 * q) + r /\ 2 * q \in Nat
      BY <2>1
    <3>2. (n * (2 * q) + r) % n = r
      BY <2>1, <2>3, <3>1, Remainder
    <3> QED BY <2>3, <3>1, <3>2 DEF r
  <2>4. CASE r >= n
    <3>1. x = n * (2 * q + 1) + (r - n) /\ 2 * q + 1 \in Nat /\ r - n \in 0 .. n - 1
      BY <2>1, <2>4
    <3>2. (n * (2 * q + 1) + (r - n)) % n = r - n
      BY <3>1, Remainder
    <3> QED BY <2>1, <2>4, <3>1, <3>2 DEF r
  <2> QED BY <2>1, <2>3, <2>4
<1> QED
  BY <1>1

\* An expansion by the only launching thread moves contexts that are up.
LEMMA ExpandStep ==
  ASSUME OneLauncher, HandleInv, NEW t \in Thread, Expand(t)
  PROVE  TableInv' /\ failed' # "collision"
<1> USE DEF HandleInv, TableInv
<1>1. /\ UNCHANGED <<lockVars, handleIndex, name, handle, status, task, pick, found>>
      /\ task[t].do = "register" /\ step[t] = "expand" /\ lpc[t] = "writing"
      /\ failed = "no"
  BY DEF Expand, Writing
<1>2. /\ Registers(t) /\ \A u \in Thread : u # t => task[u].do # "register"
      /\ \A i \in 0 .. slotSize - 1 :
           slot[i] # None => status[slot[i]] = "up" /\ Hash(handle[slot[i]]) = i
  BY <1>1, PlacedByOne DEF Placing, Held
<1>3. Handles' /\ NameTable'
  BY <1>1 DEF Handles, NameTable, Known, Sorted
<1>4. CASE UNCHANGED <<slotSize, slot, step>> /\ failed' \in {"mask", "null"}
  <2>1. Types'
    BY <1>1, <1>4 DEF Types
  <2>2. Held' /\ Findable' /\ Seen'
    BY <1>1, <1>4 DEF Held, Findable, Seen, Hash, Placing, IsRegistered, Occupant
  <2>3. Control'
    BY <1>1, <1>4 DEF Control, Idle, Registers, Retires, Grabs, Names, Known, lockVars
  <2> QED
    BY <1>3, <1>4, <2>1, <2>2, <2>3
<1>5. ASSUME \A i \in 0 .. slotSize - 1 : slot[i] # None
      PROVE  ~ \E i, j \in 0 .. slotSize - 1 : i # j /\ NewHash(i) = NewHash(j)
  <2> SUFFICES ASSUME NEW i \in 0 .. slotSize - 1, NEW j \in 0 .. slotSize - 1,
                      NewHash(i) = NewHash(j)
               PROVE  i = j
    OBVIOUS
  <2>1. /\ handle[slot[i]] \in Nat /\ handle[slot[i]] % slotSize = i
        /\ handle[slot[j]] \in Nat /\ handle[slot[j]] % slotSize = j
    BY <1>2, <1>5, HandleAssumption DEF Types, Hash
  <2>2. handle[slot[i]] % slotSize = handle[slot[j]] % slotSize
    BY <2>1, HalfOfTable DEF NewHash, Types
  <2> QED
    BY <2>1, <2>2
<1>6. CASE /\ slot' = Moved /\ slotSize' = 2 * slotSize
           /\ step' = [step EXCEPT ![t] = "look"] /\ failed' = failed
           /\ \A i \in 0 .. slotSize - 1 : slot[i] # None
  <2>1. \A i, j \in 0 .. slotSize - 1 : NewHash(i) = NewHash(j) => i = j
    BY <1>5, <1>6
  <2>2. \A i \in 0 .. slotSize - 1 : slot[i] \in Context /\ NewHash(i) \in 0 .. 2 * slotSize - 1
    BY <1>6 DEF Types, NewHash
  <2>3. \A i \in 0 .. slotSize - 1 : slot'[NewHash(i)] = slot[i]
    <3> SUFFICES ASSUME NEW i \in 0 .. slotSize - 1 PROVE slot'[NewHash(i)] = slot[i]
      OBVIOUS
    <3>1. {l \in 0 .. slotSize - 1 : NewHash(l) = NewHash(i)} = {i}
      BY <2>1
    <3> QED
      BY <1>6, <2>2, <3>1 DEF Moved
  <2>4. \A j \in 0 .. 2 * slotSize - 1 :
          slot'[j] = None \/ \E i \in 0 .. slotSize - 1 : slot'[j] = slot[i] /\ NewHash(i) = j
    <3> SUFFICES ASSUME NEW j \in 0 .. 2 * slotSize - 1,
                        NEW i \in 0 .. slotSize - 1, NewHash(i) = j
                 PROVE  slot'[j] = slot[i]
      BY <1>6 DEF Moved
    <3> QED
      BY <2>3
  <2>5. Types'
    <3>1. slot' \in [0 .. 2 * slotSize - 1 -> Context \cup {None}]
      <4>1. slot' = [j \in 0 .. 2 * slotSize - 1 |-> slot'[j]]
        BY <1>6 DEF Moved
      <4> QED
        BY <2>2, <2>4, <4>1
    <3> QED
      BY <1>1, <1>6, <3>1 DEF Types
  <2>6. Others(t) /\ step'[t] = "look"
    BY <1>1, <1>6 DEF Others, Types, lockVars
  <2>7. Control'
    <3>1. Doing(t)'
      BY <1>1, <1>2, <2>6 DEF Doing, Registers, ToWrite, lockVars
    <3> QED
      BY <1>1, <2>6, <3>1, ControlKept DEF Known
  <2>8. Held'
    BY <1>1, <1>2, <1>6, <2>4 DEF Held, Hash, NewHash
  <2>9. Findable'
    <3> SUFFICES ASSUME NEW d \in Context, status[d] = "up"
                 PROVE  slot'[handle[d] % (2 * slotSize)] = d
      BY <1>1, <1>6 DEF Findable, Hash
    <3>1. slot[Hash(handle[d])] = d /\ Hash(handle[d]) \in 0 .. slotSize - 1
      BY DEF Findable, Types, Hash
    <3> QED
      BY <2>3, <3>1 DEF NewHash
  <2>10. Seen'
    <3>1. \A u \in Thread : step'[u] # "change" /\ ~ Placing(u)'
      BY <1>1, <1>2, <2>6, Alone DEF Others, Placing
    <3> QED
      BY <3>1 DEF Seen
  <2> QED
    BY <1>1, <1>3, <1>6, <2>5, <2>7, <2>8, <2>9, <2>10
<1> QED
  BY <1>1, <1>4, <1>5, <1>6 DEF Expand, StepTo

\* skynet_handle_retire compares the handle.
LEMMA RetireLookStep ==
  ASSUME HandleInv, NEW t \in Thread, RetireLook(t)
  PROVE  TableInv'
<1> USE DEF HandleInv, TableInv
<1>1. /\ UNCHANGED <<tableVars, handle, status, failed>>
      /\ task[t].do = "retire" /\ step[t] = "look" /\ lpc[t] = "writing"
  BY DEF RetireLook, Writing
<1>2. Retires(t)
  BY <1>1 DEF Control, Idle, NoTask, Registers, Grabs, Names
<1>3. CASE IsRegistered(handle[task[t].c])
  <2>1. UNCHANGED <<lockVars, task, pick, found>> /\ step' = [step EXCEPT ![t] = "change"]
    BY <1>3 DEF RetireLook, StepTo
  <2>2. Types'
    BY <1>1, <2>1 DEF Types, tableVars
  <2>3. Others(t) /\ step'[t] = "change"
    BY <2>1 DEF Others, Types, lockVars
  <2>4. Doing(t)'
    BY <1>1, <1>2, <2>1, <2>3 DEF Doing, Retires, Known, lockVars
  <2>5. Control'
    BY <1>1, <2>3, <2>4, ControlKept DEF Known
  <2>6. Handles' /\ Findable' /\ NameTable'
    BY <1>1 DEF Handles, Findable, NameTable, Known, Hash, tableVars, Sorted
  <2>7. \A u \in Thread : Placing(u)' <=> Placing(u)
    BY <1>1, <2>1, <2>3 DEF Placing, Others
  <2>8. Held'
    <3>1. Launcher \subseteq Thread
      BY HandleAssumption
    <3> QED
      BY <1>1, <2>1, <2>7, <3>1 DEF Held, Hash, tableVars
  <2>9. Seen'
    BY <1>1, <1>3, <2>1, <2>3, <2>7
       DEF Seen, Others, Hash, tableVars, IsRegistered, Occupant
  <2> QED
    BY <2>2, <2>5, <2>6, <2>8, <2>9
<1>4. CASE ~ IsRegistered(handle[task[t].c])
  <2>1. WriteUnlock(t) /\ Finish(t)
    BY <1>4 DEF RetireLook
  <2>2. Types'
    BY <1>1, <2>1, FinishTypes DEF Types, tableVars
  <2>3. Others(t) /\ Idle(t)'
    BY <2>1, Unlocked, FinishTypes DEF Others, Idle
  <2>4. Control'
    BY <1>1, <2>3, ControlKept DEF Known, Doing
  <2>5. Handles' /\ Held' /\ Findable' /\ Seen' /\ NameTable'
    BY <1>1, <2>3, TableKept DEF Placing, Idle
  <2> QED
    BY <2>2, <2>4, <2>5
<1> QED
  BY <1>3, <1>4

\* A thread that is about to retire a handle sees a context that is up.
LEMMA RetiresOne ==
  ASSUME HandleInv, NEW t \in Thread, RetireChange(t)
  PROVE  LET h == handle[task[t].c]
             o == Occupant(h)
         IN /\ h \in 1 .. HandleMask /\ Hash(h) \in 0 .. slotSize - 1
            /\ o \in Context /\ handle[o] = h /\ status[o] = "up"
            /\ \A i \in 0 .. slotSize - 1 : slot[i] = o => i = Hash(h)
<1> USE DEF HandleInv, TableInv
<1> DEFINE h == handle[task[t].c]
           o == Occupant(h)
<1>1. task[t].do = "retire" /\ step[t] = "change" /\ lpc[t] = "writing"
  BY DEF RetireChange, Writing
<1>2. task[t].c \in Context /\ Known(task[t].c)
  BY <1>1 DEF Control, Idle, NoTask, Registers, Retires, Grabs, Names
<1>3. h \in 1 .. HandleMask /\ h \in Nat
  BY <1>2, HandleAssumption DEF Handles, Types
<1> HIDE DEF h
<1>4. Hash(h) \in 0 .. slotSize - 1
  BY <1>3 DEF Hash, Types
<1>5. o # None /\ handle[o] = h
  BY <1>1 DEF Seen, IsRegistered, h
<1>6. o \in Context
  BY <1>4, <1>5 DEF Occupant, Types
<1>7. Known(o)
  BY <1>3, <1>5, <1>6 DEF Handles
<1>8. status[o] = "up"
  BY <1>4, <1>5, <1>7 DEF Held, Occupant, Known
<1>9. \A i \in 0 .. slotSize - 1 : slot[i] = o => i = Hash(h)
  BY <1>5, <1>8 DEF Held
<1> QED
  BY <1>3, <1>4, <1>5, <1>6, <1>8, <1>9 DEF h

\* skynet_handle_retire empties the slot and squeezes the names out.
LEMMA RetireChangeStep ==
  ASSUME HandleInv, NEW t \in Thread, RetireChange(t)
  PROVE  TableInv'
<1> USE DEF HandleInv, TableInv
<1> DEFINE h == handle[task[t].c]
           o == Occupant(h)
           k == Hash(h)
<1>1. /\ UNCHANGED <<slotSize, handleIndex, handle, failed>>
      /\ status' = [status EXCEPT ![o] = "gone"]
      /\ slot' = [slot EXCEPT ![k] = None]
      /\ name' = WithoutNamesOf(h)
      /\ WriteUnlock(t) /\ Finish(t)
      /\ task[t].do = "retire" /\ step[t] = "change" /\ lpc[t] = "writing"
  BY DEF RetireChange, Writing
<1>2. /\ h \in 1 .. HandleMask /\ k \in 0 .. slotSize - 1
      /\ o \in Context /\ handle[o] = h /\ status[o] = "up"
      /\ \A i \in 0 .. slotSize - 1 : slot[i] = o => i = k
      /\ slot[k] = o
  BY RetiresOne DEF Occupant
<1> HIDE DEF h, o, k
<1>3. /\ status'[o] = "gone" /\ \A d \in Context : d # o => status'[d] = status[d]
      /\ slot'[k] = None /\ \A i \in 0 .. slotSize - 1 : i # k => slot'[i] = slot[i]
  BY <1>1, <1>2 DEF Types
<1>4. Types'
  <2>1. slot' \in [0 .. slotSize - 1 -> Context \cup {None}]
    BY <1>1 DEF Types
  <2>2. status' \in [Context -> {"new", "placed", "up", "gone"}]
    BY <1>1 DEF Types
  <2> QED
    BY <1>1, <2>1, <2>2, FinishTypes DEF Types
<1>5. Others(t) /\ Idle(t)'
  BY <1>1, Unlocked, FinishTypes DEF Others, Idle
<1>6. Control'
  <2>1. \A d \in Context : Known(d) => Known(d)'
    BY <1>3 DEF Known
  <2>2. \A u \in Thread : u # t /\ Registers(u) => status'[task[u].c] = status[task[u].c]
    BY <1>2, <1>3 DEF Registers
  <2>3. Doing(t)'
    BY <1>5 DEF Doing
  <2> QED
    BY <1>5, <2>1, <2>2, <2>3, ControlKept
<1>7. Handles'
  BY <1>1, <1>2, <1>3 DEF Handles, Known
<1>8. \A u \in Thread : u # t => (Placing(u)' <=> Placing(u))
  BY <1>5 DEF Placing, Others
<1>9. ~ Placing(t) /\ ~ Placing(t)'
  BY <1>1, <1>5 DEF Placing, Idle, NoTask
<1>10. Held'
  <2> SUFFICES ASSUME NEW i \in 0 .. slotSize - 1, slot'[i] # None
               PROVE  \/ status'[slot'[i]] = "up" /\ Hash(handle[slot'[i]]) = i
                      \/ /\ status'[slot'[i]] = "placed"
                         /\ \E u \in Launcher : /\ Placing(u)' /\ task'[u].c = slot'[i]
                                                /\ Hash(pick'[u]) = i
    BY <1>1 DEF Held, Hash
  <2>0. i # k /\ slot'[i] = slot[i] /\ slot[i] # None
    BY <1>3
  <2>1. slot[i] # o /\ slot[i] \in Context
    BY <1>2, <2>0 DEF Types
  <2>2. status'[slot'[i]] = status[slot[i]]
    BY <1>3, <2>0, <2>1
  <2>3. ASSUME NEW u \in Launcher, Placing(u), task[u].c = slot[i], Hash(pick[u]) = i
        PROVE  Placing(u)' /\ task'[u].c = slot'[i] /\ Hash(pick'[u]) = i
    <3>1. u \in Thread /\ u # t
      BY <1>9, <2>3, HandleAssumption
    <3> QED
      BY <1>5, <1>8, <2>0, <2>3, <3>1 DEF Others
  <2> QED
    BY <1>3, <2>0, <2>1, <2>2, <2>3 DEF Held
<1>11. Findable'
  <2> SUFFICES ASSUME NEW d \in Context, status'[d] = "up"
               PROVE  slot'[Hash(handle[d])] = d
    BY <1>1 DEF Findable, Hash
  <2>1. d # o /\ status[d] = "up"
    BY <1>3
  <2>2. slot[Hash(handle[d])] = d /\ Hash(handle[d]) \in 0 .. slotSize - 1
    BY <2>1 DEF Findable, Types, Hash
  <2> QED
    BY <1>2, <1>3, <2>1, <2>2
<1>12. Seen'
  <2> SUFFICES ASSUME NEW u \in Thread
               PROVE  /\ step'[u] # "change"
                      /\ Placing(u)' => pick'[u] # 0 /\ slot'[Hash(pick'[u])] = task'[u].c
    BY <1>1 DEF Seen, Hash
  <2>1. step'[u] # "change"
    BY <1>1, <1>5, Alone DEF Others, Idle
  <2>2. ASSUME Placing(u)'
        PROVE  pick'[u] # 0 /\ slot'[Hash(pick'[u])] = task'[u].c
    <3>1. u # t /\ Placing(u) /\ pick'[u] = pick[u] /\ task'[u].c = task[u].c
      BY <1>5, <1>8, <1>9, <2>2 DEF Others
    <3>2. pick[u] # 0 /\ slot[Hash(pick[u])] = task[u].c
      BY <3>1 DEF Seen
    <3>3. Registers(u)
      BY <3>1 DEF Placing, Control, Idle, NoTask, Retires, Grabs, Names
    <3>4. status[task[u].c] = "placed"
      BY <3>1, <3>3 DEF Registers, Placing
    <3>5. Hash(pick[u]) \in 0 .. slotSize - 1
      BY DEF Types, Hash
    <3> QED
      BY <1>2, <1>3, <3>1, <3>2, <3>4, <3>5
  <2> QED
    BY <2>1, <2>2
<1>13. NameTable'
  BY <1>1, WithoutNames DEF NameTable, Squeezed, Sorted
<1> QED
  BY <1>4, <1>6, <1>7, <1>10, <1>11, <1>12, <1>13

\* skynet_handle_grab looks, and its reader leaves.
LEMMA GrabLookStep ==
  ASSUME HandleInv, NEW t \in Thread, GrabLook(t)
  PROVE  TableInv'
<1> USE DEF HandleInv, TableInv
<1>1. /\ UNCHANGED <<lockVars, tableVars, handle, status, task, pick, failed>>
      /\ step' = [step EXCEPT ![t] = "done"]
      /\ task[t].do = "grab" /\ step[t] = "look" /\ lpc[t] = "reading"
  BY DEF GrabLook, Reading, StepTo
<1>2. Grabs(t)
  BY <1>1 DEF Control, Idle, NoTask, Registers, Retires, Names
<1>3. Types'
  <2>1. Occupant(handle[task[t].c]) \in Context \cup {None}
    BY <1>2, HandleAssumption DEF Grabs, Occupant, Hash, Types
  <2>2. found' \in [Thread -> Context \cup {None}]
    BY <2>1 DEF GrabLook, Types
  <2> QED
    BY <1>1, <2>2 DEF Types, tableVars
<1>4. Others(t) /\ step'[t] = "done"
  BY <1>1 DEF Others, Types, lockVars
<1>5. Doing(t)'
  BY <1>1, <1>2, <1>4 DEF Doing, Grabs, Known, lockVars
<1>6. Control'
  BY <1>1, <1>4, <1>5, ControlKept DEF Known
<1>7. Handles' /\ Held' /\ Findable' /\ Seen' /\ NameTable'
  BY <1>1, <1>4, TableKept DEF Placing
<1> QED
  BY <1>3, <1>6, <1>7

LEMMA ReadDoneStep ==
  ASSUME HandleInv, NEW t \in Thread, ReadDone(t)
  PROVE  TableInv'
<1> USE DEF HandleInv, TableInv
<1>1. /\ UNCHANGED <<tableVars, handle, status, failed>> /\ step[t] = "done"
      /\ ReadUnlock(t) /\ Finish(t)
  BY DEF ReadDone
<1>2. Types'
  BY <1>1, FinishTypes DEF Types, tableVars
<1>3. Others(t) /\ Idle(t)'
  BY <1>1, Unlocked, FinishTypes DEF Others, Idle
<1>4. Control'
  BY <1>1, <1>3, ControlKept DEF Known, Doing
<1>5. Handles' /\ Held' /\ Findable' /\ Seen' /\ NameTable'
  BY <1>1, <1>3, TableKept DEF Placing, Idle
<1> QED
  BY <1>2, <1>4, <1>5

\* A thread that names a context has a handle and a name.
LEMMA NamesOne ==
  ASSUME HandleInv, NEW t \in Thread, NameChange(t)
  PROVE  task[t].n \in Name /\ handle[task[t].c] \in 1 .. HandleMask
<1> USE DEF HandleInv, TableInv
<1>1. Names(t)
  BY DEF NameChange, Writing, Control, Idle, NoTask, Registers, Retires, Grabs
<1> QED
  BY <1>1, HandleAssumption DEF Names, Handles, Types

\* skynet_handle_namehandle inserts the name.
LEMMA NameChangeStep ==
  ASSUME HandleInv, NEW t \in Thread, NameChange(t)
  PROVE  TableInv'
<1> USE DEF HandleInv, TableInv
<1> DEFINE s == InsertName(task[t].n, handle[task[t].c])
<1>1. /\ UNCHANGED <<slotSize, slot, handleIndex, handle, status, failed>>
      /\ name' = s /\ WriteUnlock(t) /\ Finish(t)
      /\ task[t].do = "name" /\ step[t] = "look"
  BY DEF NameChange, Writing
<1>2. s \in Seq(Entry) /\ Sorted(s)
  BY NamesOne, Inserted DEF NameTable
<1> HIDE DEF s
<1>3. Types'
  BY <1>1, FinishTypes DEF Types
<1>4. Others(t) /\ Idle(t)'
  BY <1>1, Unlocked, FinishTypes DEF Others, Idle
<1>5. Control'
  BY <1>1, <1>4, ControlKept DEF Known, Doing
<1>6. Handles' /\ Findable'
  BY <1>1 DEF Handles, Findable, Known, Hash
<1>7. \A u \in Thread : u # t => (Placing(u)' <=> Placing(u))
  BY <1>4 DEF Placing, Others
<1>8. ~ Placing(t) /\ ~ Placing(t)' /\ step'[t] # "change"
  BY <1>1, <1>4 DEF Placing, Idle, NoTask
<1>9. Held'
  <2> SUFFICES ASSUME NEW i \in 0 .. slotSize - 1, slot[i] # None, status[slot[i]] = "placed",
                      NEW u \in Launcher, Placing(u), task[u].c = slot[i], Hash(pick[u]) = i
               PROVE  Placing(u)' /\ task'[u].c = slot[i] /\ Hash(pick'[u]) = i
    BY <1>1 DEF Held, Hash
  <2>1. u \in Thread /\ u # t
    BY <1>8, HandleAssumption
  <2> QED
    BY <1>4, <1>7, <2>1 DEF Others
<1>10. Seen'
  BY <1>1, <1>4, <1>7, <1>8 DEF Seen, Others, Hash, IsRegistered, Occupant
<1>11. NameTable'
  BY <1>1, <1>2 DEF NameTable, Sorted
<1> QED
  BY <1>3, <1>5, <1>6, <1>9, <1>10, <1>11

-----------------------------------------------------------------------------
(***************************************************************************)
(* The theorems.                                                           *)
(***************************************************************************)
LEMMA InitInv == Init => HandleInv
<1> SUFFICES ASSUME Init PROVE HandleInv
  OBVIOUS
<1> USE DEF Init
<1>1. LockInv
  BY LockInitInv
<1>2. Types
  BY HandleAssumption DEF Types, NoTask
<1>3. Control
  BY DEF Control, Idle, LockInit
<1>4. Handles /\ Held /\ Findable /\ Seen
  BY HandleAssumption DEF Handles, Held, Findable, Seen, Known, Placing, NoTask
<1>5. NameTable
  BY DEF NameTable, Sorted
<1> QED
  BY <1>1, <1>2, <1>3, <1>4, <1>5 DEF HandleInv, TableInv

LEMMA HandleStep ==
  ASSUME C11 = FALSE, OneLauncher
  PROVE  HandleInv /\ [Next]_vars => HandleInv'
<1> SUFFICES ASSUME HandleInv, [Next]_vars PROVE TableInv'
  BY LockKept DEF HandleInv
<1>1. CASE UNCHANGED vars
  BY <1>1 DEF vars, tableVars, HandleInv, TableInv, Types, Control, Handles, Held, Findable,
              Seen, NameTable, Idle, Registers, Retires, Grabs, Names, Known, Placing, Hash,
              IsRegistered, Occupant, Sorted
<1>2. ASSUME NEW t \in Thread, Acquire(t) PROVE TableInv'
  BY <1>2, AcquireStep
<1>3. ASSUME NEW t \in Thread, NEW c \in Context,
             \/ BeginRegister(t, c) \/ BeginRetire(t, c) \/ BeginGrab(t, c)
             \/ \E n \in Name : BeginName(t, c, n)
      PROVE  TableInv'
  BY <1>3, BeginStep
<1>4. ASSUME NEW t \in Thread,
             RegisterLook(t) \/ RegisterChange(t) \/ Expand(t) \/ Assign(t)
      PROVE  TableInv'
  BY <1>4, RegisterLookStep, RegisterChangeStep, ExpandStep, AssignStep
<1>5. ASSUME NEW t \in Thread, RetireLook(t) \/ RetireChange(t) PROVE TableInv'
  BY <1>5, RetireLookStep, RetireChangeStep
<1>6. ASSUME NEW t \in Thread, GrabLook(t) \/ ReadDone(t) \/ NameChange(t) PROVE TableInv'
  BY <1>6, GrabLookStep, ReadDoneStep, NameChangeStep
<1> QED
  BY <1>1, <1>2, <1>3, <1>4, <1>5, <1>6 DEF Next

\* The invariant holds, with one thread that launches and any number of threads
\* that retire, grab and name.
THEOREM TableInvariant ==
  ASSUME C11 = FALSE, OneLauncher
  PROVE  Spec => []HandleInv
<1>1. Init => HandleInv
  BY InitInv
<1>2. HandleInv /\ [Next]_vars => HandleInv'
  BY HandleStep
<1> QED
  BY <1>1, <1>2, PTL DEF Spec

\* assert(new_slot[hash] == NULL): an expansion never finds two contexts in one
\* slot, since their handles were in two slots of half the table.
THEOREM NeverCollides ==
  ASSUME C11 = FALSE, OneLauncher
  PROVE  Spec => []NoCollision
<1>1. Init => NoCollision
  BY DEF Init, NoCollision
<1>2. HandleInv /\ NoCollision /\ [Next]_vars => NoCollision'
  <2> SUFFICES ASSUME HandleInv, NoCollision, [Next]_vars PROVE NoCollision'
    OBVIOUS
  <2>1. CASE UNCHANGED vars
    BY <2>1 DEF vars, NoCollision
  <2>2. ASSUME NEW t \in Thread, Expand(t) PROVE NoCollision'
    BY <2>2, ExpandStep DEF NoCollision
  <2>3. ASSUME NEW t \in Thread, NEW c \in Context,
               \/ BeginRegister(t, c) \/ BeginRetire(t, c) \/ BeginGrab(t, c)
               \/ \E n \in Name : BeginName(t, c, n)
        PROVE  UNCHANGED failed
    BY <2>3 DEF BeginRegister, BeginRetire, BeginGrab, BeginName
  <2>4. ASSUME NEW t \in Thread,
               \/ Acquire(t) \/ RegisterLook(t) \/ RegisterChange(t) \/ Assign(t)
               \/ RetireLook(t) \/ RetireChange(t)
               \/ GrabLook(t) \/ ReadDone(t) \/ NameChange(t)
        PROVE  UNCHANGED failed
    BY <2>4 DEF Acquire, RegisterLook, RegisterChange, Assign, RetireLook, RetireChange,
                GrabLook, ReadDone, NameChange
  <2> QED
    BY <2>1, <2>2, <2>3, <2>4 DEF Next, NoCollision
<1> QED
  BY <1>1, <1>2, TableInvariant, PTL DEF Spec

\* The names that are in the table, and what finds them.
LEMMA InvFinds == HandleInv => TypeOK /\ Findable /\ NamesFound
<1> SUFFICES ASSUME HandleInv PROVE TypeOK /\ Findable /\ NamesFound
  OBVIOUS
<1> USE DEF HandleInv, TableInv
<1>1. TypeOK
  BY NamesAreNumbers DEF TypeOK, Types, LockInv, NameTable, Entry
<1>2. NamesFound
  BY FindsName DEF NamesFound, NameTable, Sorted
<1> QED
  BY <1>1, <1>2

\* A step keeps each name, or it retires the context the name is of.
LEMMA NamesKept ==
  ASSUME HandleInv, [Next]_vars
  PROVE  \A i \in 1 .. Len(name) :
           \/ \E j \in 1 .. Len(name') : name'[j] = name[i]
           \/ \E c \in Context : /\ handle[c] = name[i].handle
                                 /\ status[c] # "gone" /\ status'[c] = "gone"
<1> USE DEF HandleInv, TableInv
<1>1. ASSUME NEW t \in Thread, RetireChange(t), NEW i \in 1 .. Len(name),
             ~ \E j \in 1 .. Len(name') : name'[j] = name[i]
      PROVE  \E c \in Context : /\ handle[c] = name[i].handle
                                /\ status[c] # "gone" /\ status'[c] = "gone"
  <2> DEFINE h == handle[task[t].c]
             o == Occupant(h)
  <2>1. name' = WithoutNamesOf(h) /\ status' = [status EXCEPT ![o] = "gone"]
    BY <1>1 DEF RetireChange
  <2>2. name[i].handle = h
    BY <1>1, <2>1, WithoutNames DEF NameTable, Squeezed
  <2>3. o \in Context /\ handle[o] = h /\ status[o] = "up"
    BY <1>1, RetiresOne
  <2>4. status'[o] = "gone"
    BY <2>1, <2>3 DEF Types
  <2> QED
    BY <2>2, <2>3, <2>4
<1>2. ASSUME NEW t \in Thread, NameChange(t)
      PROVE  \A i \in 1 .. Len(name) : \E j \in 1 .. Len(name') : name'[j] = name[i]
  <2>1. name' = InsertName(task[t].n, handle[task[t].c])
    BY <1>2 DEF NameChange
  <2> QED
    BY <1>2, <2>1, NamesOne, Inserted DEF NameTable
<1>3. ASSUME UNCHANGED name
      PROVE  \A i \in 1 .. Len(name) : \E j \in 1 .. Len(name') : name'[j] = name[i]
  BY <1>3
<1>4. CASE UNCHANGED vars
  BY <1>3, <1>4 DEF vars, tableVars
<1>5. ASSUME NEW t \in Thread, NEW c \in Context,
             \/ BeginRegister(t, c) \/ BeginRetire(t, c) \/ BeginGrab(t, c)
             \/ \E n \in Name : BeginName(t, c, n)
      PROVE  UNCHANGED name
  BY <1>5 DEF BeginRegister, BeginRetire, BeginGrab, BeginName, tableVars
<1>6. ASSUME NEW t \in Thread,
             \/ Acquire(t) \/ RegisterLook(t) \/ RegisterChange(t) \/ Expand(t) \/ Assign(t)
             \/ RetireLook(t) \/ GrabLook(t) \/ ReadDone(t)
      PROVE  UNCHANGED name
  BY <1>6 DEF Acquire, RegisterLook, RegisterChange, Expand, Assign, RetireLook, GrabLook,
              ReadDone, tableVars
<1> QED
  BY <1>1, <1>2, <1>3, <1>4, <1>5, <1>6 DEF Next

\* The property of the run: with one launching thread a context that is up is
\* found in the slot of its handle, through registrations, retirements and
\* expansions of the table; the bisection finds each name that is in the table,
\* and a name leaves it only with the context it is of.
THEOREM HandlesFound ==
  ASSUME C11 = FALSE, OneLauncher
  PROVE  Spec => HandlesKept
<1>1. Spec => []HandleInv
  BY TableInvariant
<1>2. HandleInv => TypeOK /\ Findable /\ NamesFound
  BY InvFinds
<1>3. HandleInv /\ [Next]_vars =>
        [\A i \in 1 .. Len(name) :
           \/ \E j \in 1 .. Len(name') : name'[j] = name[i]
           \/ \E c \in Context : /\ handle[c] = name[i].handle
                                 /\ status[c] # "gone" /\ status'[c] = "gone"]_vars
  BY NamesKept
<1> QED
  BY <1>1, <1>2, <1>3, PTL DEF Spec, HandlesKept, OthersKeepNames
=============================================================================
