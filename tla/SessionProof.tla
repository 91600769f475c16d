----------------------------- MODULE SessionProof -----------------------------
(***************************************************************************)
(* Proofs about the Lua scheduler (module Session): for every set of       *)
(* services and coroutines and for whatever the services do, the tables of *)
(* sessions agree with where the coroutines are (TableInv); and in         *)
(* services that do not kill their own coroutines no request is answered   *)
(* twice or left behind, and whoever is woken or answered is told of what  *)
(* it waits for (LedgerInv).                                               *)
(***************************************************************************)
EXTENDS Session, SequenceTheorems, FiniteSetTheorems, TLAPS

-----------------------------------------------------------------------------
(***************************************************************************)
(* The inductive invariant of the tables.  None of it depends on Ops: it   *)
(* holds of any service, those that kill their coroutines included.        *)
(***************************************************************************)
Numbered == SessionAssumption /\ Wrap = FALSE

Unread(s) == ToSet(mail[s])
Due(s) == ToSet(error_queue[s])

\* What a queue may hold: a request names its sender, a response its session.
Posted ==
    \A s \in Service : \A m \in Unread(s) :
        /\ m.type = "request" => m.source \in Service
        /\ m.type = "response" => m.session # 0

\* A session that is not given out yet has no coroutine.
UnusedAt(s) ==
    \A k \in Sessions : k > last[s] =>
        session_id_coroutine[s][k] = None /\ watching_session[s][k] = None

\* Where dispatch_message is agrees with the coroutine that runs.
ControlAt(s) ==
    /\ phase[s] = "run" => running[s] \in Co /\ state[s][running[s]] = "run"
    /\ phase[s] # "run" => running[s] = None
    /\ phase[s] = "gone" <=> ~up[s]
    /\ \A c \in Co :
         /\ state[s][c] \in {"free", "run"} => on[s][c] = 0
         /\ state[s][c] = "run" => running[s] = c
         /\ state[s][c] = "ready" => session_coroutine_address[s][c] = None
         /\ session_coroutine_address[s][c] = None => session_coroutine_id[s][c] = None

\* A coroutine that was forked waits once in the queue, and for nothing else.
ForksAt(s) ==
    \A i, j \in DOMAIN fork_queue[s] :
        fork_queue[s][i] # Blank =>
            /\ state[s][fork_queue[s][i]] = "ready" /\ on[s][fork_queue[s][i]] = 0
            /\ fork_queue[s][j] = fork_queue[s][i] => i = j

\* Connected, of one service.
ConnectedAt(s) ==
    /\ \A c \in Co :
         /\ on[s][c] # 0 => session_id_coroutine[s][on[s][c]] = c
         /\ sleep_session[s][c] =
              IF state[s][c] \in {"sleep", "wait"} THEN on[s][c] ELSE None
         /\ state[s][c] \in {"call", "sleep", "wait"} => on[s][c] # 0
         /\ state[s][c] = "free" => session_coroutine_address[s][c] = None
    /\ \A k \in Sessions :
         /\ session_id_coroutine[s][k] \in Co => on[s][session_id_coroutine[s][k]] = k
         /\ watching_session[s][k] # None
              <=> /\ session_id_coroutine[s][k] \in Co
                  /\ state[s][session_id_coroutine[s][k]] = "call"

\* The wakeups and the errors of a message are handled before it is done; the
\* function that an error forks comes back to those it left.
Handled(s) == wakeup_queue[s] = <<>> /\ (error_queue[s] = <<>> \/ broken[s])
DrainsAt(s) ==
    /\ phase[s] = "idle" => Handled(s)
    /\ phase[s] = "fork" => Handled(s) \/ Blank \in ToSet(fork_queue[s])

TableAt(s) == UnusedAt(s) /\ ControlAt(s) /\ ForksAt(s) /\ ConnectedAt(s) /\ DrainsAt(s)
TableInv == TypeOK /\ Posted /\ \A s \in Service : TableAt(s)

-----------------------------------------------------------------------------
LEMMA SeqTail ==
    ASSUME NEW S, NEW q \in Seq(S), q # <<>>
    PROVE  /\ Tail(q) \in Seq(S) /\ Head(q) \in S
           /\ ToSet(q) = ToSet(Tail(q)) \cup {Head(q)}
           /\ Head(q) = q[1] /\ 1 \in DOMAIN q
           /\ DOMAIN Tail(q) = 1 .. Len(q) - 1
           /\ DOMAIN q = 1 .. Len(q)
           /\ \A i \in DOMAIN Tail(q) : i + 1 \in DOMAIN q /\ Tail(q)[i] = q[i + 1]
<1>1. /\ Tail(q) \in Seq(S) /\ Head(q) \in S /\ Head(q) = q[1] /\ Len(q) \in Nat \ {0}
      /\ DOMAIN q = 1 .. Len(q) /\ DOMAIN Tail(q) = 1 .. Len(q) - 1
      /\ \A i \in 1 .. Len(q) - 1 : Tail(q)[i] = q[i + 1]
  OBVIOUS
<1>2. ToSet(q) \subseteq ToSet(Tail(q)) \cup {Head(q)}
  <2> SUFFICES ASSUME NEW i \in 1 .. Len(q)
               PROVE  q[i] \in ToSet(Tail(q)) \cup {Head(q)}
    BY <1>1 DEF ToSet
  <2>1. CASE i = 1
    BY <2>1, <1>1
  <2>2. CASE i # 1
    <3>1. i - 1 \in DOMAIN Tail(q) /\ Tail(q)[i - 1] = q[i]
      BY <2>2, <1>1
    <3> QED BY <3>1 DEF ToSet
  <2> QED BY <2>1, <2>2
<1>3. ToSet(Tail(q)) \subseteq ToSet(q)
  <2> SUFFICES ASSUME NEW i \in 1 .. Len(q) - 1
               PROVE  Tail(q)[i] \in ToSet(q)
    BY <1>1 DEF ToSet
  <2> QED BY <1>1 DEF ToSet
<1>4. Head(q) \in ToSet(q)
  BY <1>1 DEF ToSet
<1> QED BY <1>1, <1>2, <1>3, <1>4

LEMMA SeqAppend ==
    ASSUME NEW S, NEW q \in Seq(S), NEW m
    PROVE  /\ m \in S => Append(q, m) \in Seq(S)
           /\ ToSet(Append(q, m)) = ToSet(q) \cup {m}
           /\ DOMAIN q = 1 .. Len(q) /\ Len(q) \in Nat
           /\ DOMAIN Append(q, m) = 1 .. Len(q) + 1
           /\ \A i \in DOMAIN q : Append(q, m)[i] = q[i]
           /\ Append(q, m)[Len(q) + 1] = m
<1>1. /\ m \in S => Append(q, m) \in Seq(S)
      /\ DOMAIN q = 1 .. Len(q) /\ Len(q) \in Nat
      /\ DOMAIN Append(q, m) = 1 .. Len(q) + 1
      /\ \A i \in DOMAIN q : Append(q, m)[i] = q[i]
      /\ Append(q, m)[Len(q) + 1] = m
  OBVIOUS
<1>2. ToSet(Append(q, m)) \subseteq ToSet(q) \cup {m}
  <2> SUFFICES ASSUME NEW i \in 1 .. Len(q) + 1
               PROVE  Append(q, m)[i] \in ToSet(q) \cup {m}
    BY <1>1 DEF ToSet
  <2> CASE i = Len(q) + 1
    BY <1>1
  <2> CASE i # Len(q) + 1
    BY <1>1 DEF ToSet
  <2> QED OBVIOUS
<1>3. ToSet(q) \subseteq ToSet(Append(q, m))
  <2> SUFFICES ASSUME NEW i \in 1 .. Len(q)
               PROVE  q[i] \in ToSet(Append(q, m))
    BY <1>1 DEF ToSet
  <2>1. i \in DOMAIN Append(q, m) /\ Append(q, m)[i] = q[i]
    BY <1>1
  <2> QED BY <2>1 DEF ToSet
<1>4. m \in ToSet(Append(q, m))
  <2>1. Len(q) + 1 \in DOMAIN Append(q, m)
    BY <1>1
  <2> QED BY <2>1, <1>1 DEF ToSet
<1> QED BY <1>1, <1>2, <1>3, <1>4

LEMMA SeqConcat ==
    ASSUME NEW S, NEW p \in Seq(S), NEW q \in Seq(S)
    PROVE  /\ p \o q \in Seq(S)
           /\ ToSet(p \o q) = ToSet(p) \cup ToSet(q)
           /\ Len(p) \in Nat /\ Len(q) \in Nat
           /\ DOMAIN p = 1 .. Len(p) /\ DOMAIN q = 1 .. Len(q)
           /\ DOMAIN (p \o q) = 1 .. Len(p) + Len(q)
           /\ \A i \in DOMAIN p : (p \o q)[i] = p[i]
           /\ \A i \in 1 .. Len(p) + Len(q) :
                 i > Len(p) => i - Len(p) \in DOMAIN q /\ (p \o q)[i] = q[i - Len(p)]
<1>1. /\ p \o q \in Seq(S)
      /\ Len(p) \in Nat /\ Len(q) \in Nat
      /\ DOMAIN p = 1 .. Len(p) /\ DOMAIN q = 1 .. Len(q)
      /\ DOMAIN (p \o q) = 1 .. Len(p) + Len(q)
      /\ \A i \in DOMAIN p : (p \o q)[i] = p[i]
      /\ \A i \in 1 .. Len(p) + Len(q) :
            i > Len(p) => i - Len(p) \in DOMAIN q /\ (p \o q)[i] = q[i - Len(p)]
  OBVIOUS
<1>2. ToSet(p \o q) \subseteq ToSet(p) \cup ToSet(q)
  <2> SUFFICES ASSUME NEW i \in 1 .. Len(p) + Len(q)
               PROVE  (p \o q)[i] \in ToSet(p) \cup ToSet(q)
    BY <1>1 DEF ToSet
  <2> CASE i \in DOMAIN p
    BY <1>1 DEF ToSet
  <2> CASE i > Len(p)
    BY <1>1 DEF ToSet
  <2> QED BY <1>1
<1>3. ToSet(p) \subseteq ToSet(p \o q)
  <2> SUFFICES ASSUME NEW i \in 1 .. Len(p)
               PROVE  p[i] \in ToSet(p \o q)
    BY <1>1 DEF ToSet
  <2>1. i \in DOMAIN (p \o q) /\ (p \o q)[i] = p[i]
    BY <1>1
  <2> QED BY <2>1 DEF ToSet
<1>4. ToSet(q) \subseteq ToSet(p \o q)
  <2> SUFFICES ASSUME NEW i \in 1 .. Len(q)
               PROVE  q[i] \in ToSet(p \o q)
    BY <1>1 DEF ToSet
  <2>1. Len(p) + i \in DOMAIN (p \o q) /\ (p \o q)[Len(p) + i] = q[i]
    BY <1>1
  <2> QED BY <2>1 DEF ToSet
<1> QED BY <1>1, <1>2, <1>3, <1>4

\* An order of a finite set lists each element once.
LEMMA OrderLists ==
    ASSUME NEW S, IsFiniteSet(S), NEW f \in SetToSeqs(S)
    PROVE  /\ f \in Seq(S) /\ ToSet(f) = S
           /\ \A i, j \in DOMAIN f : f[i] = f[j] => i = j
<1> DEFINE n == Cardinality(S)
<1>1. n \in Nat
  BY FS_CardinalityType
<1>2. f \in [1 .. n -> S] /\ \A i, j \in 1 .. n : i # j => f[i] # f[j]
  BY DEF SetToSeqs
<1>3. f \in Injection(1 .. n, S)
  BY <1>2 DEF Injection, IsInjective
<1>4. IsFiniteSet(1 .. n) /\ Cardinality(1 .. n) = n
  BY <1>1, FS_Interval
<1>5. f \in Surjection(1 .. n, S)
  BY <1>3, <1>4, FS_Injection
<1>6. ToSet(f) = S
  BY <1>2, <1>5 DEF Surjection, ToSet
<1> QED BY <1>1, <1>2, <1>6

LEMMA OrderOf ==
    ASSUME NEW S, IsFiniteSet(S)
    PROVE  SetToSeq(S) \in SetToSeqs(S)
<1> DEFINE n == Cardinality(S)
<1>1. n \in Nat /\ ExistsBijection(1 .. n, S)
  BY FS_CardinalityType, FS_NatBijection
<1>2. PICK f \in Bijection(1 .. n, S) : TRUE
  BY <1>1 DEF ExistsBijection
<1>3. f \in [1 .. n -> S] /\ IsInjective(f)
  BY <1>2 DEF Bijection, Injection, IsInjective
<1>4. SetToSeq(S) \in [1 .. n -> S] /\ IsInjective(SetToSeq(S))
  BY <1>3 DEF SetToSeq
<1> QED BY <1>4 DEF SetToSeqs, IsInjective
-----------------------------------------------------------------------------
(***************************************************************************)
(* The tables: types.                                                      *)
(***************************************************************************)
MailTypes == mail \in [Service -> Seq(Message)]
ContextTypes ==
    /\ up \in [Service -> BOOLEAN] /\ last \in [Service -> Sessions]
    /\ timer \in [Service -> SUBSET Sessions]
ThreadTypes ==
    /\ phase \in [Service -> {"idle", "run", "wakeup", "fork", "gone"}]
    /\ running \in [Service -> Co \cup {None}]
    /\ state \in [Service -> [Co -> {"free", "ready", "run", "call", "sleep", "wait"}]]
    /\ on \in [Service -> [Co -> 0 .. MaxSession]]
    /\ session_id_coroutine \in [Service -> [Sessions -> Co \cup {None, Break}]]
    /\ watching_session \in [Service -> [Sessions -> Service \cup {None}]]
    /\ sleep_session \in [Service -> [Co -> Sessions \cup {None}]]
DutyTypes ==
    /\ session_coroutine_id \in [Service -> [Co -> {None} \cup 0 .. MaxSession]]
    /\ session_coroutine_address \in [Service -> [Co -> Service \cup {None}]]
    /\ unresponse \in [Service -> SUBSET (Service \X Sessions)]
PendingTypes ==
    /\ wakeup_queue \in [Service -> Seq(Co)]
    /\ error_queue \in [Service -> Seq(Sessions)]
    /\ fork_queue \in [Service -> Seq(Co \cup {Blank})]
HistoryTypes ==
    /\ answers \in [Service -> [Sessions -> Nat]]
    /\ forgotten \subseteq Service \X Sessions
    /\ broken \in [Service -> BOOLEAN]

LEMMA TypeParts ==
    TypeOK <=> /\ MailTypes /\ ContextTypes /\ ThreadTypes
               /\ DutyTypes /\ PendingTypes /\ HistoryTypes
BY DEF TypeOK, MailTypes, ContextTypes, ThreadTypes, DutyTypes, PendingTypes, HistoryTypes

LEMMA KeepTypes ==
    ASSUME TypeOK
    PROVE  /\ UNCHANGED mail => MailTypes'
           /\ UNCHANGED context => ContextTypes'
           /\ UNCHANGED <<phase, running, threads>> => ThreadTypes'
           /\ UNCHANGED duties => DutyTypes'
           /\ UNCHANGED pending => PendingTypes'
           /\ UNCHANGED history => HistoryTypes'
<1>0. MailTypes /\ ContextTypes /\ ThreadTypes /\ DutyTypes /\ PendingTypes /\ HistoryTypes
  BY TypeParts
<1>1. UNCHANGED mail => MailTypes'
  BY <1>0 DEF MailTypes
<1>2. UNCHANGED context => ContextTypes'
  BY <1>0 DEF ContextTypes, context
<1>3. UNCHANGED <<phase, running, threads>> => ThreadTypes'
  BY <1>0 DEF ThreadTypes, threads
<1>4. UNCHANGED duties => DutyTypes'
  BY <1>0 DEF DutyTypes, duties
<1>5. UNCHANGED pending => PendingTypes'
  BY <1>0 DEF PendingTypes, pending
<1>6. UNCHANGED history => HistoryTypes'
  BY <1>0 DEF HistoryTypes, history
<1> QED BY <1>1, <1>2, <1>3, <1>4, <1>5, <1>6

LEMMA SessionFacts ==
    ASSUME Numbered
    PROVE  /\ MaxSession \in Nat \ {0} /\ 0 .. MaxSession = {0} \cup Sessions
           /\ 0 \notin Sessions /\ Sessions \subseteq Nat
           /\ None \notin Sessions /\ None \notin Co /\ None \notin Service /\ None # 0
           /\ Break \notin Co /\ Blank \notin Co /\ Break # None
           /\ \A S \in SUBSET Sessions : IsFiniteSet(S)
<1>1. MaxSession \in Nat \ {0} /\ None \notin 0 .. MaxSession
      /\ {None, Break, Blank} \cap (Service \cup Co) = {} /\ Break # None
  BY DEF Numbered, SessionAssumption
<1>2. IsFiniteSet(Sessions)
  BY <1>1, FS_Interval DEF Sessions
<1>3. \A S \in SUBSET Sessions : IsFiniteSet(S)
  BY <1>2, FS_Subset
<1>4. /\ 0 .. MaxSession = {0} \cup Sessions
      /\ 0 \notin Sessions /\ Sessions \subseteq Nat
      /\ None \notin Sessions /\ None # 0
  BY <1>1 DEF Sessions
<1>5. None \notin Co /\ None \notin Service /\ Break \notin Co /\ Blank \notin Co
  BY <1>1
<1> QED BY <1>1, <1>3, <1>4, <1>5

LEMMA ResumeTypes ==
    ASSUME TypeOK, NEW s \in Service, NEW c \in Co, NEW k \in Sessions, NEW rest \in {None, Break},
           Resume(s, c, k, rest), Numbered
    PROVE  ThreadTypes'
BY SessionFacts DEF Resume, TypeOK, ThreadTypes

LEMMA ParkTypes ==
    ASSUME TypeOK, NEW s \in Service, NEW c \in Co, NEW how \in {"call", "sleep", "wait"},
           NEW watch \in Service \cup {None}, NEW token \in BOOLEAN,
           Park(s, c, how, watch, token), last' \in [Service -> Sessions], Numbered
    PROVE  ThreadTypes'
BY SessionFacts DEF Park, Suspend, TypeOK, ThreadTypes

LEMMA SuspendTypes ==
    ASSUME TypeOK, NEW s \in Service, Suspend(s) \/ Throw(s),
           UNCHANGED <<state, on, session_id_coroutine, watching_session, sleep_session>>
    PROVE  ThreadTypes'
BY DEF Suspend, Throw, TypeOK, ThreadTypes

LEMMA PostTypes ==
    ASSUME TypeOK, NEW d \in Service, NEW m \in Message, Post(d, m)
    PROVE  MailTypes'
BY DEF TypeOK, MailTypes, Post

LEMMA AnswerTypes ==
    ASSUME TypeOK, NEW s \in Service, NEW d \in Service, NEW type \in {"response", "error"},
           NEW k \in 0 .. MaxSession, Answer(s, d, type, k)
    PROVE  MailTypes' /\ answers' \in [Service -> [Sessions -> Nat]]
<1>1. [type |-> type, session |-> k, source |-> s] \in Message
  BY DEF Message
<1>2. MailTypes'
  BY <1>1, PostTypes DEF Answer
<1>3. answers' \in [Service -> [Sessions -> Nat]]
  BY SMTT(30) DEF Answer, TypeOK
<1> QED BY <1>2, <1>3

LEMMA TakenTypes ==
    ASSUME TypeOK, NEW s \in Service, mail[s] # <<>>
    PROVE  /\ Head(mail[s]) \in Message /\ Tail(mail[s]) \in Seq(Message)
           /\ Head(mail[s]) \in Unread(s)
           /\ mail' = [mail EXCEPT ![s] = Tail(@)] => MailTypes'
<1>1. /\ Head(mail[s]) \in Message /\ Tail(mail[s]) \in Seq(Message)
      /\ Head(mail[s]) \in Unread(s)
  BY SeqTail DEF TypeOK, Unread
<1>2. mail \in [Service -> Seq(Message)]
  BY DEF TypeOK
<1>3. mail' = [mail EXCEPT ![s] = Tail(@)] => MailTypes'
  BY <1>1, <1>2 DEF MailTypes
<1> QED BY <1>1, <1>3

LEMMA NewTypes ==
    ASSUME TypeOK, Numbered, NEW s \in Service, NewSession(s)
    PROVE  /\ last' \in [Service -> Sessions] /\ last'[s] = last[s] + 1
           /\ last' = [last EXCEPT ![s] = last'[s]]
           /\ last'[s] \in Sessions /\ last[s] \in Sessions
BY DEF NewSession, TypeOK, Sessions, Numbered, SessionAssumption

LEMMA TypeJoin ==
    ASSUME MailTypes', ContextTypes', ThreadTypes', DutyTypes', PendingTypes', HistoryTypes'
    PROVE  TypeOK'
BY DEF TypeOK, MailTypes, ContextTypes, ThreadTypes, DutyTypes, PendingTypes, HistoryTypes

\* An element is taken out of a sequence: those behind it move up.
LEMMA RemoveFacts ==
    ASSUME NEW S, NEW q \in Seq(S), NEW i \in DOMAIN q
    PROVE  /\ RemoveAt(q, i) \in Seq(S)
           /\ DOMAIN RemoveAt(q, i) = 1 .. Len(q) - 1 /\ DOMAIN q = 1 .. Len(q)
           /\ \A j \in 1 .. Len(q) - 1 :
                 RemoveAt(q, i)[j] = IF j < i THEN q[j] ELSE q[j + 1]
<1>1. /\ DOMAIN q = 1 .. Len(q) /\ Len(q) \in Nat /\ i \in 1 .. Len(q)
  OBVIOUS
<1>2. /\ SubSeq(q, 1, i - 1) \in Seq(S) /\ Len(SubSeq(q, 1, i - 1)) = i - 1
      /\ \A j \in 1 .. i - 1 : SubSeq(q, 1, i - 1)[j] = q[j]
  BY <1>1
<1>3. /\ SubSeq(q, i + 1, Len(q)) \in Seq(S) /\ Len(SubSeq(q, i + 1, Len(q))) = Len(q) - i
      /\ \A j \in 1 .. Len(q) - i : SubSeq(q, i + 1, Len(q))[j] = q[i + j]
  BY <1>1
<1>4. RemoveAt(q, i) = SubSeq(q, 1, i - 1) \o SubSeq(q, i + 1, Len(q))
  BY DEF RemoveAt
<1> HIDE DEF RemoveAt
<1>5. /\ RemoveAt(q, i) \in Seq(S) /\ DOMAIN RemoveAt(q, i) = 1 .. Len(q) - 1
  BY <1>1, <1>2, <1>3, <1>4
<1>6. ASSUME NEW j \in 1 .. Len(q) - 1
      PROVE  RemoveAt(q, i)[j] = IF j < i THEN q[j] ELSE q[j + 1]
  <2>1. CASE j < i
    BY <2>1, <1>1, <1>2, <1>3, <1>4
  <2>2. CASE j >= i
    <3>1. RemoveAt(q, i)[j] = SubSeq(q, i + 1, Len(q))[j - (i - 1)]
      <4> DEFINE p == SubSeq(q, 1, i - 1)
                 r == SubSeq(q, i + 1, Len(q))
      <4>1. p \in Seq(S) /\ r \in Seq(S) /\ Len(p) = i - 1 /\ Len(r) = Len(q) - i
        BY <1>2, <1>3
      <4> HIDE DEF p, r
      <4>2. j \in 1 .. Len(p) + Len(r) /\ j > Len(p)
        BY ONLY <4>1, <1>1, <2>2, j \in 1 .. Len(q) - 1
      <4>3. (p \o r)[j] = r[j - Len(p)]
        BY ONLY <4>1, <4>2, SeqConcat
      <4> QED BY ONLY <4>1, <4>3, <1>4 DEF p, r
    <3>2. j - (i - 1) \in 1 .. Len(q) - i
      BY <2>2, <1>1
    <3> QED BY <3>1, <3>2, <1>1, <1>3, <2>2, SMTT(30)
  <2> QED BY <2>1, <2>2, <1>1
<1> QED BY <1>1, <1>5, <1>6

\* What an exit sends to d: an error for each of ks, and one for all at the end.
LEMMA FarewellFacts ==
    ASSUME Numbered, NEW s \in Service, NEW d \in Service, NEW ks \in SUBSET Sessions
    PROVE  /\ Farewell(s, d, ks) \in Seq(Message)
           /\ \A i \in DOMAIN Farewell(s, d, ks) :
                 /\ Farewell(s, d, ks)[i].type = "error" /\ Farewell(s, d, ks)[i].source = s
                 /\ \/ Farewell(s, d, ks)[i].session \in ks
                    \/ Farewell(s, d, ks)[i].session = 0 /\ Waits(s, d)
                       /\ i = Len(Farewell(s, d, ks))
           /\ \A i, j \in DOMAIN Farewell(s, d, ks) :
                 Farewell(s, d, ks)[i].session = Farewell(s, d, ks)[j].session => i = j
           /\ \A k \in ks : [type |-> "error", session |-> k, source |-> s] \in ToSet(Farewell(s, d, ks))
           /\ Waits(s, d) => [type |-> "error", session |-> 0, source |-> s] \in ToSet(Farewell(s, d, ks))
<1> DEFINE order == SetToSeq(ks)
           p == [i \in 1 .. Len(order) |-> [type |-> "error", session |-> order[i], source |-> s]]
           e == [type |-> "error", session |-> 0, source |-> s]
           q == IF Waits(s, d) THEN <<e>> ELSE <<>>
           F == Farewell(s, d, ks)
<1>1. F = p \o q
  BY DEF Farewell
<1>2. order \in Seq(ks) /\ ToSet(order) = ks /\ \A i, j \in DOMAIN order : order[i] = order[j] => i = j
  BY SessionFacts, OrderOf, OrderLists
<1>3. Len(order) \in Nat /\ DOMAIN order = 1 .. Len(order) /\ \A i \in 1 .. Len(order) : order[i] \in ks
  <2> HIDE DEF order
  <2> QED BY <1>2
<1> HIDE DEF order
<1>4. \A k \in 0 .. MaxSession : [type |-> "error", session |-> k, source |-> s] \in Message
  BY DEF Message
<1>5. p \in Seq(Message) /\ Len(p) = Len(order) /\ DOMAIN p = 1 .. Len(order)
      /\ \A i \in 1 .. Len(order) : p[i] = [type |-> "error", session |-> order[i], source |-> s]
  <2>1. \A i \in 1 .. Len(order) : order[i] \in 0 .. MaxSession
    BY <1>3, SessionFacts
  <2>2. \A i \in 1 .. Len(order) : [type |-> "error", session |-> order[i], source |-> s] \in Message
    BY <2>1, <1>4
  <2> QED BY <2>2, <1>3
<1>6. q \in Seq(Message) /\ Len(q) \in {0, 1} /\ DOMAIN q = 1 .. Len(q)
      /\ \A i \in DOMAIN q : q[i] = e /\ i = 1 /\ Waits(s, d) /\ Len(q) = 1
  <2>1. e \in Message
    BY <1>4, SessionFacts
  <2> HIDE DEF e
  <2>2. CASE Waits(s, d)
    BY <2>1, <2>2
  <2>3. CASE ~Waits(s, d)
    BY <2>3
  <2> QED BY <2>2, <2>3
<1> HIDE DEF p, q
<1>7. /\ F \in Seq(Message) /\ ToSet(F) = ToSet(p) \cup ToSet(q)
      /\ DOMAIN F = 1 .. Len(p) + Len(q) /\ Len(F) = Len(p) + Len(q)
      /\ \A i \in DOMAIN p : F[i] = p[i]
      /\ \A i \in 1 .. Len(p) + Len(q) : i > Len(p) => i - Len(p) \in DOMAIN q /\ F[i] = q[i - Len(p)]
  BY <1>1, <1>5, <1>6, SeqConcat
<1> HIDE DEF F
<1>8. \A i \in DOMAIN F : i \notin DOMAIN p => i = Len(p) + 1 /\ F[i] = e /\ Waits(s, d) /\ Len(F) = i
  <2> SUFFICES ASSUME NEW i \in DOMAIN F, i \notin DOMAIN p
               PROVE  i = Len(p) + 1 /\ F[i] = e /\ Waits(s, d) /\ Len(F) = i
    OBVIOUS
  <2>1. Len(p) \in Nat /\ DOMAIN p = 1 .. Len(p)
    BY <1>3, <1>5
  <2>2. i \in 1 .. Len(p) + Len(q) /\ Len(q) \in Nat /\ i \in Int /\ i > Len(p)
    BY <1>6, <1>7, <2>1
  <2>3. i - Len(p) \in DOMAIN q /\ F[i] = q[i - Len(p)]
    BY <1>7, <2>2
  <2>4. q[i - Len(p)] = e /\ i - Len(p) = 1 /\ Waits(s, d) /\ Len(q) = 1
    BY ONLY <1>6, <2>3
  <2>5. Len(F) = Len(p) + Len(q)
    BY <1>7
  <2> QED BY ONLY <2>1, <2>2, <2>3, <2>4, <2>5
<1>9. \A i \in DOMAIN F : \/ i \in DOMAIN p /\ F[i] = p[i]
                          \/ i = Len(p) + 1 /\ F[i] = e /\ Waits(s, d) /\ Len(F) = i
  BY <1>7, <1>8
<1>10. ASSUME NEW i \in DOMAIN F
       PROVE  /\ F[i].type = "error" /\ F[i].source = s
              /\ F[i].session \in ks \/ (F[i].session = 0 /\ Waits(s, d) /\ i = Len(F))
  <2>1. CASE i \in DOMAIN p /\ F[i] = p[i]
    BY <2>1, <1>5, <1>3
  <2>2. CASE i = Len(p) + 1 /\ F[i] = e /\ Waits(s, d) /\ Len(F) = i
    BY <2>2
  <2> QED BY <2>1, <2>2, <1>9
<1>11. ASSUME NEW i \in DOMAIN F, NEW j \in DOMAIN F, F[i].session = F[j].session
       PROVE  i = j
  <2>0. 0 \notin ks
    BY SessionFacts
  <2>1. \A h \in DOMAIN p : p[h].session = order[h] /\ order[h] \in ks
    BY <1>5, <1>3
  <2>2. e.session = 0
    OBVIOUS
  <2>3. \A h \in DOMAIN F : \/ h \in DOMAIN p /\ F[h].session = order[h] /\ order[h] \in ks
                            \/ h = Len(p) + 1 /\ F[h].session = 0
    BY <1>9, <2>1, <2>2
  <2> QED BY <2>0, <2>3, <1>11, <1>2, <1>3, <1>5
<1>12. ASSUME NEW k \in ks
       PROVE  [type |-> "error", session |-> k, source |-> s] \in ToSet(F)
  <2>1. PICK i \in DOMAIN order : order[i] = k
    BY <1>2 DEF ToSet
  <2>2. i \in DOMAIN p /\ p[i] = [type |-> "error", session |-> k, source |-> s]
    BY <2>1, <1>5, <1>3
  <2> QED BY <2>2, <1>7 DEF ToSet
<1>13. ASSUME Waits(s, d)
       PROVE  e \in ToSet(F)
  <2>1. 1 \in DOMAIN q /\ q[1] = e
    BY <1>13, <1>6 DEF q
  <2> QED BY <2>1, <1>7 DEF ToSet
<1> QED BY <1>7, <1>10, <1>11, <1>12, <1>13 DEF F

LEMMA TypeStep == ASSUME Numbered, TableInv, Next PROVE TypeOK'
<1>0. /\ TypeOK /\ Posted /\ \A s \in Service : ControlAt(s) /\ ForksAt(s) /\ ConnectedAt(s)
      /\ MailTypes /\ ContextTypes /\ ThreadTypes /\ DutyTypes /\ PendingTypes /\ HistoryTypes
  BY TypeParts DEF TableInv, TableAt
<1>f. /\ MaxSession \in Nat \ {0} /\ 0 .. MaxSession = {0} \cup Sessions
      /\ 0 \notin Sessions /\ Sessions \subseteq Nat
      /\ None \notin Sessions /\ None \notin Co /\ None \notin Service /\ None # 0
      /\ Break \notin Co /\ Blank \notin Co /\ Break # None
  BY SessionFacts
<1>1. ASSUME NEW s \in Service, DispatchResponse(s) PROVE TypeOK'
  <2>1. /\ Head(mail[s]) \in Message /\ Head(mail[s]) \in Unread(s) /\ MailTypes'
        /\ Head(mail[s]).type = "response"
    BY <1>0, <1>1, TakenTypes DEF DispatchResponse, HeadIs
  <2>2. Head(mail[s]).session \in Sessions
    BY <2>1, <1>0, <1>f DEF Posted, Message
  <2>3. ThreadTypes'
    <3>1. CASE Resume(s, session_id_coroutine[s][Head(mail[s]).session], Head(mail[s]).session, None)
               /\ session_id_coroutine[s][Head(mail[s]).session] \in Co
      BY <3>1, <1>0, <2>2, ResumeTypes
    <3>2. CASE /\ session_id_coroutine' = [session_id_coroutine EXCEPT ![s][Head(mail[s]).session] = None]
               /\ Throw(s) /\ UNCHANGED <<state, on, watching_session, sleep_session>>
      BY <3>2, <1>0 DEF Throw, ThreadTypes
    <3> QED BY <3>1, <3>2, <1>1 DEF DispatchResponse
  <2> QED BY <1>0, <1>1, <2>1, <2>3, KeepTypes, TypeJoin DEF DispatchResponse
<1>2. ASSUME NEW s \in Service, DispatchRequest(s) PROVE TypeOK'
  <2>1. Head(mail[s]) \in Message /\ MailTypes'
    BY <1>0, <1>2, TakenTypes DEF DispatchRequest, HeadIs
  <2>2. Head(mail[s]).session \in 0 .. MaxSession /\ Head(mail[s]).source \in Service \cup {None}
    BY <2>1 DEF Message
  <2>3. ThreadTypes'
    BY <1>0, <1>2 DEF DispatchRequest, Free, ThreadTypes
  <2>4. DutyTypes'
    <3>1. PICK c \in Co :
             /\ session_coroutine_id' = [session_coroutine_id EXCEPT ![s][c] = Head(mail[s]).session]
             /\ session_coroutine_address' = [session_coroutine_address EXCEPT ![s][c] = Head(mail[s]).source]
      BY <1>2 DEF DispatchRequest, Free
    <3>2. unresponse' = unresponse
      BY <1>2 DEF DispatchRequest
    <3>3. session_coroutine_id' \in [Service -> [Co -> {None} \cup 0 .. MaxSession]]
      BY <3>1, <2>2, <1>0 DEF DutyTypes
    <3>4. session_coroutine_address' \in [Service -> [Co -> Service \cup {None}]]
      BY <3>1, <2>2, <1>0 DEF DutyTypes
    <3> QED BY <3>2, <3>3, <3>4, <1>0 DEF DutyTypes
  <2> QED BY <1>0, <1>2, <2>1, <2>3, <2>4, KeepTypes, TypeJoin DEF DispatchRequest
<1>3. ASSUME NEW s \in Service, RefuseRequest(s) PROVE TypeOK'
  <2>1. Head(mail[s]) \in Message /\ Tail(mail[s]) \in Seq(Message) /\ Head(mail[s]) \in Unread(s)
        /\ Head(mail[s]).type = "request"
    BY <1>0, <1>3, TakenTypes DEF RefuseRequest, HeadIs
  <2>2. Head(mail[s]).session \in 0 .. MaxSession /\ Head(mail[s]).source \in Service
    BY <2>1, <1>0 DEF Message, Posted
  <2>3. [type |-> "error", session |-> Head(mail[s]).session, source |-> s] \in Message
    BY <2>2 DEF Message
  <2>4. mail \in [Service -> Seq(Message)] /\ answers \in [Service -> [Sessions -> Nat]]
    BY <1>0 DEF TypeOK
  <2>5. MailTypes'
    <3> DEFINE left == [mail EXCEPT ![s] = Tail(@)]
    <3>1. left \in [Service -> Seq(Message)]
      BY <2>1, <2>4
    <3>2. CASE mail' = left
      BY <3>1, <3>2 DEF MailTypes
    <3>3. CASE mail' = [left EXCEPT ![Head(mail[s]).source] = Append(@,
                 [type |-> "error", session |-> Head(mail[s]).session, source |-> s])]
      <4> HIDE DEF left
      <4> QED BY <3>1, <3>3, <2>2, <2>3 DEF MailTypes
    <3> QED BY <3>2, <3>3, <1>3 DEF RefuseRequest
  <2>6. HistoryTypes'
    <3> DEFINE d == Head(mail[s]).source
               k == Head(mail[s]).session
    <3>1. \/ answers' = answers
          \/ k # 0 /\ answers' = [answers EXCEPT ![d][k] = @ + 1]
      BY <1>3 DEF RefuseRequest
    <3>2. forgotten' = forgotten /\ broken' = broken
      BY <1>3 DEF RefuseRequest
    <3>3. answers' \in [Service -> [Sessions -> Nat]]
      <4>1. d \in Service /\ (k # 0 => k \in Sessions)
        BY <2>2, <1>f
      <4> HIDE DEF d, k
      <4>2. CASE answers' = answers
        BY <4>2, <2>4
      <4>3. CASE k # 0 /\ answers' = [answers EXCEPT ![d][k] = @ + 1]
        <5>1. answers[d] \in [Sessions -> Nat] /\ answers[d][k] + 1 \in Nat
          BY <4>1, <4>3, <2>4
        <5> QED BY <5>1, <4>1, <4>3, <2>4
      <4> QED BY <4>2, <4>3, <3>1
    <3> QED BY <3>2, <3>3, <1>0 DEF HistoryTypes
  <2>7. ThreadTypes'
    BY <1>0, <1>3, SuspendTypes DEF RefuseRequest, threads
  <2> QED BY <1>0, <1>3, <2>5, <2>6, <2>7, KeepTypes, TypeJoin DEF RefuseRequest
<1>4. ASSUME NEW s \in Service, DispatchError(s) PROVE TypeOK'
  <2>1. MailTypes'
    BY <1>0, <1>4, TakenTypes DEF DispatchError, HeadIs
  <2>2. PICK lost \in SUBSET Sessions : \E order \in SetToSeqs(lost) :
             error_queue' = [error_queue EXCEPT ![s] = @ \o order]
    BY <1>4 DEF DispatchError
  <2>3. IsFiniteSet(lost)
    BY SessionFacts
  <2>4. PICK order \in Seq(Sessions) : error_queue' = [error_queue EXCEPT ![s] = @ \o order]
    <3>1. \A order \in SetToSeqs(lost) : order \in Seq(lost)
      BY <2>3, OrderLists
    <3>2. \A order \in Seq(lost) : order \in Seq(Sessions)
      OBVIOUS
    <3> QED BY <3>1, <3>2, <2>2
  <2>5. PendingTypes'
    <3>1. error_queue[s] \o order \in Seq(Sessions)
      BY <1>0 DEF PendingTypes
    <3> QED BY <1>0, <1>4, <2>4, <3>1 DEF PendingTypes, DispatchError
  <2>6. DutyTypes'
    BY <1>0, <1>4 DEF DutyTypes, DispatchError
  <2>7. ThreadTypes'
    BY <1>0, <1>4, SuspendTypes DEF DispatchError, threads
  <2> QED BY <1>0, <1>4, <2>1, <2>5, <2>6, <2>7, KeepTypes, TypeJoin DEF DispatchError
<1>5. ASSUME NEW s \in Service, DispatchWakeup(s) PROVE TypeOK'
  <2>1. /\ wakeup_queue[s] \in Seq(Co) /\ wakeup_queue[s] # <<>>
        /\ Head(wakeup_queue[s]) \in Co /\ Tail(wakeup_queue[s]) \in Seq(Co)
    BY <1>0, <1>5 DEF TypeOK, DispatchWakeup
  <2> DEFINE k == sleep_session[s][Head(wakeup_queue[s])]
  <2>2. k # None => k \in Sessions /\ session_id_coroutine[s][k] \in Co
    <3>1. k \in Sessions \cup {None} /\ on[s][Head(wakeup_queue[s])] \in 0 .. MaxSession
      BY <2>1, <1>0 DEF TypeOK
    <3> QED BY <2>1, <3>1, <1>0, <1>f DEF ConnectedAt
  <2>3. ThreadTypes'
    <3>1. CASE k = None /\ UNCHANGED <<phase, running, threads>>
      BY <3>1, <1>0, KeepTypes
    <3>2. CASE k # None /\ Resume(s, session_id_coroutine[s][k], k,
                                  IF state[s][Head(wakeup_queue[s])] = "wait" THEN None ELSE Break)
      BY <3>2, <2>2, <1>0, ResumeTypes
    <3> QED BY <3>1, <3>2, <1>5 DEF DispatchWakeup
  <2>4. PendingTypes'
    BY <1>0, <1>5, <2>1 DEF PendingTypes, DispatchWakeup
  <2> QED BY <1>0, <1>5, <2>3, <2>4, KeepTypes, TypeJoin DEF DispatchWakeup
<1>6. ASSUME NEW s \in Service, DispatchErrorQueue(s) PROVE TypeOK'
  <2>1. Head(error_queue[s]) \in Sessions /\ Tail(error_queue[s]) \in Seq(Sessions)
    BY <1>0, <1>6 DEF TypeOK, DispatchErrorQueue
  <2> DEFINE k == Head(error_queue[s])
  <2>2. ThreadTypes'
    <3>1. CASE session_id_coroutine[s][k] \in Co /\ Resume(s, session_id_coroutine[s][k], k, None)
      BY <3>1, <2>1, <1>0, ResumeTypes
    <3>2. CASE /\ session_id_coroutine' = [session_id_coroutine EXCEPT ![s][k] = None]
               /\ Throw(s) /\ UNCHANGED <<state, on, watching_session, sleep_session>>
      BY <3>2, <1>0 DEF Throw, ThreadTypes
    <3> QED BY <3>1, <3>2, <1>6 DEF DispatchErrorQueue
  <2>3. PendingTypes'
    BY <1>0, <1>6, <2>1 DEF PendingTypes, DispatchErrorQueue
  <2>4. HistoryTypes'
    BY <1>0, <1>6 DEF HistoryTypes, DispatchErrorQueue
  <2> QED BY <1>0, <1>6, <2>2, <2>3, <2>4, KeepTypes, TypeJoin DEF DispatchErrorQueue
<1>7. ASSUME NEW s \in Service, Drained(s) PROVE TypeOK'
  BY <1>0, <1>7 DEF TypeOK, Drained, context, threads, duties, pending, history
<1>8. ASSUME NEW s \in Service, StartFork(s) PROVE TypeOK'
  <2>1. Head(fork_queue[s]) \in Co \cup {Blank} /\ Tail(fork_queue[s]) \in Seq(Co \cup {Blank})
    BY <1>0, <1>8 DEF TypeOK, StartFork
  <2>2. ThreadTypes'
    <3>1. CASE Head(fork_queue[s]) = Blank /\ Suspend(s) /\ UNCHANGED state
      BY <3>1, <1>0, <1>8, SuspendTypes DEF StartFork
    <3>2. CASE Head(fork_queue[s]) # Blank
      <4> DEFINE c == Head(fork_queue[s])
      <4>1. /\ c \in Co /\ running' = [running EXCEPT ![s] = c]
            /\ phase' = [phase EXCEPT ![s] = "run"] /\ state' = [state EXCEPT ![s][c] = "run"]
            /\ UNCHANGED <<on, session_id_coroutine, watching_session, sleep_session>>
        BY <3>2, <1>8, <2>1 DEF StartFork
      <4> HIDE DEF c
      <4> QED BY <4>1, <1>0 DEF ThreadTypes
    <3> QED BY <3>1, <3>2, <1>8 DEF StartFork
  <2>3. PendingTypes'
    BY <1>0, <1>8, <2>1 DEF PendingTypes, StartFork
  <2> QED BY <1>0, <1>8, <2>2, <2>3, KeepTypes, TypeJoin DEF StartFork
<1>9. ASSUME NEW s \in Service, MessageDone(s) PROVE TypeOK'
  BY <1>0, <1>9 DEF TypeOK, MessageDone, context, threads, duties, pending, history
<1>10. ASSUME NEW s \in Service, DropMessage(s) PROVE TypeOK'
  <2>1. /\ Head(mail[s]) \in Message /\ Tail(mail[s]) \in Seq(Message)
        /\ mail \in [Service -> Seq(Message)]
    BY <1>0, <1>10, TakenTypes DEF DropMessage, MailTypes
  <2>2. MailTypes'
    <3> DEFINE left == [mail EXCEPT ![s] = Tail(@)]
               d == Head(mail[s]).source
    <3>1. left \in [Service -> Seq(Message)] /\ d \in Service \cup {None}
      BY <2>1 DEF Message
    <3>2. CASE mail' = left
      BY <3>1, <3>2 DEF MailTypes
    <3>3. CASE d # None
               /\ mail' = [left EXCEPT ![d] = Append(@, [type |-> "error", session |-> 0, source |-> s])]
      <4>1. [type |-> "error", session |-> 0, source |-> s] \in Message
        BY <1>f DEF Message
      <4> HIDE DEF left, d
      <4> QED BY <3>1, <3>3, <4>1 DEF MailTypes
    <3> QED BY <3>2, <3>3, <1>10 DEF DropMessage
  <2> QED BY <1>0, <1>10, <2>2, KeepTypes, TypeJoin DEF DropMessage
<1>11. ASSUME NEW s \in Service, NEW k \in timer[s], Expire(s, k) PROVE TypeOK'
  <2>1. k \in Sessions
    BY <1>0 DEF ContextTypes
  <2>2. [type |-> "response", session |-> k, source |-> None] \in Message
    BY <2>1, <1>f DEF Message
  <2>3. MailTypes'
    BY <1>0, <1>11, <2>2, PostTypes DEF Expire
  <2>4. ContextTypes'
    BY <1>0, <1>11 DEF Expire, ContextTypes
  <2> QED BY <1>0, <1>11, <2>3, <2>4, KeepTypes, TypeJoin DEF Expire
<1>12. ASSUME NEW s \in Service, NEW c \in Co, Sleep(s, c) PROVE TypeOK'
  <2>1. ThreadTypes'
    BY <1>0, <1>12, NewTypes, ParkTypes DEF Sleep
  <2>2. ContextTypes'
    BY <1>0, <1>12, NewTypes DEF Sleep, ContextTypes
  <2> QED BY <1>0, <1>12, <2>1, <2>2, KeepTypes, TypeJoin DEF Sleep
<1>13. ASSUME NEW s \in Service, NEW c \in Co, Wait(s, c) PROVE TypeOK'
  <2>1. ThreadTypes'
    BY <1>0, <1>13, NewTypes, ParkTypes DEF Wait
  <2>2. ContextTypes'
    BY <1>0, <1>13, NewTypes DEF Wait, ContextTypes
  <2> QED BY <1>0, <1>13, <2>1, <2>2, KeepTypes, TypeJoin DEF Wait
<1>14. ASSUME NEW s \in Service, NEW c \in Co, Ret(s, c) PROVE TypeOK'
  <2> DEFINE id == session_coroutine_id[s][c]
             to == session_coroutine_address[s][c]
  <2>1. id \in 0 .. MaxSession /\ to \in Service
    <3>1. id \in {None} \cup 0 .. MaxSession /\ to \in Service \cup {None}
      BY <1>0 DEF DutyTypes
    <3> QED BY <3>1, <1>0, <1>14 DEF Ret, ControlAt
  <2>2. MailTypes' /\ answers' \in [Service -> [Sessions -> Nat]]
    <3>1. CASE UNCHANGED <<mail, answers>>
      BY <3>1, <1>0 DEF MailTypes, HistoryTypes
    <3>2. CASE \E type \in {"response", "error"} : Answer(s, to, type, id)
      BY <3>2, <2>1, <1>0, AnswerTypes
    <3> QED BY <3>1, <3>2, <1>14 DEF Ret
  <2>3. DutyTypes'
    BY <1>0, <1>14 DEF Ret, DutyTypes
  <2>4. HistoryTypes'
    BY <1>0, <1>14, <2>2 DEF Ret, HistoryTypes
  <2> QED BY <1>0, <1>14, <2>2, <2>3, <2>4, KeepTypes, TypeJoin DEF Ret
<1>15. ASSUME NEW s \in Service, NEW c \in Co, Response(s, c) PROVE TypeOK'
  <2> DEFINE id == session_coroutine_id[s][c]
             to == session_coroutine_address[s][c]
  <2>1. id \in 0 .. MaxSession /\ to \in Service
    <3>1. id \in {None} \cup 0 .. MaxSession /\ to \in Service \cup {None}
      BY <1>0 DEF DutyTypes
    <3> QED BY <3>1, <1>0, <1>15 DEF Response, ControlAt
  <2>2. unresponse' \in [Service -> SUBSET (Service \X Sessions)]
    <3>1. unresponse' = unresponse
          \/ (id # 0 /\ unresponse' = [unresponse EXCEPT ![s] = @ \cup {<<to, id>>}])
      BY <1>15 DEF Response
    <3>2. id # 0 => <<to, id>> \in Service \X Sessions
      BY <2>1, <1>f
    <3> HIDE DEF id, to
    <3> QED BY <3>1, <3>2, <1>0 DEF DutyTypes
  <2>3. DutyTypes'
    BY <1>0, <1>15, <2>2 DEF Response, DutyTypes
  <2> QED BY <1>0, <1>15, <2>3, KeepTypes, TypeJoin DEF Response
<1>16. ASSUME NEW s \in Service, NEW c \in Co, Finish(s, c) PROVE TypeOK'
  <2>1. ThreadTypes'
    BY <1>0, <1>16 DEF Finish, Suspend, ThreadTypes
  <2>2. DutyTypes'
    BY <1>0, <1>16 DEF Finish, Clear, DutyTypes
  <2>3. Debt(s, c) \subseteq Service \X Sessions
    <3>1. session_coroutine_id[s][c] \in {None} \cup 0 .. MaxSession
          /\ session_coroutine_address[s][c] \in Service \cup {None}
      BY <1>0 DEF DutyTypes
    <3> QED BY <3>1, <1>0, <1>f DEF Debt, ControlAt
  <2>4. HistoryTypes'
    BY <1>0, <1>16, <2>3 DEF Finish, HistoryTypes
  <2> QED BY <1>0, <1>16, <2>1, <2>2, <2>4, KeepTypes, TypeJoin DEF Finish
<1>17. ASSUME NEW s \in Service, NEW c \in Co, Fail(s, c) PROVE TypeOK'
  <2> DEFINE id == session_coroutine_id[s][c]
             to == session_coroutine_address[s][c]
  <2>1. Debt(s, c) # {} => id \in 0 .. MaxSession /\ to \in Service
    <3>1. id \in {None} \cup 0 .. MaxSession /\ to \in Service \cup {None}
      BY <1>0 DEF DutyTypes
    <3> QED BY <3>1, <1>0, <1>f DEF Debt, ControlAt
  <2>2. MailTypes' /\ answers' \in [Service -> [Sessions -> Nat]]
    <3>1. CASE UNCHANGED <<mail, answers>>
      BY <3>1, <1>0 DEF MailTypes, HistoryTypes
    <3>2. CASE Debt(s, c) # {} /\ Answer(s, to, "error", id)
      BY <3>2, <2>1, <1>0, AnswerTypes
    <3> QED BY <3>1, <3>2, <1>17 DEF Fail
  <2>3. DutyTypes'
    BY <1>0, <1>17 DEF Fail, Clear, DutyTypes
  <2>4. HistoryTypes'
    BY <1>0, <1>17, <2>2 DEF Fail, HistoryTypes
  <2>5. ThreadTypes'
    BY <1>0, <1>17 DEF Fail, Throw, ThreadTypes
  <2>6. PendingTypes'
    BY <1>0, <1>17 DEF Fail, PendingTypes
  <2> QED BY <1>0, <1>17, <2>2, <2>3, <2>4, <2>5, <2>6, KeepTypes, TypeJoin DEF Fail
<1>18. ASSUME NEW s \in Service, NEW c \in Co, Exit(s, c) PROVE TypeOK'
  <2>1. MailTypes'
    <3>1. \A d \in Service : mail[d] \in Seq(Message) /\ Farewell(s, d, Owed(s, d)) \in Seq(Message)
      BY <1>0, FarewellFacts DEF MailTypes, Owed
    <3>2. \A d \in Service : mail[d] \o Farewell(s, d, Owed(s, d)) \in Seq(Message)
      BY <3>1, SeqConcat
    <3>3. mail' = [d \in Service |-> IF up[d] THEN mail[d] \o Farewell(s, d, Owed(s, d)) ELSE mail[d]]
      BY <1>18 DEF Exit, Leave
    <3> QED BY <3>1, <3>2, <3>3 DEF MailTypes
  <2>2. HistoryTypes'
    <3>1. answers' = [d \in Service |-> [k \in Sessions |->
                        IF up[d] /\ k \in Owed(s, d) THEN answers[d][k] + 1 ELSE answers[d][k]]]
          /\ forgotten' = forgotten /\ broken' = broken
      BY <1>18 DEF Exit, Leave
    <3> QED BY <3>1, <1>0 DEF HistoryTypes
  <2>3. ThreadTypes'
    BY <1>0, <1>18, <1>f DEF Exit, Leave, ThreadTypes
  <2>4. DutyTypes'
    BY <1>0, <1>18, <1>f DEF Exit, Leave, DutyTypes
  <2>5. PendingTypes'
    BY <1>0, <1>18, <1>f DEF Exit, Leave, PendingTypes
  <2>6. ContextTypes'
    BY <1>0, <1>18, <1>f DEF Exit, Leave, ContextTypes
  <2> QED BY <2>1, <2>2, <2>3, <2>4, <2>5, <2>6, TypeJoin
<1>19. ASSUME NEW s \in Service, NEW c \in Co, NEW d \in Service, Call(s, c, d) PROVE TypeOK'
  <2>1. /\ last' \in [Service -> Sessions] /\ last'[s] \in Sessions
    BY <1>0, <1>19, NewTypes DEF Call
  <2>2. [type |-> "request", session |-> last'[s], source |-> s] \in Message
    BY <2>1, <1>f DEF Message
  <2>3. MailTypes'
    <3>1. PICK k \in Sessions : k = last'[s]
      BY <2>1
    <3>2. [type |-> "request", session |-> k, source |-> s] \in Message
          /\ Post(d, [type |-> "request", session |-> k, source |-> s])
      BY <3>1, <2>2, <1>19 DEF Call
    <3> QED BY <1>0, <3>2, PostTypes
  <2>4. ThreadTypes'
    <3>1. CASE Park(s, c, "call", d, FALSE)
      BY <1>0, <2>1, <3>1, ParkTypes
    <3>2. CASE UNCHANGED <<running, phase, threads>>
      BY <1>0, <3>2, KeepTypes
    <3> QED BY <3>1, <3>2, <1>19 DEF Call
  <2>5. ContextTypes'
    BY <1>0, <1>19, <2>1 DEF Call, ContextTypes
  <2> QED BY <1>0, <1>19, <2>3, <2>4, <2>5, KeepTypes, TypeJoin DEF Call
<1>20. ASSUME NEW s \in Service, NEW c \in Co, NEW d \in Service, Send(s, c, d) PROVE TypeOK'
  <2>1. [type |-> "request", session |-> 0, source |-> s] \in Message
    BY <1>f DEF Message
  <2>2. MailTypes'
    BY <1>0, <1>20, <2>1, PostTypes DEF Send
  <2> QED BY <1>0, <1>20, <2>2, KeepTypes, TypeJoin DEF Send
<1>21. ASSUME NEW s \in Service, NEW c \in Co, NEW r \in unresponse[s], Respond(s, c, r) PROVE TypeOK'
  <2>1. r[1] \in Service /\ r[2] \in Sessions
    BY <1>0 DEF DutyTypes
  <2>2. MailTypes' /\ answers' \in [Service -> [Sessions -> Nat]]
    BY <2>1, <1>f, <1>0, <1>21, AnswerTypes DEF Respond
  <2>3. DutyTypes'
    BY <1>0, <1>21 DEF Respond, DutyTypes
  <2>4. HistoryTypes'
    BY <1>0, <1>21, <2>2 DEF Respond, HistoryTypes
  <2> QED BY <1>0, <1>21, <2>2, <2>3, <2>4, KeepTypes, TypeJoin DEF Respond
<1>22. ASSUME NEW s \in Service, NEW c \in Co, NEW v \in Co, Wakeup(s, c, v) PROVE TypeOK'
  <2>1. PendingTypes'
    BY <1>0, <1>22 DEF Wakeup, PendingTypes
  <2> QED BY <1>0, <1>22, <2>1, KeepTypes, TypeJoin DEF Wakeup
<1>23. ASSUME NEW s \in Service, NEW c \in Co, NEW v \in Co, Fork(s, c, v) PROVE TypeOK'
  <2>1. PendingTypes'
    BY <1>0, <1>23 DEF Fork, PendingTypes
  <2>2. ThreadTypes'
    BY <1>0, <1>23 DEF Fork, ThreadTypes
  <2> QED BY <1>0, <1>23, <2>1, <2>2, KeepTypes, TypeJoin DEF Fork
<1>24. ASSUME NEW s \in Service, NEW c \in Co, NEW v \in Co, Timeout(s, c, v) PROVE TypeOK'
  <2>1. /\ last' \in [Service -> Sessions] /\ last'[s] \in Sessions
    BY <1>0, <1>24, NewTypes DEF Timeout
  <2>2. ContextTypes'
    BY <1>0, <1>24, <2>1 DEF Timeout, ContextTypes
  <2>3. ThreadTypes'
    BY <1>0, <1>24, <2>1, <1>f DEF Timeout, ThreadTypes
  <2> QED BY <1>0, <1>24, <2>2, <2>3, KeepTypes, TypeJoin DEF Timeout
<1>25. ASSUME NEW s \in Service, NEW c \in Co, NEW v \in Co, KillForked(s, c, v) PROVE TypeOK'
  <2>1. PICK i \in DOMAIN fork_queue[s] : fork_queue' = [fork_queue EXCEPT ![s] = RemoveAt(@, i)]
    BY <1>25 DEF KillForked
  <2>2. fork_queue[s] \in Seq(Co \cup {Blank})
    BY <1>0 DEF PendingTypes
  <2>3. RemoveAt(fork_queue[s], i) \in Seq(Co \cup {Blank})
    BY <2>2, RemoveFacts
  <2>4. PendingTypes'
    BY <1>0, <1>25, <2>1, <2>3 DEF KillForked, PendingTypes
  <2>5. ThreadTypes'
    BY <1>0, <1>25 DEF KillForked, ThreadTypes
  <2> QED BY <1>0, <1>25, <2>4, <2>5, KeepTypes, TypeJoin DEF KillForked
<1>26. ASSUME NEW s \in Service, NEW c \in Co, NEW v \in Co, Kill(s, c, v) PROVE TypeOK'
  <2> DEFINE k == on[s][v]
             id == session_coroutine_id[s][v]
             to == session_coroutine_address[s][v]
  <2>1. /\ id \in {None} \cup 0 .. MaxSession /\ to \in Service \cup {None}
        /\ k \in Sessions
    BY <1>0, <1>26, <1>f DEF Kill, DutyTypes, ThreadTypes
  <2>2. MailTypes' /\ answers' \in [Service -> [Sessions -> Nat]] /\ last' \in [Service -> Sessions]
    <3>1. CASE to = None /\ UNCHANGED <<mail, last, answers>>
      BY <3>1, <1>0 DEF MailTypes, HistoryTypes, ContextTypes
    <3>2. CASE to # None /\ id # None /\ Answer(s, to, "error", id) /\ UNCHANGED last
      BY <3>2, <2>1, <1>0, AnswerTypes DEF ContextTypes
    <3>3. CASE to # None /\ id = None /\ NewSession(s) /\ Answer(s, to, "error", last'[s])
      <4>1. last' \in [Service -> Sessions] /\ last'[s] \in Sessions
        BY <3>3, <1>0, NewTypes
      <4>2. PICK j \in 0 .. MaxSession : j = last'[s]
        BY <4>1, <1>f
      <4>3. Answer(s, to, "error", j)
        BY <3>3, <4>2
      <4> QED BY <4>1, <4>3, <3>3, <2>1, <1>0, AnswerTypes
    <3> QED BY <3>1, <3>2, <3>3, <1>26 DEF Kill
  <2>3. DutyTypes'
    BY <1>0, <1>26 DEF Kill, Clear, DutyTypes
  <2>4. HistoryTypes'
    BY <1>0, <1>26, <2>2 DEF Kill, HistoryTypes
  <2>5. ContextTypes'
    BY <1>0, <1>26, <2>2 DEF Kill, ContextTypes
  <2>6. ThreadTypes'
    <3>1. /\ \E x \in {None, Break} : session_id_coroutine' = [session_id_coroutine EXCEPT ![s][k] = x]
          /\ watching_session' = [watching_session EXCEPT ![s][k] = None]
          /\ sleep_session' = [sleep_session EXCEPT ![s][v] = None]
          /\ state' = [state EXCEPT ![s][v] = "free"]
          /\ on' = [on EXCEPT ![s][v] = 0]
          /\ UNCHANGED <<phase, running>>
      BY <1>26 DEF Kill
    <3> HIDE DEF k
    <3> QED BY <3>1, <1>0, <2>1, <1>f DEF ThreadTypes
  <2> QED BY <1>0, <1>26, <2>2, <2>3, <2>4, <2>5, <2>6, KeepTypes, TypeJoin DEF Kill
<1> QED BY <1>1, <1>2, <1>3, <1>4, <1>5, <1>6, <1>7, <1>8, <1>9, <1>10, <1>11, <1>12, <1>13, <1>14,
           <1>15, <1>16, <1>17, <1>18, <1>19, <1>20, <1>21, <1>22, <1>23, <1>24, <1>25, <1>26
        DEF Next, Scheduler, Runs
-----------------------------------------------------------------------------
(***************************************************************************)
(* What a step does to the messages that wait.                             *)
(***************************************************************************)
LEMMA KeepMail ==
    ASSUME UNCHANGED mail
    PROVE  \A x : Unread(x)' = Unread(x)
BY DEF Unread

LEMMA TakeMail ==
    ASSUME mail \in [Service -> Seq(Message)], NEW s \in Service, mail[s] # <<>>,
           mail' = [mail EXCEPT ![s] = Tail(@)]
    PROVE  /\ Unread(s) = Unread(s)' \cup {Head(mail[s])}
           /\ \A x \in Service : x # s => Unread(x)' = Unread(x)
           /\ \A x \in Service : Unread(x)' \subseteq Unread(x)
<1>1. Unread(s) = Unread(s)' \cup {Head(mail[s])}
  <2>1. mail'[s] = Tail(mail[s]) /\ mail[s] \in Seq(Message)
    OBVIOUS
  <2> QED BY <2>1, SeqTail DEF Unread
<1>2. \A x \in Service : x # s => Unread(x)' = Unread(x)
  BY DEF Unread
<1> QED BY <1>1, <1>2

LEMMA PostMail ==
    ASSUME mail \in [Service -> Seq(Message)], NEW d \in Service, NEW m, Post(d, m)
    PROVE  /\ up[d] => Unread(d)' = Unread(d) \cup {m}
           /\ \A x \in Service : x # d \/ ~up[d] => Unread(x)' = Unread(x)
<1>1. CASE up[d]
  <2>1. mail'[d] = Append(mail[d], m) /\ mail[d] \in Seq(Message)
    BY <1>1 DEF Post
  <2>2. Unread(d)' = Unread(d) \cup {m}
    BY <2>1, SeqAppend DEF Unread
  <2>3. \A x \in Service : x # d => Unread(x)' = Unread(x)
    BY <1>1 DEF Unread, Post
  <2> QED BY <1>1, <2>2, <2>3
<1>2. CASE ~up[d]
  BY <1>2 DEF Unread, Post
<1> QED BY <1>1, <1>2

\* A message is taken from s and one is sent to d.
LEMMA TakeAndPostMail ==
    ASSUME mail \in [Service -> Seq(Message)], NEW s \in Service, mail[s] # <<>>, NEW d \in Service, NEW m,
           mail' = [[mail EXCEPT ![s] = Tail(@)] EXCEPT ![d] = Append(@, m)]
    PROVE  /\ Unread(s) \subseteq Unread(s)' \cup {Head(mail[s])}
           /\ \A x \in Service : x # s => Unread(x) \subseteq Unread(x)'
           /\ \A x \in Service : x # d => Unread(x)' \subseteq Unread(x)
           /\ Unread(d)' \subseteq Unread(d) \cup {m} /\ m \in Unread(d)'
<1> DEFINE left == [mail EXCEPT ![s] = Tail(@)]
<1>0. /\ mail[s] \in Seq(Message) /\ Tail(mail[s]) \in Seq(Message)
      /\ ToSet(mail[s]) = ToSet(Tail(mail[s])) \cup {Head(mail[s])}
  BY SeqTail
<1>1. left \in [Service -> Seq(Message)] /\ left[s] = Tail(mail[s])
      /\ \A x \in Service : x # s => left[x] = mail[x]
  BY <1>0
<1> HIDE DEF left
<1>2. mail' = [left EXCEPT ![d] = Append(@, m)]
  BY DEF left
<1>3. left[d] \in Seq(Message) /\ mail'[d] = Append(left[d], m)
      /\ \A x \in Service : x # d => mail'[x] = left[x]
  BY <1>1, <1>2
<1>4. ToSet(mail'[d]) = ToSet(left[d]) \cup {m}
  <2>1. PICK q \in Seq(Message) : q = left[d]
    BY <1>3
  <2>2. ToSet(Append(q, m)) = ToSet(q) \cup {m}
    BY SeqAppend
  <2> QED BY <2>1, <2>2, <1>3
<1> QED BY <1>0, <1>1, <1>3, <1>4 DEF Unread

LEMMA ExitMail ==
    ASSUME Numbered, mail \in [Service -> Seq(Message)], NEW s \in Service, NEW c \in Co, Exit(s, c)
    PROVE  \A x \in Service :
              /\ ~up[x] => Unread(x)' = Unread(x)
              /\ up[x] => Unread(x)' = Unread(x) \cup ToSet(Farewell(s, x, Owed(s, x)))
<1> SUFFICES ASSUME NEW x \in Service
             PROVE  /\ ~up[x] => Unread(x)' = Unread(x)
                    /\ up[x] => Unread(x)' = Unread(x) \cup ToSet(Farewell(s, x, Owed(s, x)))
  OBVIOUS
<1>1. mail'[x] = IF up[x] THEN mail[x] \o Farewell(s, x, Owed(s, x)) ELSE mail[x]
  BY DEF Exit, Leave
<1>2. Farewell(s, x, Owed(s, x)) \in Seq(Message)
  BY FarewellFacts DEF Owed
<1>3. mail[x] \in Seq(Message)
  OBVIOUS
<1> QED BY <1>1, <1>2, <1>3, SeqConcat DEF Unread

LEMMA PostedStep == ASSUME Numbered, TableInv, Next PROVE Posted'
<1>0. /\ TypeOK /\ Posted /\ (\A s \in Service : ControlAt(s)) /\ mail \in [Service -> Seq(Message)]
  BY DEF TableInv, TableAt, TypeOK
<1>1. ASSUME UNCHANGED mail PROVE Posted'
  BY <1>0, <1>1, KeepMail DEF Posted
<1>2. ASSUME NEW s \in Service, mail[s] # <<>>, mail' = [mail EXCEPT ![s] = Tail(@)] PROVE Posted'
  BY <1>0, <1>2, TakeMail DEF Posted
<1>3. ASSUME NEW d \in Service, NEW m, Post(d, m), m.type = "request" => m.source \in Service,
             m.type = "response" => m.session # 0
      PROVE  Posted'
  BY <1>0, <1>3, PostMail, SMTT(30) DEF Posted
<1>4. ASSUME NEW s \in Service, mail[s] # <<>>, NEW d \in Service, NEW k,
             mail' = [[mail EXCEPT ![s] = Tail(@)] EXCEPT ![d] =
                         Append(@, [type |-> "error", session |-> k, source |-> s])]
      PROVE  Posted'
  <2>1. PICK m : m = [type |-> "error", session |-> k, source |-> s]
    OBVIOUS
  <2>2. /\ \A x \in Service : x # d => Unread(x)' \subseteq Unread(x)
        /\ Unread(d)' \subseteq Unread(d) \cup {m}
    <3>1. mail' = [[mail EXCEPT ![s] = Tail(@)] EXCEPT ![d] = Append(@, m)]
      BY <1>4, <2>1
    <3> QED BY <3>1, <1>0, <1>4, TakeAndPostMail
  <2>3. m.type = "error"
    BY <2>1
  <2> QED BY <1>0, <2>3, <2>2 DEF Posted
<1>5. ASSUME NEW s \in Service, NEW d \in Service, NEW type \in {"response", "error"}, NEW k,
             type = "response" => k # 0, Answer(s, d, type, k)
      PROVE  Posted'
  BY <1>5, <1>3 DEF Answer
<1>6. ASSUME NEW s \in Service, NEW c \in Co, Exit(s, c) PROVE Posted'
  <2> SUFFICES ASSUME NEW x \in Service, NEW m \in Unread(x)'
               PROVE  /\ m.type = "request" => m.source \in Service
                      /\ m.type = "response" => m.session # 0
    BY DEF Posted
  <2>1. CASE m \in Unread(x)
    BY <2>1, <1>0 DEF Posted
  <2>2. CASE m \in ToSet(Farewell(s, x, Owed(s, x)))
    <3>0. Owed(s, x) \in SUBSET Sessions
      BY DEF Owed
    <3>1. PICK i \in DOMAIN Farewell(s, x, Owed(s, x)) : m = Farewell(s, x, Owed(s, x))[i]
      BY <2>2 DEF ToSet
    <3>2. Farewell(s, x, Owed(s, x))[i].type = "error"
      <4>1. PICK ks \in SUBSET Sessions : ks = Owed(s, x)
        BY <3>0
      <4>2. \A h \in DOMAIN Farewell(s, x, ks) : Farewell(s, x, ks)[h].type = "error"
        BY FarewellFacts
      <4> QED BY <4>1, <4>2
    <3>3. m.type = "error"
      BY <3>1, <3>2
    <3> QED BY <3>3
  <2> QED BY <2>1, <2>2, <1>0, <1>6, ExitMail
<1>7. ASSUME NEW s \in Service PROVE
      /\ DispatchResponse(s) \/ DispatchRequest(s) \/ RefuseRequest(s) \/ DispatchError(s)
            \/ DropMessage(s) => mail[s] # <<>>
      /\ DispatchResponse(s) \/ DispatchRequest(s) \/ DispatchError(s)
            => mail' = [mail EXCEPT ![s] = Tail(@)]
  BY DEF DispatchResponse, DispatchRequest, RefuseRequest, DispatchError, DropMessage, HeadIs
<1>8. ASSUME NEW s \in Service, RefuseRequest(s) PROVE Posted'
  <2>1. Head(mail[s]) \in Unread(s) /\ Head(mail[s]).source \in Service
    BY <1>0, <1>7, <1>8, TakenTypes DEF Posted, RefuseRequest, HeadIs
  <2>k. PICK k : k = Head(mail[s]).session
    OBVIOUS
  <2>2. PICK d \in Service : d = Head(mail[s]).source
    BY <2>1
  <2>3. \/ mail' = [mail EXCEPT ![s] = Tail(@)]
        \/ mail' = [[mail EXCEPT ![s] = Tail(@)] EXCEPT ![d] =
                     Append(@, [type |-> "error", session |-> k, source |-> s])]
    BY <2>k, <2>2, <1>8 DEF RefuseRequest
  <2>4. mail[s] # <<>>
    BY <1>8, <1>7
  <2> QED BY <2>3, <2>4, <1>2, <1>4
<1>9. ASSUME NEW s \in Service, DropMessage(s) PROVE Posted'
  <2>1. Head(mail[s]).source \in Service \cup {None}
    BY <1>0, <1>7, <1>9, TakenTypes DEF Message
  <2>2. \/ mail' = [mail EXCEPT ![s] = Tail(@)]
        \/ /\ Head(mail[s]).source # None
           /\ mail' = [[mail EXCEPT ![s] = Tail(@)] EXCEPT ![Head(mail[s]).source] =
                    Append(@, [type |-> "error", session |-> 0, source |-> s])]
    BY <1>9 DEF DropMessage
  <2>3. mail[s] # <<>>
    BY <1>9, <1>7
  <2> QED BY <2>1, <2>2, <2>3, <1>2, <1>4
<1>10. ASSUME NEW s \in Service, NEW k \in timer[s], Expire(s, k) PROVE Posted'
  <2>1. k \in Sessions
    BY <1>0 DEF TypeOK
  <2>2. k # 0
    BY <2>1, SessionFacts
  <2> QED BY <2>2, <1>3, <1>10 DEF Expire
<1>11. ASSUME NEW s \in Service, NEW c \in Co, NEW d \in Service, Call(s, c, d) \/ Send(s, c, d)
       PROVE  Posted'
  <2>1. CASE Call(s, c, d)
    BY <2>1, <1>3 DEF Call
  <2>2. CASE Send(s, c, d)
    BY <2>2, <1>3 DEF Send
  <2> QED BY <2>1, <2>2, <1>11
<1>12. ASSUME NEW s \in Service, NEW c \in Co, Ret(s, c) \/ Fail(s, c) PROVE Posted'
  <2>1. session_coroutine_id[s][c] # None => session_coroutine_address[s][c] \in Service
    BY <1>0 DEF ControlAt, TypeOK
  <2>2. CASE Ret(s, c)
    BY <2>1, <2>2, <1>1, <1>5 DEF Ret
  <2>3. CASE Fail(s, c)
    BY <2>1, <2>3, <1>1, <1>5, SessionFacts DEF Fail, Debt
  <2> QED BY <1>12, <2>2, <2>3
<1>13. ASSUME NEW s \in Service, NEW c \in Co, NEW r \in unresponse[s], Respond(s, c, r) PROVE Posted'
  <2>1. unresponse[s] \subseteq Service \X Sessions
    BY <1>0 DEF TypeOK
  <2>2. r[1] \in Service /\ r[2] \in Sessions
    BY <2>1
  <2>3. r[2] # 0
    BY <2>2, SessionFacts
  <2> QED BY <2>2, <2>3, <1>13, <1>5 DEF Respond
<1>14. ASSUME NEW s \in Service, NEW c \in Co, NEW v \in Co, Kill(s, c, v) PROVE Posted'
  <2>1. session_coroutine_address[s][v] \in Service \cup {None}
    BY <1>0 DEF TypeOK
  <2> QED BY <2>1, <1>14, <1>1, <1>5 DEF Kill
<1>15. ASSUME NEW s \in Service,
              DispatchWakeup(s) \/ DispatchErrorQueue(s) \/ Drained(s) \/ StartFork(s) \/ MessageDone(s)
       PROVE  Posted'
  BY <1>15, <1>1 DEF DispatchWakeup, DispatchErrorQueue, Drained, StartFork, MessageDone
<1>16. ASSUME NEW s \in Service, NEW c \in Co,
              Sleep(s, c) \/ Wait(s, c) \/ Response(s, c) \/ Finish(s, c) PROVE Posted'
  BY <1>16, <1>1 DEF Sleep, Wait, Response, Finish
<1>17. ASSUME NEW s \in Service, NEW c \in Co, NEW v \in Co,
              Wakeup(s, c, v) \/ Fork(s, c, v) \/ Timeout(s, c, v) \/ KillForked(s, c, v)
       PROVE  Posted'
  BY <1>17, <1>1 DEF Wakeup, Fork, Timeout, KillForked
<1> QED BY <1>2, <1>6, <1>7, <1>8, <1>9, <1>10, <1>11, <1>12, <1>13, <1>14, <1>15, <1>16, <1>17
        DEF Next, Scheduler, Runs
-----------------------------------------------------------------------------
(***************************************************************************)
(* The tables: what a step of s does to its own row, and to no other one.   *)
(***************************************************************************)
Row(s) == <<up[s], phase[s], running[s], state[s], on[s], last[s], session_id_coroutine[s],
            watching_session[s], session_coroutine_id[s], session_coroutine_address[s],
            sleep_session[s], wakeup_queue[s], error_queue[s], fork_queue[s], broken[s]>>

LEMMA RowKept ==
    ASSUME NEW x \in Service, TableAt(x), Row(x)' = Row(x)
    PROVE  TableAt(x)'
<1>1. /\ up'[x] = up[x] /\ phase'[x] = phase[x] /\ running'[x] = running[x]
      /\ state'[x] = state[x] /\ on'[x] = on[x] /\ last'[x] = last[x]
      /\ session_id_coroutine'[x] = session_id_coroutine[x]
      /\ watching_session'[x] = watching_session[x]
      /\ session_coroutine_id'[x] = session_coroutine_id[x]
      /\ session_coroutine_address'[x] = session_coroutine_address[x]
      /\ sleep_session'[x] = sleep_session[x] /\ wakeup_queue'[x] = wakeup_queue[x]
      /\ error_queue'[x] = error_queue[x] /\ fork_queue'[x] = fork_queue[x]
      /\ broken'[x] = broken[x]
  BY DEF Row
<1>2. UnusedAt(x)'
  BY <1>1 DEF TableAt, UnusedAt
<1>3. ControlAt(x)'
  BY <1>1 DEF TableAt, ControlAt
<1>4. ForksAt(x)'
  BY <1>1 DEF TableAt, ForksAt
<1>5. ConnectedAt(x)'
  BY <1>1 DEF TableAt, ConnectedAt
<1>6. DrainsAt(x)'
  BY <1>1 DEF TableAt, DrainsAt, Handled
<1> QED BY <1>2, <1>3, <1>4, <1>5, <1>6 DEF TableAt

LEMMA OtherRows ==
    ASSUME NEW s \in Service, Scheduler(s) \/ Runs(s) \/ DropMessage(s) \/ (\E k \in timer[s] : Expire(s, k)),
           NEW x \in Service, x # s, TypeOK, Numbered
    PROVE  Row(x)' = Row(x)
<1>0. /\ ContextTypes /\ ThreadTypes /\ DutyTypes /\ PendingTypes /\ HistoryTypes
  BY TypeParts
<1>1. CASE Scheduler(s)
  <2>1. CASE DispatchResponse(s)
    <3>1. CASE Resume(s, session_id_coroutine[s][Head(mail[s]).session], Head(mail[s]).session, None)
      BY <2>1, <3>1, <1>0 DEF DispatchResponse, Resume, Row, context, duties, pending, history, ThreadTypes
    <3>2. CASE /\ Throw(s) /\ UNCHANGED <<state, on, watching_session, sleep_session>>
               /\ session_id_coroutine' =
                    [session_id_coroutine EXCEPT ![s][Head(mail[s]).session] = None]
      BY <2>1, <3>2, <1>0 DEF DispatchResponse, Throw, Row, context, duties, pending, history, ThreadTypes
    <3> QED BY <2>1, <3>1, <3>2 DEF DispatchResponse
  <2>2. CASE DispatchRequest(s)
    BY <2>2, <1>0 DEF DispatchRequest, Row, context, duties, pending, history
  <2>3. CASE RefuseRequest(s)
    BY <2>3, <1>0 DEF RefuseRequest, Throw, Row, context, threads, duties, pending
  <2>4. CASE DispatchError(s)
    BY <2>4, <1>0 DEF DispatchError, Suspend, Row, context, threads, history
  <2>5. CASE DispatchWakeup(s)
    <3>0. PICK k, b : \/ UNCHANGED <<phase, running, threads>>
                         \/ Resume(s, session_id_coroutine[s][k], k, b)
      BY <2>5 DEF DispatchWakeup
    <3>1. CASE UNCHANGED <<phase, running, threads>>
      BY <2>5, <3>1, <1>0 DEF DispatchWakeup, Row, context, threads, duties, history, PendingTypes
    <3>2. CASE Resume(s, session_id_coroutine[s][k], k, b)
      BY <2>5, <3>2, <1>0 DEF DispatchWakeup, Resume, Row, context, duties, history, PendingTypes, ThreadTypes
    <3> QED BY <3>0, <3>1, <3>2
  <2>6. CASE DispatchErrorQueue(s)
    <3>1. CASE Resume(s, session_id_coroutine[s][Head(error_queue[s])], Head(error_queue[s]), None)
               /\ UNCHANGED broken
      BY <2>6, <3>1, <1>0 DEF DispatchErrorQueue, Resume, Row, context, duties, ThreadTypes, PendingTypes
    <3>2. CASE /\ Throw(s) /\ UNCHANGED <<state, on, watching_session, sleep_session>>
               /\ session_id_coroutine' =
                    [session_id_coroutine EXCEPT ![s][Head(error_queue[s])] = None]
               /\ broken' = [broken EXCEPT ![s] = TRUE]
      BY <2>6, <3>2, <1>0 DEF DispatchErrorQueue, Throw, Row, context, duties,
             ThreadTypes, PendingTypes, HistoryTypes
    <3> QED BY <2>6, <3>1, <3>2 DEF DispatchErrorQueue
  <2>7. CASE Drained(s)
    BY <2>7, <1>0 DEF Drained, Row, context, threads, duties, pending, history
  <2>8. CASE StartFork(s)
    <3>1. /\ fork_queue'[x] = fork_queue[x] /\ state'[x] = state[x]
          /\ phase'[x] = phase[x] /\ running'[x] = running[x]
      BY <2>8, <1>0 DEF StartFork, Suspend, ThreadTypes, PendingTypes
    <3> QED BY <2>8, <3>1 DEF StartFork, Row, context, duties, history
  <2>9. CASE MessageDone(s)
    BY <2>9, <1>0 DEF MessageDone, Row, context, threads, duties, pending, history
  <2> QED BY <1>1, <2>1, <2>2, <2>3, <2>4, <2>5, <2>6, <2>7, <2>8, <2>9 DEF Scheduler
<1>2. CASE Runs(s)
  <2>0. PICK c \in Co :
          \/ Sleep(s, c) \/ Wait(s, c) \/ Ret(s, c) \/ Response(s, c)
          \/ Finish(s, c) \/ Fail(s, c) \/ Exit(s, c)
          \/ \E d \in Service : Call(s, c, d) \/ Send(s, c, d)
          \/ \E r \in unresponse[s] : Respond(s, c, r)
          \/ \E v \in Co : \/ Wakeup(s, c, v) \/ Fork(s, c, v) \/ Timeout(s, c, v)
                           \/ KillForked(s, c, v) \/ Kill(s, c, v)
    BY <1>2 DEF Runs
  <2>1. CASE Sleep(s, c)
    BY <2>1, <1>0 DEF Sleep, NewSession, Park, Suspend, Row, duties, pending, history
  <2>2. CASE Wait(s, c)
    BY <2>2, <1>0 DEF Wait, NewSession, Park, Suspend, Row, duties, pending, history
  <2>3. CASE Ret(s, c)
    BY <2>3, <1>0 DEF Ret, Row, context, threads, pending
  <2>4. CASE Response(s, c)
    BY <2>4, <1>0 DEF Response, Row, context, threads, pending, history
  <2>5. CASE Finish(s, c)
    BY <2>5, <1>0 DEF Finish, Clear, Suspend, Row, context, pending
  <2>6. CASE Fail(s, c)
    BY <2>6, <1>0 DEF Fail, Clear, Throw, Row, context
  <2>7. CASE Exit(s, c)
    BY <2>7, <1>0 DEF Exit, Leave, Row
  <2>8. ASSUME NEW d \in Service, Call(s, c, d) \/ Send(s, c, d) PROVE Row(x)' = Row(x)
    <3>1. CASE Call(s, c, d)
      <4>1. last'[x] = last[x]
        BY <3>1, <1>0 DEF Call, NewSession, ContextTypes
      <4>2. CASE Park(s, c, "call", d, FALSE)
        BY <3>1, <4>1, <4>2, <1>0 DEF Call, Park, Suspend, Row, duties, pending, history, ThreadTypes
      <4>3. CASE UNCHANGED <<running, phase, threads>>
        BY <3>1, <4>1, <4>3 DEF Call, Row, threads, duties, pending, history
      <4> QED BY <3>1, <4>2, <4>3 DEF Call
    <3>2. CASE Send(s, c, d)
      BY <3>2, <1>0 DEF Send, Row, context, threads, duties, pending, history
    <3> QED BY <3>1, <3>2, <2>8
  <2>9. ASSUME NEW r \in unresponse[s], Respond(s, c, r) PROVE Row(x)' = Row(x)
    BY <2>9, <1>0 DEF Respond, Row, context, threads, pending
  <2>10. ASSUME NEW v \in Co, Wakeup(s, c, v) PROVE Row(x)' = Row(x)
    BY <2>10, <1>0 DEF Wakeup, Row, context, threads, duties, history
  <2>11. ASSUME NEW v \in Co, Fork(s, c, v) PROVE Row(x)' = Row(x)
    BY <2>11, <1>0 DEF Fork, Row, context, duties, history
  <2>12. ASSUME NEW v \in Co, Timeout(s, c, v) PROVE Row(x)' = Row(x)
    BY <2>12, <1>0 DEF Timeout, NewSession, Row, duties, pending, history
  <2>13. ASSUME NEW v \in Co, KillForked(s, c, v) PROVE Row(x)' = Row(x)
    BY <2>13, <1>0 DEF KillForked, Row, context, duties, history
  <2>14. ASSUME NEW v \in Co, Kill(s, c, v) PROVE Row(x)' = Row(x)
    <3>1. last'[x] = last[x]
      BY <2>14, <1>0 DEF Kill, NewSession, ContextTypes
    <3>2. /\ session_id_coroutine'[x] = session_id_coroutine[x] /\ watching_session'[x] = watching_session[x]
          /\ sleep_session'[x] = sleep_session[x] /\ state'[x] = state[x] /\ on'[x] = on[x]
      BY <2>14, <1>0 DEF Kill, ThreadTypes
    <3>3. /\ session_coroutine_id'[x] = session_coroutine_id[x]
          /\ session_coroutine_address'[x] = session_coroutine_address[x]
      BY <2>14, <1>0 DEF Kill, Clear, DutyTypes
    <3>4. UNCHANGED <<up, phase, running, pending, broken>>
      BY <2>14 DEF Kill
    <3> QED BY <3>1, <3>2, <3>3, <3>4 DEF Row, pending
  <2> QED BY <2>0, <2>1, <2>2, <2>3, <2>4, <2>5, <2>6, <2>7, <2>8, <2>9, <2>10, <2>11, <2>12, <2>13, <2>14
<1>3. CASE DropMessage(s)
  BY <1>3 DEF DropMessage, Row, context, threads, duties, pending, history
<1>4. ASSUME NEW k \in timer[s], Expire(s, k) PROVE Row(x)' = Row(x)
  BY <1>4 DEF Expire, Row, threads, duties, pending, history
<1> QED BY <1>1, <1>2, <1>3, <1>4

\* A coroutine that waits for session k is resumed.
LEMMA ResumeTable ==
    ASSUME Numbered, TypeOK, NEW s \in Service, TableAt(s), up[s], running[s] = None,
           NEW c \in Co, NEW k \in Sessions, NEW rest \in {None, Break}, on[s][c] = k,
           Resume(s, c, k, rest),
           UNCHANGED <<up, last, session_coroutine_id, session_coroutine_address, fork_queue>>
    PROVE  TableAt(s)'
<1>0. /\ ThreadTypes /\ DutyTypes /\ PendingTypes
      /\ UnusedAt(s) /\ ControlAt(s) /\ ForksAt(s) /\ ConnectedAt(s)
  BY TypeParts DEF TableAt
<1>1. None \notin Co /\ Break \notin Co /\ 0 \notin Sessions /\ None \notin Sessions
      /\ Sessions \subseteq Nat
  BY SessionFacts
<1>2. session_id_coroutine[s][k] = c /\ ~(k > last[s])
  BY <1>0, <1>1 DEF ConnectedAt, UnusedAt
<1>3. /\ state'[s] = [state[s] EXCEPT ![c] = "run"] /\ on'[s] = [on[s] EXCEPT ![c] = 0]
      /\ session_id_coroutine'[s] = [session_id_coroutine[s] EXCEPT ![k] = rest]
      /\ watching_session'[s] = [watching_session[s] EXCEPT ![k] = None]
      /\ sleep_session'[s] = [sleep_session[s] EXCEPT ![c] = None]
      /\ running'[s] = c /\ phase'[s] = "run"
  BY <1>0 DEF Resume, ThreadTypes
<1>4. /\ state[s] \in [Co -> {"free", "ready", "run", "call", "sleep", "wait"}]
      /\ on[s] \in [Co -> 0 .. MaxSession]
      /\ session_id_coroutine[s] \in [Sessions -> Co \cup {None, Break}]
      /\ watching_session[s] \in [Sessions -> Service \cup {None}]
      /\ sleep_session[s] \in [Co -> Sessions \cup {None}]
  BY <1>0 DEF ThreadTypes
<1>5. UnusedAt(s)'
  BY <1>0, <1>1, <1>2, <1>3, <1>4 DEF UnusedAt
<1>6. ControlAt(s)'
  BY <1>0, <1>1, <1>2, <1>3, <1>4 DEF ControlAt
<1>7. ForksAt(s)'
  BY <1>0, <1>1, <1>2, <1>3, <1>4 DEF ForksAt, PendingTypes
<1>8. ConnectedAt(s)'
  BY <1>0, <1>1, <1>2, <1>3, <1>4 DEF ConnectedAt
<1>9. DrainsAt(s)'
  BY <1>3 DEF DrainsAt
<1> QED BY <1>5, <1>6, <1>7, <1>8, <1>9 DEF TableAt

\* A session that nobody waits for any more is cleared.
LEMMA ClearTable ==
    ASSUME Numbered, TypeOK, NEW s \in Service, TableAt(s), up[s],
           NEW k \in Sessions, session_id_coroutine[s][k] \notin Co,
           session_id_coroutine' = [session_id_coroutine EXCEPT ![s][k] = None],
           Throw(s), Handled(s)',
           UNCHANGED <<up, last, state, on, watching_session, sleep_session,
                       session_coroutine_id, session_coroutine_address, fork_queue>>,
           running[s] = None
    PROVE  TableAt(s)'
<1>0. /\ ThreadTypes /\ UnusedAt(s) /\ ControlAt(s) /\ ForksAt(s) /\ ConnectedAt(s)
  BY TypeParts DEF TableAt
<1>1. None \notin Co
  BY SessionFacts
<1>2. /\ session_id_coroutine'[s] = [session_id_coroutine[s] EXCEPT ![k] = None]
      /\ running'[s] = None /\ phase'[s] = "fork"
      /\ session_id_coroutine[s] \in [Sessions -> Co \cup {None, Break}]
  BY <1>0 DEF Throw, ThreadTypes
<1>3. UnusedAt(s)'
  BY <1>0, <1>2 DEF UnusedAt
<1>4. ControlAt(s)'
  BY <1>0, <1>1, <1>2 DEF ControlAt
<1>5. ForksAt(s)'
  BY <1>0 DEF ForksAt
<1>6. ConnectedAt(s)'
  BY <1>0, <1>1, <1>2 DEF ConnectedAt
<1>7. DrainsAt(s)'
  BY <1>2 DEF DrainsAt
<1> QED BY <1>3, <1>4, <1>5, <1>6, <1>7 DEF TableAt

\* The running coroutine waits for a new session.
LEMMA ParkTable ==
    ASSUME Numbered, TypeOK, NEW s \in Service, TableAt(s), NEW c \in Co,
           phase[s] = "run", running[s] = c,
           NEW how \in {"call", "sleep", "wait"}, NEW watch \in Service \cup {None}, NEW token \in BOOLEAN,
           how = "call" <=> watch # None, token <=> how # "call",
           NewSession(s), Park(s, c, how, watch, token),
           UNCHANGED <<up, session_coroutine_id, session_coroutine_address, fork_queue>>
    PROVE  TableAt(s)'
<1>0. /\ ThreadTypes /\ DutyTypes /\ PendingTypes
      /\ UnusedAt(s) /\ ControlAt(s) /\ ForksAt(s) /\ ConnectedAt(s)
  BY TypeParts DEF TableAt
<1>1. None \notin Co /\ Break \notin Co /\ 0 \notin Sessions /\ None \notin Sessions
      /\ Sessions \subseteq Nat
  BY SessionFacts
<1>2. PICK k \in Sessions : k = last'[s] /\ k = last[s] + 1 /\ last[s] \in Sessions
  BY NewTypes
<1>3. session_id_coroutine[s][k] = None /\ watching_session[s][k] = None
  BY <1>0, <1>1, <1>2 DEF UnusedAt
<1>4. /\ state'[s] = [state[s] EXCEPT ![c] = how] /\ on'[s] = [on[s] EXCEPT ![c] = k]
      /\ session_id_coroutine'[s] = [session_id_coroutine[s] EXCEPT ![k] = c]
      /\ watching_session'[s] = [watching_session[s] EXCEPT ![k] = watch]
      /\ sleep_session'[s] = [sleep_session[s] EXCEPT ![c] = IF token THEN k ELSE None]
      /\ running'[s] = None /\ phase'[s] = "wakeup"
  BY <1>0, <1>2 DEF Park, Suspend, ThreadTypes
<1>5. /\ state[s] \in [Co -> {"free", "ready", "run", "call", "sleep", "wait"}]
      /\ on[s] \in [Co -> 0 .. MaxSession]
      /\ session_id_coroutine[s] \in [Sessions -> Co \cup {None, Break}]
      /\ watching_session[s] \in [Sessions -> Service \cup {None}]
      /\ sleep_session[s] \in [Co -> Sessions \cup {None}]
  BY <1>0 DEF ThreadTypes
<1>6. state[s][c] = "run" /\ on[s][c] = 0
  BY <1>0 DEF ControlAt
<1>7. UnusedAt(s)'
  BY <1>0, <1>1, <1>2, <1>4, <1>5 DEF UnusedAt
<1>8. ControlAt(s)'
  BY <1>0, <1>1, <1>2, <1>4, <1>5 DEF ControlAt
<1>9. ForksAt(s)'
  BY <1>0, <1>1, <1>4, <1>5, <1>6 DEF ForksAt, PendingTypes
<1>10. ConnectedAt(s)'
  <2>1. ASSUME NEW v \in Co
        PROVE  /\ on'[s][v] # 0 => session_id_coroutine'[s][on'[s][v]] = v
               /\ sleep_session'[s][v] =
                    IF state'[s][v] \in {"sleep", "wait"} THEN on'[s][v] ELSE None
               /\ state'[s][v] \in {"call", "sleep", "wait"} => on'[s][v] # 0
               /\ state'[s][v] = "free" => session_coroutine_address'[s][v] = None
    <3>1. CASE v = c
      <4>1. /\ on'[s][c] = k /\ session_id_coroutine'[s][k] = c /\ state'[s][c] = how
            /\ sleep_session'[s][c] = IF token THEN k ELSE None
        BY <1>4, <1>5
      <4> QED BY <3>1, <4>1, <1>1
    <3>2. CASE v # c
      <4>1. on[s][v] # k
        BY <3>2, <1>0, <1>1, <1>3 DEF ConnectedAt
      <4> QED BY <4>1, <3>2, <1>0, <1>4, <1>5 DEF ConnectedAt
    <3> QED BY <3>1, <3>2
  <2>2. ASSUME NEW h \in Sessions
        PROVE  /\ session_id_coroutine'[s][h] \in Co => on'[s][session_id_coroutine'[s][h]] = h
               /\ watching_session'[s][h] # None
                    <=> /\ session_id_coroutine'[s][h] \in Co
                        /\ state'[s][session_id_coroutine'[s][h]] = "call"
    <3>1. CASE h = k
      BY <3>1, <1>1, <1>4, <1>5
    <3>2. CASE h # k
      <4>1. session_id_coroutine[s][h] # c
        BY <1>0, <1>1, <1>6 DEF ConnectedAt
      <4> QED BY <4>1, <3>2, <1>0, <1>4, <1>5 DEF ConnectedAt
    <3> QED BY <3>1, <3>2
  <2> QED BY <2>1, <2>2 DEF ConnectedAt
<1>11. DrainsAt(s)'
  BY <1>4 DEF DrainsAt
<1> QED BY <1>7, <1>8, <1>9, <1>10, <1>11 DEF TableAt

\* Nothing but the place of dispatch_message and its queues changes.
LEMMA KeepTable ==
    ASSUME TypeOK, NEW s \in Service, TableAt(s), ControlAt(s)', DrainsAt(s)',
           UNCHANGED <<last, state, on, session_id_coroutine, watching_session, sleep_session,
                       session_coroutine_address, fork_queue>>
    PROVE  TableAt(s)'
BY DEF TableAt, UnusedAt, ForksAt, ConnectedAt

LEMMA SchedulerTable ==
    ASSUME Numbered, TypeOK, Posted, NEW s \in Service, TableAt(s), Scheduler(s)
    PROVE  TableAt(s)'
<1>0. /\ ContextTypes /\ MailTypes /\ ThreadTypes /\ DutyTypes /\ PendingTypes /\ HistoryTypes
      /\ UnusedAt(s) /\ ControlAt(s) /\ ForksAt(s) /\ ConnectedAt(s) /\ DrainsAt(s)
  BY TypeParts DEF TableAt
<1>1. /\ None \notin Co /\ Break \notin Co /\ Blank \notin Co /\ None # 0 /\ None \notin Service
      /\ 0 \notin Sessions /\ None \notin Sessions /\ Sessions \subseteq Nat
  BY SessionFacts
<1>2. phase[s] # "gone" => up[s]
  BY <1>0 DEF ControlAt
<1>3. phase[s] # "run" => running[s] = None /\ \A c \in Co : state[s][c] # "run"
  BY <1>0, <1>1 DEF ControlAt
<1>4. CASE DispatchResponse(s)
  <2>0. PICK k : k = Head(mail[s]).session
    OBVIOUS
  <2>1. k \in Sessions /\ phase[s] = "idle"
    <3>1. /\ Head(mail[s]) \in Message /\ Head(mail[s]) \in Unread(s)
          /\ Head(mail[s]).type = "response" /\ phase[s] = "idle"
      BY <1>4, TakenTypes DEF DispatchResponse, HeadIs
    <3> QED BY <2>0, <3>1, SessionFacts DEF Posted, Message
  <2>2. /\ up[s] /\ running[s] = None /\ Handled(s)
        /\ UNCHANGED <<up, last, session_coroutine_id, session_coroutine_address, fork_queue,
                       wakeup_queue, error_queue, broken>>
    BY <1>0, <1>2, <1>3, <1>4, <2>1 DEF DrainsAt, DispatchResponse, context, duties, pending, history
  <2>3. PICK co : co = session_id_coroutine[s][k]
    OBVIOUS
  <2>4. CASE co \in Co /\ Resume(s, co, k, None)
    <3>1. on[s][co] = k
      BY <1>0, <2>1, <2>3, <2>4 DEF ConnectedAt
    <3> QED BY <2>1, <2>2, <2>4, <3>1, ResumeTable
  <2>5. CASE /\ co \in {Break, None} /\ Throw(s)
             /\ session_id_coroutine' = [session_id_coroutine EXCEPT ![s][k] = None]
             /\ UNCHANGED <<state, on, watching_session, sleep_session>>
    <3>1. Handled(s)'
      BY <2>2 DEF Handled
    <3> QED BY <1>1, <2>1, <2>2, <2>3, <2>5, <3>1, ClearTable
  <2> QED BY <1>4, <2>0, <2>3, <2>4, <2>5 DEF DispatchResponse
<1>5. CASE DispatchRequest(s)
  <2>1. PICK c \in Free(s) :
          /\ state' = [state EXCEPT ![s][c] = "run"]
          /\ running' = [running EXCEPT ![s] = c]
          /\ session_coroutine_id' = [session_coroutine_id EXCEPT ![s][c] = Head(mail[s]).session]
          /\ session_coroutine_address' = [session_coroutine_address EXCEPT ![s][c] = Head(mail[s]).source]
    BY <1>5 DEF DispatchRequest
  <2>2. Head(mail[s]).source \in Service /\ phase[s] = "idle"
    <3>1. /\ Head(mail[s]) \in Message /\ Head(mail[s]) \in Unread(s)
          /\ Head(mail[s]).type = "request" /\ phase[s] = "idle"
      BY <1>5, TakenTypes DEF DispatchRequest, HeadIs
    <3> QED BY <3>1 DEF Posted
  <2>3. c \in Co /\ state[s][c] = "free" /\ on[s][c] = 0
    BY <1>0 DEF Free, ControlAt
  <2>4. /\ state'[s] = [state[s] EXCEPT ![c] = "run"] /\ running'[s] = c /\ phase'[s] = "run"
        /\ session_coroutine_address'[s] =
              [session_coroutine_address[s] EXCEPT ![c] = Head(mail[s]).source]
        /\ session_coroutine_id'[s] =
              [session_coroutine_id[s] EXCEPT ![c] = Head(mail[s]).session]
    BY <1>0, <1>5, <2>1 DEF DispatchRequest, ThreadTypes, DutyTypes
  <2>5. UNCHANGED <<up, last, on, session_id_coroutine, watching_session, sleep_session, fork_queue>>
    BY <1>5 DEF DispatchRequest, context, pending
  <2>6. /\ state[s] \in [Co -> {"free", "ready", "run", "call", "sleep", "wait"}]
        /\ session_coroutine_address[s] \in [Co -> Service \cup {None}]
        /\ session_coroutine_id[s] \in [Co -> {None} \cup 0 .. MaxSession]
        /\ fork_queue[s] \in Seq(Co \cup {Blank})
        /\ session_id_coroutine[s] \in [Sessions -> Co \cup {None, Break}]
    BY <1>0 DEF ThreadTypes, DutyTypes, PendingTypes
  <2>7. UnusedAt(s)'
    BY <1>0, <2>5 DEF UnusedAt
  <2>8. ControlAt(s)'
    BY <1>0, <1>1, <1>2, <1>3, <2>2, <2>3, <2>4, <2>5, <2>6 DEF ControlAt
  <2>9. ForksAt(s)'
    BY <1>0, <2>3, <2>4, <2>5, <2>6 DEF ForksAt
  <2>10. ConnectedAt(s)'
    BY <1>0, <1>1, <2>3, <2>4, <2>5, <2>6 DEF ConnectedAt
  <2>11. DrainsAt(s)'
    BY <2>4 DEF DrainsAt
  <2> QED BY <2>7, <2>8, <2>9, <2>10, <2>11 DEF TableAt
<1>6. CASE RefuseRequest(s)
  <2>1. /\ phase[s] = "idle" /\ phase'[s] = "fork" /\ running'[s] = None
        /\ UNCHANGED <<up, last, state, on, session_id_coroutine, watching_session, sleep_session,
                       session_coroutine_id, session_coroutine_address, fork_queue,
                       wakeup_queue, error_queue, broken>>
    BY <1>0, <1>6 DEF RefuseRequest, HeadIs, Throw, context, threads, duties, pending, ThreadTypes
  <2>2. ControlAt(s)'
    BY <1>0, <1>2, <1>3, <2>1 DEF ControlAt
  <2>3. DrainsAt(s)'
    BY <1>0, <2>1 DEF DrainsAt, Handled
  <2> QED BY <2>1, <2>2, <2>3, KeepTable
<1>7. CASE DispatchError(s)
  <2>1. /\ phase[s] = "idle" /\ phase'[s] = "wakeup" /\ running'[s] = None
        /\ UNCHANGED <<up, last, state, on, session_id_coroutine, watching_session, sleep_session,
                       session_coroutine_id, session_coroutine_address, fork_queue>>
    BY <1>0, <1>7 DEF DispatchError, HeadIs, Suspend, context, threads, ThreadTypes
  <2>2. ControlAt(s)'
    BY <1>0, <1>2, <1>3, <2>1 DEF ControlAt
  <2>3. DrainsAt(s)'
    BY <2>1 DEF DrainsAt
  <2> QED BY <2>1, <2>2, <2>3, KeepTable
<1>8. CASE DispatchWakeup(s)
  <2>0. PICK c : c = Head(wakeup_queue[s])
    OBVIOUS
  <2>1. /\ c \in Co /\ phase[s] = "wakeup" /\ up[s] /\ running[s] = None
        /\ UNCHANGED <<up, last, session_coroutine_id, session_coroutine_address, fork_queue>>
    <3>1. wakeup_queue[s] \in Seq(Co) /\ wakeup_queue[s] # <<>> /\ phase[s] = "wakeup"
      BY <1>0, <1>8 DEF PendingTypes, DispatchWakeup
    <3> QED BY <1>2, <1>3, <1>8, <2>0, <3>1 DEF DispatchWakeup, context, duties
  <2>2. PICK k : k = sleep_session[s][c]
    OBVIOUS
  <2>3. CASE k = None /\ UNCHANGED <<phase, running, threads>>
    <3>1. ControlAt(s)'
      BY <1>0, <2>1, <2>3 DEF ControlAt, threads
    <3>2. DrainsAt(s)'
      BY <2>1, <2>3 DEF DrainsAt
    <3> QED BY <2>1, <2>3, <3>1, <3>2, KeepTable DEF threads
  <2>4. CASE k # None
    <3>1. k \in Sessions /\ on[s][c] = k /\ session_id_coroutine[s][k] = c
      BY <1>0, <1>1, <2>1, <2>2, <2>4 DEF ConnectedAt, ThreadTypes
    <3>2. \E rest \in {None, Break} : Resume(s, c, k, rest)
      BY <1>8, <2>0, <2>2, <2>4, <3>1 DEF DispatchWakeup
    <3> QED BY <2>1, <3>1, <3>2, ResumeTable
  <2> QED BY <1>8, <2>0, <2>2, <2>3, <2>4 DEF DispatchWakeup
<1>9. CASE DispatchErrorQueue(s)
  <2>0. PICK k : k = Head(error_queue[s])
    OBVIOUS
  <2>1. /\ k \in Sessions /\ phase[s] = "wakeup" /\ up[s] /\ running[s] = None
        /\ wakeup_queue[s] = <<>>
        /\ UNCHANGED <<up, last, session_coroutine_id, session_coroutine_address, fork_queue, wakeup_queue>>
    <3>1. error_queue[s] \in Seq(Sessions) /\ error_queue[s] # <<>> /\ phase[s] = "wakeup"
      BY <1>0, <1>9 DEF PendingTypes, DispatchErrorQueue
    <3> QED BY <1>2, <1>3, <1>9, <2>0, <3>1 DEF DispatchErrorQueue, context, duties
  <2>2. PICK co : co = session_id_coroutine[s][k]
    OBVIOUS
  <2>3. CASE co \in Co /\ Resume(s, co, k, None)
    <3>1. on[s][co] = k
      BY <1>0, <2>1, <2>2, <2>3 DEF ConnectedAt
    <3> QED BY <2>1, <2>3, <3>1, ResumeTable
  <2>4. CASE /\ co \notin Co /\ Throw(s) /\ broken' = [broken EXCEPT ![s] = TRUE]
             /\ session_id_coroutine' = [session_id_coroutine EXCEPT ![s][k] = None]
             /\ UNCHANGED <<state, on, watching_session, sleep_session>>
    <3>1. Handled(s)'
      BY <1>0, <2>1, <2>4 DEF Handled, HistoryTypes
    <3> QED BY <2>1, <2>2, <2>4, <3>1, ClearTable
  <2> QED BY <1>9, <2>0, <2>2, <2>3, <2>4 DEF DispatchErrorQueue
<1>10. CASE Drained(s) \/ MessageDone(s)
  <2>1. /\ Handled(s) /\ phase[s] \in {"wakeup", "fork"} /\ phase'[s] \in {"fork", "idle"}
        /\ UNCHANGED <<up, last, running, state, on, session_id_coroutine, watching_session,
                       sleep_session, session_coroutine_id, session_coroutine_address,
                       wakeup_queue, error_queue, fork_queue, broken>>
    <3>1. CASE Drained(s)
      BY <1>0, <3>1 DEF Drained, Handled, ThreadTypes, context, threads, duties, pending, history
    <3>2. CASE MessageDone(s)
      <4>1. ToSet(<<>>) = {}
        BY DEF ToSet
      <4> QED BY <1>0, <3>2, <4>1
              DEF MessageDone, DrainsAt, ThreadTypes, context, threads, duties, pending, history
    <3> QED BY <1>10, <3>1, <3>2
  <2>2. ControlAt(s)'
    BY <1>0, <1>2, <1>3, <2>1 DEF ControlAt
  <2>3. DrainsAt(s)'
    BY <2>1 DEF DrainsAt, Handled
  <2> QED BY <2>1, <2>2, <2>3, KeepTable
<1>11. CASE StartFork(s)
  <2>0. PICK c : c = Head(fork_queue[s])
    OBVIOUS
  <2>1. /\ c \in Co \cup {Blank} /\ phase[s] = "fork" /\ up[s] /\ running[s] = None
        /\ fork_queue[s] \in Seq(Co \cup {Blank}) /\ fork_queue[s] # <<>>
        /\ fork_queue'[s] = Tail(fork_queue[s])
        /\ UNCHANGED <<up, last, on, session_id_coroutine, watching_session, sleep_session,
                       session_coroutine_id, session_coroutine_address>>
    <3>1. fork_queue[s] \in Seq(Co \cup {Blank}) /\ fork_queue[s] # <<>> /\ phase[s] = "fork"
      BY <1>0, <1>11 DEF PendingTypes, StartFork
    <3> QED BY <1>0, <1>2, <1>3, <1>11, <2>0, <3>1 DEF StartFork, PendingTypes, context, duties
  <2>2. /\ DOMAIN fork_queue'[s] = 1 .. Len(fork_queue[s]) - 1 /\ Len(fork_queue[s]) \in Nat
        /\ DOMAIN fork_queue[s] = 1 .. Len(fork_queue[s]) /\ 1 \in DOMAIN fork_queue[s]
        /\ fork_queue[s][1] = c
        /\ \A i \in DOMAIN fork_queue'[s] :
              i + 1 \in DOMAIN fork_queue[s] /\ fork_queue'[s][i] = fork_queue[s][i + 1]
    BY <2>0, <2>1, SeqTail
  <2>3. CASE c = Blank /\ Suspend(s) /\ UNCHANGED state
    <3>1. phase'[s] = "wakeup" /\ running'[s] = None
      BY <1>0, <2>3 DEF Suspend, ThreadTypes
    <3>2. ForksAt(s)'
      BY <1>0, <2>1, <2>2, <2>3 DEF ForksAt
    <3>3. ControlAt(s)'
      BY <1>0, <1>1, <1>3, <2>1, <2>3, <3>1 DEF ControlAt
    <3>4. UnusedAt(s)' /\ ConnectedAt(s)' /\ DrainsAt(s)'
      BY <1>0, <2>1, <2>3, <3>1 DEF UnusedAt, ConnectedAt, DrainsAt
    <3> QED BY <3>2, <3>3, <3>4 DEF TableAt
  <2>4. CASE c # Blank /\ running' = [running EXCEPT ![s] = c] /\ phase' = [phase EXCEPT ![s] = "run"]
             /\ state' = [state EXCEPT ![s][c] = "run"]
    <3>1. /\ c \in Co /\ state[s][c] = "ready" /\ on[s][c] = 0
          /\ \A i \in DOMAIN fork_queue'[s] : fork_queue'[s][i] # c
      <4>1. c \in Co
        BY <2>1, <2>4
      <4>2. state[s][c] = "ready" /\ on[s][c] = 0 /\ \A j \in DOMAIN fork_queue[s] : fork_queue[s][j] = c => 1 = j
        BY <1>0, <2>2, <2>4 DEF ForksAt
      <4>3. \A i \in DOMAIN fork_queue'[s] : i + 1 # 1
        BY <2>2
      <4> QED BY <4>1, <4>2, <4>3, <2>2
    <3>2. state'[s] = [state[s] EXCEPT ![c] = "run"] /\ running'[s] = c /\ phase'[s] = "run"
          /\ state[s] \in [Co -> {"free", "ready", "run", "call", "sleep", "wait"}]
      BY <1>0, <2>4 DEF ThreadTypes
    <3>3. ForksAt(s)'
      <4>1. \A i \in DOMAIN fork_queue'[s] : fork_queue'[s][i] \in Co \cup {Blank}
        BY <2>1, <2>2
      <4> QED BY <1>0, <2>1, <2>2, <3>1, <3>2, <4>1 DEF ForksAt
    <3>4. ControlAt(s)'
      BY <1>0, <1>1, <1>3, <2>1, <3>1, <3>2 DEF ControlAt
    <3>5. ConnectedAt(s)'
      BY <1>0, <1>1, <2>1, <3>1, <3>2 DEF ConnectedAt
    <3>6. UnusedAt(s)' /\ DrainsAt(s)'
      BY <1>0, <2>1, <3>2 DEF UnusedAt, DrainsAt
    <3> QED BY <3>3, <3>4, <3>5, <3>6 DEF TableAt
  <2> QED BY <1>11, <2>0, <2>3, <2>4 DEF StartFork
<1> QED BY <1>4, <1>5, <1>6, <1>7, <1>8, <1>9, <1>10, <1>11 DEF Scheduler

LEMMA RunsTable ==
    ASSUME Numbered, TypeOK, NEW s \in Service, TableAt(s), Runs(s)
    PROVE  TableAt(s)'
<1>0. /\ ContextTypes /\ MailTypes /\ ThreadTypes /\ DutyTypes /\ PendingTypes /\ HistoryTypes
      /\ UnusedAt(s) /\ ControlAt(s) /\ ForksAt(s) /\ ConnectedAt(s) /\ DrainsAt(s)
  BY TypeParts DEF TableAt
<1>1. /\ None \notin Co /\ Break \notin Co /\ Blank \notin Co /\ None # 0 /\ None \notin Service
      /\ 0 \notin Sessions /\ None \notin Sessions /\ Sessions \subseteq Nat
      /\ 0 .. MaxSession = {0} \cup Sessions /\ Break # None
  BY SessionFacts
<1>2. PICK c \in Co :
          \/ Sleep(s, c) \/ Wait(s, c) \/ Ret(s, c) \/ Response(s, c)
          \/ Finish(s, c) \/ Fail(s, c) \/ Exit(s, c)
          \/ \E d \in Service : Call(s, c, d) \/ Send(s, c, d)
          \/ \E r \in unresponse[s] : Respond(s, c, r)
          \/ \E v \in Co : \/ Wakeup(s, c, v) \/ Fork(s, c, v) \/ Timeout(s, c, v)
                           \/ KillForked(s, c, v) \/ Kill(s, c, v)
  BY DEF Runs
<1>3. phase[s] = "run" /\ running[s] = c
  BY <1>2 DEF Sleep, Wait, Ret, Response, Finish, Fail, Exit, Leave, Call, Send, Respond, Wakeup, Fork,
              Timeout, KillForked, Kill, Does
<1>4. up[s] /\ state[s][c] = "run" /\ on[s][c] = 0 /\ \A v \in Co : state[s][v] = "run" => v = c
  BY <1>0, <1>3 DEF ControlAt
<1>5. /\ state[s] \in [Co -> {"free", "ready", "run", "call", "sleep", "wait"}]
      /\ on[s] \in [Co -> 0 .. MaxSession]
      /\ session_id_coroutine[s] \in [Sessions -> Co \cup {None, Break}]
      /\ watching_session[s] \in [Sessions -> Service \cup {None}]
      /\ sleep_session[s] \in [Co -> Sessions \cup {None}]
      /\ session_coroutine_address[s] \in [Co -> Service \cup {None}]
      /\ session_coroutine_id[s] \in [Co -> {None} \cup 0 .. MaxSession]
      /\ fork_queue[s] \in Seq(Co \cup {Blank}) /\ wakeup_queue[s] \in Seq(Co)
  BY <1>0 DEF ThreadTypes, DutyTypes, PendingTypes
\* Most operations leave the place of dispatch_message as it is.
<1>6. ASSUME UNCHANGED <<up, phase, running, state, on, session_coroutine_address>>,
             \A v \in Co : session_coroutine_address'[s][v] = None
                                => session_coroutine_id'[s][v] = None
      PROVE  ControlAt(s)' /\ DrainsAt(s)'
  BY <1>0, <1>3, <1>6 DEF ControlAt, DrainsAt
<1>7. CASE Sleep(s, c)
  <2>1. /\ NewSession(s) /\ Park(s, c, "sleep", None, TRUE)
        /\ UNCHANGED <<up, session_coroutine_id, session_coroutine_address, fork_queue>>
    BY <1>7 DEF Sleep, duties, pending
  <2> QED BY <1>3, <2>1, ParkTable
<1>8. CASE Wait(s, c)
  <2>1. /\ NewSession(s) /\ Park(s, c, "wait", None, TRUE)
        /\ UNCHANGED <<up, session_coroutine_id, session_coroutine_address, fork_queue>>
    BY <1>8 DEF Wait, duties, pending
  <2> QED BY <1>3, <2>1, ParkTable
<1>9. CASE Ret(s, c) \/ Response(s, c)
  <2>1. /\ session_coroutine_id' = [session_coroutine_id EXCEPT ![s][c] = None]
        /\ UNCHANGED <<up, last, phase, running, state, on, session_id_coroutine, watching_session,
                       sleep_session, session_coroutine_address, fork_queue>>
    BY <1>9 DEF Ret, Response, context, threads, pending
  <2>2. session_coroutine_id'[s] = [session_coroutine_id[s] EXCEPT ![c] = None]
    BY <1>0, <2>1 DEF DutyTypes
  <2>3. \A v \in Co : session_coroutine_address'[s][v] = None => session_coroutine_id'[s][v] = None
    BY <1>0, <1>5, <2>1, <2>2 DEF ControlAt
  <2> QED BY <1>6, <2>1, <2>3, KeepTable
<1>10. ASSUME NEW r \in unresponse[s], Respond(s, c, r) PROVE TableAt(s)'
  <2>1. UNCHANGED <<up, last, phase, running, state, on, session_id_coroutine, watching_session,
                    sleep_session, session_coroutine_address, session_coroutine_id, fork_queue>>
    BY <1>10 DEF Respond, context, threads, pending
  <2> QED BY <1>0, <1>6, <2>1, KeepTable DEF ControlAt
<1>11. ASSUME NEW d \in Service, Send(s, c, d) PROVE TableAt(s)'
  <2>1. UNCHANGED <<up, last, phase, running, state, on, session_id_coroutine, watching_session,
                    sleep_session, session_coroutine_address, session_coroutine_id, fork_queue>>
    BY <1>11 DEF Send, context, threads, duties, pending
  <2> QED BY <1>0, <1>6, <2>1, KeepTable DEF ControlAt
<1>12. ASSUME NEW v \in Co, Wakeup(s, c, v) PROVE TableAt(s)'
  <2>1. UNCHANGED <<up, last, phase, running, state, on, session_id_coroutine, watching_session,
                    sleep_session, session_coroutine_address, session_coroutine_id, fork_queue>>
    BY <1>12 DEF Wakeup, context, threads, duties
  <2> QED BY <1>0, <1>6, <2>1, KeepTable DEF ControlAt
<1>13. CASE Finish(s, c) \/ Fail(s, c)
  <2>1. /\ state' = [state EXCEPT ![s][c] = "free"]
        /\ session_coroutine_id' = [session_coroutine_id EXCEPT ![s][c] = None]
        /\ session_coroutine_address' = [session_coroutine_address EXCEPT ![s][c] = None]
        /\ UNCHANGED <<up, last, on, session_id_coroutine, watching_session, sleep_session>>
    BY <1>13 DEF Finish, Fail, Clear, context
  <2>2. /\ state'[s] = [state[s] EXCEPT ![c] = "free"]
        /\ session_coroutine_id'[s] = [session_coroutine_id[s] EXCEPT ![c] = None]
        /\ session_coroutine_address'[s] = [session_coroutine_address[s] EXCEPT ![c] = None]
    BY <1>0, <2>1 DEF ThreadTypes, DutyTypes
  <2>3. /\ running'[s] = None
        /\ \/ phase'[s] = "wakeup" /\ fork_queue' = fork_queue
           \/ phase'[s] = "fork" /\ fork_queue'[s] = Append(fork_queue[s], Blank)
    <3>1. CASE Finish(s, c)
      BY <1>0, <3>1 DEF Finish, Suspend, ThreadTypes, pending
    <3>2. CASE Fail(s, c)
      BY <1>0, <3>2 DEF Fail, Throw, ThreadTypes, PendingTypes
    <3> QED BY <1>13, <3>1, <3>2
  <2>4. UnusedAt(s)'
    BY <1>0, <2>1 DEF UnusedAt
  <2>5. ControlAt(s)'
    BY <1>0, <1>1, <1>3, <1>4, <1>5, <2>1, <2>2, <2>3 DEF ControlAt
  <2>6. ConnectedAt(s)'
    BY <1>0, <1>1, <1>4, <1>5, <2>1, <2>2 DEF ConnectedAt
  <2>7. ForksAt(s)' /\ DrainsAt(s)'
    <3>0. \A i, j \in DOMAIN fork_queue[s] :
             fork_queue[s][i] # Blank =>
                /\ state'[s][fork_queue[s][i]] = "ready" /\ on'[s][fork_queue[s][i]] = 0
                /\ fork_queue[s][j] = fork_queue[s][i] => i = j
      <4>1. \A i \in DOMAIN fork_queue[s] : fork_queue[s][i] \in Co \cup {Blank}
        BY <1>5
      <4> QED BY <1>0, <1>4, <1>5, <2>1, <2>2, <4>1 DEF ForksAt
    <3>1. CASE phase'[s] = "wakeup" /\ fork_queue' = fork_queue
      BY <3>0, <3>1 DEF ForksAt, DrainsAt
    <3>2. CASE phase'[s] = "fork" /\ fork_queue'[s] = Append(fork_queue[s], Blank)
      <4>1. /\ DOMAIN fork_queue[s] = 1 .. Len(fork_queue[s]) /\ Len(fork_queue[s]) \in Nat
            /\ DOMAIN fork_queue'[s] = 1 .. Len(fork_queue[s]) + 1
            /\ \A i \in DOMAIN fork_queue[s] : fork_queue'[s][i] = fork_queue[s][i]
            /\ fork_queue'[s][Len(fork_queue[s]) + 1] = Blank
            /\ Blank \in ToSet(fork_queue'[s])
        <5>1. PICK q \in Seq(Co \cup {Blank}) : q = fork_queue[s]
          BY <1>5
        <5>2. Blank \in ToSet(Append(q, Blank))
          BY SeqAppend
        <5> QED BY <3>2, <5>1, <5>2, SeqAppend
      <4>2. \A i \in DOMAIN fork_queue'[s] : i \in DOMAIN fork_queue[s] \/ fork_queue'[s][i] = Blank
        BY <4>1
      <4> QED BY <3>0, <3>2, <4>1, <4>2 DEF ForksAt, DrainsAt
    <3> QED BY <2>3, <3>1, <3>2
  <2> QED BY <2>4, <2>5, <2>6, <2>7 DEF TableAt
<1>14. CASE Exit(s, c)
  <2>1. /\ up'[s] = FALSE /\ phase'[s] = "gone" /\ running'[s] = None
        /\ state'[s] = [v \in Co |-> "free"] /\ on'[s] = [v \in Co |-> 0]
        /\ session_id_coroutine'[s] = [k \in Sessions |-> None]
        /\ watching_session'[s] = [k \in Sessions |-> None]
        /\ session_coroutine_id'[s] = [v \in Co |-> None]
        /\ session_coroutine_address'[s] = [v \in Co |-> None]
        /\ sleep_session'[s] = [v \in Co |-> None]
        /\ fork_queue'[s] = <<>>
    BY <1>0, <1>14 DEF Exit, Leave, ContextTypes, ThreadTypes, DutyTypes, PendingTypes
  <2>2. UnusedAt(s)'
    BY <2>1 DEF UnusedAt
  <2>3. ControlAt(s)'
    BY <2>1 DEF ControlAt
  <2>4. ForksAt(s)'
    BY <2>1 DEF ForksAt
  <2>5. ConnectedAt(s)'
    BY <1>1, <2>1 DEF ConnectedAt
  <2>6. DrainsAt(s)'
    BY <2>1 DEF DrainsAt
  <2> QED BY <2>2, <2>3, <2>4, <2>5, <2>6 DEF TableAt
<1>15. ASSUME NEW d \in Service, Call(s, c, d) PROVE TableAt(s)'
  <2>1. /\ NewSession(s)
        /\ UNCHANGED <<up, session_coroutine_id, session_coroutine_address, fork_queue>>
    BY <1>15 DEF Call, duties, pending
  <2>2. CASE Park(s, c, "call", d, FALSE)
    <3>1. d # None
      BY <1>1
    <3> QED BY <1>3, <2>1, <2>2, <3>1, ParkTable
  <2>3. CASE UNCHANGED <<running, phase, threads>>
    <3>1. last'[s] \in Sessions /\ last[s] \in Sessions /\ last'[s] = last[s] + 1
      BY <2>1, NewTypes
    <3>2. UnusedAt(s)'
      BY <1>0, <1>1, <2>3, <3>1 DEF UnusedAt, threads
    <3>3. ControlAt(s)' /\ DrainsAt(s)'
      BY <1>0, <1>6, <2>1, <2>3 DEF ControlAt, threads
    <3>4. ForksAt(s)' /\ ConnectedAt(s)'
      BY <1>0, <2>1, <2>3 DEF ForksAt, ConnectedAt, threads
    <3> QED BY <3>2, <3>3, <3>4 DEF TableAt
  <2> QED BY <1>15, <2>2, <2>3 DEF Call
<1>16. ASSUME NEW v \in Co, Fork(s, c, v) PROVE TableAt(s)'
  <2>1. /\ state[s][v] = "free" /\ on[s][v] = 0 /\ v # c
        /\ state'[s] = [state[s] EXCEPT ![v] = "ready"]
        /\ fork_queue'[s] = Append(fork_queue[s], v)
        /\ UNCHANGED <<up, last, phase, running, on, session_id_coroutine, watching_session,
                       sleep_session, session_coroutine_id, session_coroutine_address>>
    BY <1>0, <1>4, <1>16 DEF Fork, Free, ControlAt, ThreadTypes, PendingTypes, context, duties
  <2>2. /\ DOMAIN fork_queue[s] = 1 .. Len(fork_queue[s]) /\ Len(fork_queue[s]) \in Nat
        /\ DOMAIN fork_queue'[s] = 1 .. Len(fork_queue[s]) + 1
        /\ \A i \in DOMAIN fork_queue[s] : fork_queue'[s][i] = fork_queue[s][i]
        /\ fork_queue'[s][Len(fork_queue[s]) + 1] = v
    BY <1>5, <2>1, SeqAppend
  <2>3. \A i \in DOMAIN fork_queue[s] : fork_queue[s][i] \in Co \cup {Blank} /\ fork_queue[s][i] # v
    BY <1>0, <1>1, <1>5, <2>1 DEF ForksAt
  <2>4. \A i \in DOMAIN fork_queue'[s] :
           \/ i \in DOMAIN fork_queue[s] /\ fork_queue'[s][i] = fork_queue[s][i] /\ fork_queue'[s][i] # v
           \/ i = Len(fork_queue[s]) + 1 /\ fork_queue'[s][i] = v
    BY <2>2, <2>3
  <2>5. ForksAt(s)'
    BY <1>0, <1>5, <2>1, <2>3, <2>4 DEF ForksAt
  <2>6. UnusedAt(s)' /\ DrainsAt(s)'
    BY <1>0, <1>3, <2>1 DEF UnusedAt, DrainsAt
  <2>7. ControlAt(s)'
    <3>1. session_coroutine_address[s][v] = None
      BY <1>0, <2>1 DEF ConnectedAt
    <3> QED BY <1>0, <1>5, <2>1, <3>1 DEF ControlAt
  <2>8. ConnectedAt(s)'
    BY <1>0, <1>1, <1>5, <2>1 DEF ConnectedAt
  <2> QED BY <2>5, <2>6, <2>7, <2>8 DEF TableAt
<1>17. ASSUME NEW v \in Co, Timeout(s, c, v) PROVE TableAt(s)'
  <2>0. PICK k \in Sessions : k = last'[s] /\ k = last[s] + 1 /\ last[s] \in Sessions
    BY <1>17, NewTypes DEF Timeout
  <2>1. /\ state[s][v] = "free" /\ on[s][v] = 0 /\ v # c
        /\ session_id_coroutine[s][k] = None /\ watching_session[s][k] = None
        /\ UNCHANGED <<up, phase, running, watching_session, sleep_session,
                       session_coroutine_id, session_coroutine_address, fork_queue>>
    BY <1>0, <1>1, <1>4, <1>17, <2>0 DEF Timeout, Free, ControlAt, UnusedAt, duties, pending
  <2>2. /\ state'[s] = [state[s] EXCEPT ![v] = "ready"]
        /\ on'[s] = [on[s] EXCEPT ![v] = k]
        /\ session_id_coroutine'[s] = [session_id_coroutine[s] EXCEPT ![k] = v]
    BY <1>0, <1>17, <2>0 DEF Timeout, ThreadTypes
  <2>3. UnusedAt(s)'
    BY <1>0, <1>1, <1>5, <2>0, <2>1, <2>2 DEF UnusedAt
  <2>4. ControlAt(s)'
    <3>1. session_coroutine_address[s][v] = None
      BY <1>0, <2>1 DEF ConnectedAt
    <3> QED BY <1>0, <1>1, <1>5, <2>1, <2>2, <3>1 DEF ControlAt
  <2>5. ForksAt(s)'
    <3>1. \A i \in DOMAIN fork_queue[s] : fork_queue[s][i] \in Co \cup {Blank} /\ fork_queue[s][i] # v
      BY <1>0, <1>1, <1>5, <2>1 DEF ForksAt
    <3> QED BY <1>0, <1>5, <2>1, <2>2, <3>1 DEF ForksAt
  <2>6. ConnectedAt(s)'
    <3>1. ASSUME NEW w \in Co
          PROVE  /\ on'[s][w] # 0 => session_id_coroutine'[s][on'[s][w]] = w
                 /\ sleep_session'[s][w] =
                      IF state'[s][w] \in {"sleep", "wait"} THEN on'[s][w] ELSE None
                 /\ state'[s][w] \in {"call", "sleep", "wait"} => on'[s][w] # 0
                 /\ state'[s][w] = "free" => session_coroutine_address'[s][w] = None
      <4>1. CASE w = v
        <5>1. sleep_session[s][v] = None
          BY <1>0, <2>1 DEF ConnectedAt
        <5> QED BY <4>1, <5>1, <1>1, <1>5, <2>1, <2>2
      <4>2. CASE w # v
        <5>1. on[s][w] # k
          BY <4>2, <1>0, <1>1, <2>1 DEF ConnectedAt
        <5> QED BY <5>1, <4>2, <1>0, <1>5, <2>1, <2>2 DEF ConnectedAt
      <4> QED BY <4>1, <4>2
    <3>2. ASSUME NEW h \in Sessions
          PROVE  /\ session_id_coroutine'[s][h] \in Co => on'[s][session_id_coroutine'[s][h]] = h
                 /\ watching_session'[s][h] # None
                      <=> /\ session_id_coroutine'[s][h] \in Co
                          /\ state'[s][session_id_coroutine'[s][h]] = "call"
      <4>1. CASE h = k
        BY <4>1, <1>1, <1>5, <2>1, <2>2
      <4>2. CASE h # k
        <5>1. session_id_coroutine[s][h] # v
          BY <1>0, <1>1, <2>1 DEF ConnectedAt
        <5> QED BY <5>1, <4>2, <1>0, <1>5, <2>1, <2>2 DEF ConnectedAt
      <4> QED BY <4>1, <4>2
    <3> QED BY <3>1, <3>2 DEF ConnectedAt
  <2>7. DrainsAt(s)'
    BY <1>3, <2>1 DEF DrainsAt
  <2> QED BY <2>3, <2>4, <2>5, <2>6, <2>7 DEF TableAt
<1>18. ASSUME NEW v \in Co, KillForked(s, c, v) PROVE TableAt(s)'
  <2>0. PICK n \in DOMAIN fork_queue[s] :
           fork_queue[s][n] = v /\ fork_queue' = [fork_queue EXCEPT ![s] = RemoveAt(@, n)]
    BY <1>18 DEF KillForked
  <2>1. /\ state[s][v] = "ready" /\ on[s][v] = 0 /\ v # c
        /\ \A j \in DOMAIN fork_queue[s] : fork_queue[s][j] = v => n = j
        /\ session_coroutine_address[s][v] = None
        /\ state'[s] = [state[s] EXCEPT ![v] = "free"]
        /\ UNCHANGED <<up, last, phase, running, on, session_id_coroutine, watching_session,
                       sleep_session, session_coroutine_id, session_coroutine_address>>
    <3>1. /\ state[s][v] = "ready" /\ on[s][v] = 0 /\ v # Blank
          /\ \A j \in DOMAIN fork_queue[s] : fork_queue[s][j] = v => n = j
      BY <1>0, <1>1, <2>0 DEF ForksAt
    <3>2. v # c /\ session_coroutine_address[s][v] = None
      BY <1>0, <1>4, <3>1 DEF ControlAt
    <3> QED BY <1>0, <1>18, <3>1, <3>2 DEF KillForked, ThreadTypes, context, duties
  <2>5. ForksAt(s)'
    <3>1. /\ fork_queue'[s] = RemoveAt(fork_queue[s], n)
      BY <1>0, <2>0 DEF PendingTypes
    <3>2. /\ DOMAIN fork_queue'[s] = 1 .. Len(fork_queue[s]) - 1
          /\ DOMAIN fork_queue[s] = 1 .. Len(fork_queue[s]) /\ Len(fork_queue[s]) \in Nat
          /\ \A j \in 1 .. Len(fork_queue[s]) - 1 :
                fork_queue'[s][j] = IF j < n THEN fork_queue[s][j] ELSE fork_queue[s][j + 1]
      <4>1. fork_queue[s] \in Seq(Co \cup {Blank})
        BY <1>5
      <4>2. /\ DOMAIN RemoveAt(fork_queue[s], n) = 1 .. Len(fork_queue[s]) - 1
            /\ DOMAIN fork_queue[s] = 1 .. Len(fork_queue[s])
            /\ \A j \in 1 .. Len(fork_queue[s]) - 1 :
                  RemoveAt(fork_queue[s], n)[j] = IF j < n THEN fork_queue[s][j] ELSE fork_queue[s][j + 1]
        BY ONLY <4>1, n \in DOMAIN fork_queue[s], RemoveFacts
      <4> QED BY ONLY <4>1, <4>2, <3>1
    <3>3. \A j \in DOMAIN fork_queue'[s] : fork_queue'[s][j] # v /\ fork_queue'[s][j] \in Co \cup {Blank}
      <4>1. ASSUME NEW j \in DOMAIN fork_queue'[s]
            PROVE  \E h \in DOMAIN fork_queue[s] : h # n /\ fork_queue'[s][j] = fork_queue[s][h]
        <5>1. j \in 1 .. Len(fork_queue[s]) - 1 /\ n \in 1 .. Len(fork_queue[s])
          BY <3>2
        <5>2. CASE j < n
          BY <5>1, <5>2, <3>2
        <5>3. CASE ~(j < n)
          <6>1. fork_queue'[s][j] = fork_queue[s][j + 1] /\ j + 1 \in DOMAIN fork_queue[s] /\ j + 1 # n
            BY <5>1, <5>3, <3>2
          <6> QED BY <6>1
        <5> QED BY <5>2, <5>3
      <4>2. \A h \in DOMAIN fork_queue[s] : fork_queue[s][h] \in Co \cup {Blank}
        BY <1>5
      <4>3. \A h \in DOMAIN fork_queue[s] : fork_queue[s][h] = v => n = h
        BY <2>1
      <4> QED BY <4>1, <4>2, <4>3
    <3>4. \A i, j \in DOMAIN fork_queue'[s] :
              fork_queue'[s][i] # Blank /\ fork_queue'[s][j] = fork_queue'[s][i] => i = j
      <4>1. \A i, j \in DOMAIN fork_queue[s] :
                fork_queue[s][i] # Blank /\ fork_queue[s][j] = fork_queue[s][i] => i = j
        BY <1>0 DEF ForksAt
      <4>2. n \in 1 .. Len(fork_queue[s])
        BY <3>2
      <4> SUFFICES ASSUME NEW i \in 1 .. Len(fork_queue[s]) - 1, NEW j \in 1 .. Len(fork_queue[s]) - 1,
                          fork_queue'[s][i] # Blank, fork_queue'[s][j] = fork_queue'[s][i]
                   PROVE  i = j
        BY <3>2
      <4>3. PICK a \in DOMAIN fork_queue[s] : fork_queue'[s][i] = fork_queue[s][a] /\ a = IF i < n THEN i ELSE i + 1
        BY <3>2, <4>2
      <4>4. PICK b \in DOMAIN fork_queue[s] : fork_queue'[s][j] = fork_queue[s][b] /\ b = IF j < n THEN j ELSE j + 1
        BY <3>2, <4>2
      <4>5. a = b
        BY <4>1, <4>3, <4>4
      <4> QED BY <4>2, <4>3, <4>4, <4>5, <3>2
    <3>5. \A i \in DOMAIN fork_queue'[s] : \E j \in DOMAIN fork_queue[s] : fork_queue'[s][i] = fork_queue[s][j]
      <4> SUFFICES ASSUME NEW i \in 1 .. Len(fork_queue[s]) - 1
                   PROVE  \E j \in DOMAIN fork_queue[s] : fork_queue'[s][i] = fork_queue[s][j]
        BY <3>2
      <4>1. i \in DOMAIN fork_queue[s] /\ i + 1 \in DOMAIN fork_queue[s]
        BY <3>2
      <4> QED BY <3>2, <4>1
    <3>6. \A i \in DOMAIN fork_queue'[s] : fork_queue'[s][i] # Blank =>
              state'[s][fork_queue'[s][i]] = "ready" /\ on'[s][fork_queue'[s][i]] = 0
      BY <1>0, <1>5, <2>1, <3>3, <3>5 DEF ForksAt
    <3> QED BY <3>4, <3>6 DEF ForksAt
  <2>6. UnusedAt(s)' /\ DrainsAt(s)'
    BY <1>0, <1>3, <2>1 DEF UnusedAt, DrainsAt
  <2>7. ControlAt(s)'
    BY <1>0, <1>5, <2>1 DEF ControlAt
  <2>8. ConnectedAt(s)'
    BY <1>0, <1>1, <1>5, <2>1 DEF ConnectedAt
  <2> QED BY <2>5, <2>6, <2>7, <2>8 DEF TableAt
<1>19. ASSUME NEW v \in Co, Kill(s, c, v) PROVE TableAt(s)'
  <2>0. PICK k : k = on[s][v]
    OBVIOUS
  <2>1. /\ k \in Sessions /\ session_id_coroutine[s][k] = v /\ v # c
    BY <1>1, <1>4, <1>5, <1>19, <2>0 DEF Kill
  <2>2. last'[s] \in Sessions /\ last[s] \in Sessions /\ last'[s] >= last[s]
    <3>1. CASE NewSession(s)
      BY <1>1, <3>1, NewTypes
    <3>2. CASE UNCHANGED last
      BY <1>0, <1>1, <3>2 DEF ContextTypes
    <3> QED BY <1>19, <3>1, <3>2 DEF Kill
  <2>3. PICK b \in {None, Break} :
           /\ session_id_coroutine'[s] = [session_id_coroutine[s] EXCEPT ![k] = b]
           /\ watching_session'[s] = [watching_session[s] EXCEPT ![k] = None]
           /\ sleep_session'[s] = [sleep_session[s] EXCEPT ![v] = None]
           /\ state'[s] = [state[s] EXCEPT ![v] = "free"]
           /\ on'[s] = [on[s] EXCEPT ![v] = 0]
           /\ session_coroutine_id'[s] = [session_coroutine_id[s] EXCEPT ![v] = None]
           /\ session_coroutine_address'[s] = [session_coroutine_address[s] EXCEPT ![v] = None]
           /\ UNCHANGED <<up, phase, running, fork_queue>>
    BY <1>0, <1>19, <2>0 DEF Kill, Clear, ThreadTypes, DutyTypes, pending
  <2>4. UnusedAt(s)'
    BY <1>0, <1>1, <1>5, <2>1, <2>2, <2>3 DEF UnusedAt
  <2>5. ControlAt(s)'
    <3>1. /\ phase'[s] = "run" /\ running'[s] = c /\ up'[s] /\ c \in Co
          /\ state'[s][c] = "run"
      BY <1>3, <1>4, <1>5, <2>1, <2>3
    <3>2. ASSUME NEW w \in Co
          PROVE  /\ state'[s][w] \in {"free", "run"} => on'[s][w] = 0
                 /\ state'[s][w] = "run" => running'[s] = w
                 /\ state'[s][w] = "ready" => session_coroutine_address'[s][w] = None
                 /\ session_coroutine_address'[s][w] = None => session_coroutine_id'[s][w] = None
      <4>1. CASE w = v
        BY <4>1, <1>5, <2>3
      <4>2. CASE w # v
        BY <4>2, <1>0, <1>5, <2>3 DEF ControlAt
      <4> QED BY <4>1, <4>2
    <3> QED BY <3>1, <3>2 DEF ControlAt
  <2>6. ForksAt(s)'
    <3>1. \A i \in DOMAIN fork_queue[s] : fork_queue[s][i] \in Co \cup {Blank}
            /\ (fork_queue[s][i] # Blank => fork_queue[s][i] # v)
      BY <1>0, <1>1, <1>5, <2>0, <2>1 DEF ForksAt
    <3> QED BY <1>0, <1>5, <2>3, <3>1 DEF ForksAt
  <2>7. ConnectedAt(s)'
    BY <1>0, <1>1, <1>5, <2>0, <2>1, <2>3 DEF ConnectedAt
  <2>8. DrainsAt(s)'
    BY <1>3, <2>3 DEF DrainsAt
  <2> QED BY <2>4, <2>5, <2>6, <2>7, <2>8 DEF TableAt
<1> QED BY <1>2, <1>7, <1>8, <1>9, <1>10, <1>11, <1>12, <1>13, <1>14, <1>15, <1>16, <1>17, <1>18, <1>19

LEMMA TableInit == ASSUME Numbered, Init PROVE TableInv
<1>0. /\ None \notin Co /\ None \notin Service /\ None # 0 /\ Sessions \subseteq Nat
      /\ 0 \notin Sessions /\ 0 .. MaxSession = {0} \cup Sessions /\ Break # None /\ None \notin Sessions
  BY SessionFacts
<1>1. PICK main \in Co : main = CHOOSE c \in Co : TRUE
  BY DEF Numbered, SessionAssumption
<1>2. 1 \in Sessions
  BY DEF Numbered, SessionAssumption, Sessions
<1>3. ToSet(<<>>) = {}
  BY DEF ToSet
<1>4. TypeOK
  BY <1>0, <1>1, <1>2 DEF Init, TypeOK
<1>5. Posted
  BY <1>3 DEF Init, Posted, Unread
<1>6. ASSUME NEW s \in Service PROVE TableAt(s)
  <2>1. /\ up[s] = TRUE /\ phase[s] = "idle" /\ running[s] = None /\ last[s] = 1
        /\ state[s] = [c \in Co |-> IF c = main THEN "ready" ELSE "free"]
        /\ on[s] = [c \in Co |-> IF c = main THEN 1 ELSE 0]
        /\ session_id_coroutine[s] = [k \in Sessions |-> IF k = 1 THEN main ELSE None]
        /\ watching_session[s] = [k \in Sessions |-> None]
        /\ session_coroutine_id[s] = [c \in Co |-> None]
        /\ session_coroutine_address[s] = [c \in Co |-> None]
        /\ sleep_session[s] = [c \in Co |-> None]
        /\ wakeup_queue[s] = <<>> /\ error_queue[s] = <<>> /\ fork_queue[s] = <<>>
    BY <1>1 DEF Init
  <2>2. UnusedAt(s)
    BY <1>0, <2>1 DEF UnusedAt
  <2>3. ControlAt(s)
    BY <2>1 DEF ControlAt
  <2>4. ForksAt(s)
    BY <2>1 DEF ForksAt
  <2>5. ConnectedAt(s)
    BY <1>0, <1>1, <1>2, <2>1 DEF ConnectedAt
  <2>6. DrainsAt(s)
    BY <2>1 DEF DrainsAt, Handled
  <2> QED BY <2>2, <2>3, <2>4, <2>5, <2>6 DEF TableAt
<1> QED BY <1>4, <1>5, <1>6 DEF TableInv

LEMMA TableStep == ASSUME Numbered, TableInv, [Next]_vars PROVE TableInv'
<1>1. ASSUME Next PROVE TableInv'
  <2>1. TypeOK' /\ Posted'
    BY <1>1, TypeStep, PostedStep
  <2>2. ASSUME NEW x \in Service PROVE TableAt(x)'
    <3>0. TypeOK /\ Posted /\ TableAt(x)
      BY DEF TableInv
    <3>1. PICK s \in Service : Scheduler(s) \/ Runs(s) \/ DropMessage(s) \/ (\E k \in timer[s] : Expire(s, k))
      BY <1>1 DEF Next
    <3>2. CASE x # s
      BY <3>0, <3>1, <3>2, OtherRows, RowKept
    <3>3. CASE x = s /\ (Scheduler(s) \/ Runs(s))
      BY <3>0, <3>3, SchedulerTable, RunsTable
    <3>4. CASE x = s /\ (DropMessage(s) \/ \E k \in timer[s] : Expire(s, k))
      <4>1. Row(x)' = Row(x)
        BY <3>4 DEF DropMessage, Expire, Row, context, threads, duties, pending, history
      <4> QED BY <3>0, <4>1, RowKept
    <3> QED BY <3>1, <3>2, <3>3, <3>4
  <2> QED BY <2>1, <2>2 DEF TableInv
<1>2. ASSUME UNCHANGED vars PROVE TableInv'
  <2>0. TypeOK /\ Posted
    BY DEF TableInv
  <2>1. UNCHANGED <<mail, phase, running>> /\ UNCHANGED <<context, threads, duties, pending, history>>
    BY <1>2 DEF vars
  <2>2. TypeOK'
    BY <2>0, <2>1, KeepTypes, TypeJoin
  <2>3. Posted'
    BY <2>0, <2>1, KeepMail DEF Posted
  <2>4. ASSUME NEW x \in Service PROVE TableAt(x)'
    <3>1. Row(x)' = Row(x)
      BY <2>1 DEF Row, context, threads, duties, pending, history
    <3> QED BY <3>1, RowKept DEF TableInv
  <2> QED BY <2>2, <2>3, <2>4 DEF TableInv
<1> QED BY <1>1, <1>2

\* The properties of the runs that the tables imply.
LEMMA TableImplies == ASSUME Numbered, TableInv PROVE TypeOK /\ Connected /\ Drain
<1>1. \A s \in Service : ConnectedAt(s) /\ DrainsAt(s)
  BY DEF TableInv, TableAt
<1>2. Connected
  BY <1>1, SessionFacts DEF Connected, ConnectedAt
<1>3. Drain
  BY <1>1 DEF Drain, DrainsAt, Handled
<1> QED BY <1>2, <1>3 DEF TableInv

\* A step gives out the next session of one service, or none.
LEMMA GivesOut == ASSUME Next PROVE UNCHANGED last \/ \E s \in Service : NewSession(s)
<1>1. ASSUME NEW s \in Service, Scheduler(s) \/ DropMessage(s) \/ \E k \in timer[s] : Expire(s, k)
      PROVE  UNCHANGED last
  BY <1>1 DEF Scheduler, DispatchResponse, DispatchRequest, RefuseRequest, DispatchError, DispatchWakeup,
              DispatchErrorQueue, Drained, StartFork, MessageDone, DropMessage, Expire, context
<1>2. ASSUME NEW s \in Service, Runs(s) PROVE UNCHANGED last \/ NewSession(s)
  BY <1>2 DEF Runs, Sleep, Wait, Ret, Response, Finish, Fail, Exit, Leave, Call, Send, Respond, Wakeup, Fork,
              Timeout, KillForked, Kill, context
<1> QED BY <1>1, <1>2 DEF Next

\* Nobody waits yet for the session that is given out.
LEMMA FreshStep ==
    ASSUME Numbered, TableInv, [Next]_vars
    PROVE  \A s \in Service : last'[s] # last[s] => session_id_coroutine[s][last'[s]] = None
<1> SUFFICES ASSUME NEW s \in Service, last'[s] # last[s]
             PROVE  session_id_coroutine[s][last'[s]] = None
  OBVIOUS
<1>1. TypeOK /\ UnusedAt(s)
  BY DEF TableInv, TableAt
<1>2. PICK x \in Service : NewSession(x)
  BY GivesOut DEF vars, context
<1>3. s = x
  BY <1>1, <1>2 DEF NewSession, TypeOK
<1>4. last'[s] \in Sessions /\ last[s] \in Sessions /\ last'[s] = last[s] + 1
  BY <1>1, <1>2, <1>3, NewTypes
<1>5. PICK k \in Sessions : k = last'[s]
  BY <1>4
<1>6. k > last[s]
  BY <1>4, <1>5, SessionFacts
<1> QED BY <1>1, <1>5, <1>6 DEF UnusedAt

\* Every service keeps its tables, whatever its code does.
THEOREM TablesKept == ASSUME Numbered PROVE Spec => []TableInv
<1>1. Init => TableInv
  BY TableInit
<1>2. TableInv /\ [Next]_vars => TableInv'
  BY TableStep
<1> QED BY <1>1, <1>2, PTL DEF Spec

\* An answer, an error or a wakeup resumes the coroutine that it is for, and a
\* message is done when all that it led to is done (lualib/skynet.lua).
THEOREM SessionsConnected == ASSUME Numbered PROVE Spec => [](TypeOK /\ Connected /\ Drain)
<1>1. TableInv => TypeOK /\ Connected /\ Drain
  BY TableImplies
<1> QED BY <1>1, TablesKept, PTL

\* The assertion of skynet.timeout: the session that
\* skynet_context_newsession gives out is nobody's.
THEOREM SessionsFresh == ASSUME Numbered PROVE Spec => FreshSession
<1>1. TableInv /\ [Next]_vars =>
        [\A s \in Service : last'[s] # last[s] => session_id_coroutine[s][last'[s]] = None]_vars
  BY FreshStep
<1> QED BY <1>1, TablesKept, PTL DEF Spec, FreshSession

-----------------------------------------------------------------------------
(***************************************************************************)
(* The inductive invariant of the answers, for services that do not kill   *)
(* their coroutines.                                                       *)
(***************************************************************************)
Patient == \A s \in Service : "kill" \notin Ops[s]

Answers(s) == {m \in Unread(s) : m.type # "request"}

\* A queue holds a request and an answer to a session once, and from a service
\* that is down nothing but errors 0 after the first one.
QueueOK(q) ==
    \A i, j \in DOMAIN q :
        /\ q[i].type = "request" /\ q[j] = q[i] /\ q[i].session # 0 => i = j
        /\ q[i].type # "request" /\ q[j].type # "request" /\ q[i].session = q[j].session
              /\ q[i].session # 0 => i = j
        /\ i < j /\ q[i].type = "error" /\ q[i].session = 0 /\ q[j].type # "request"
              /\ q[i].source = q[j].source => q[j].session = 0

\* Session k of s ends with a timeout: its coroutine sleeps, is to start, or
\* was woken already.
Dozes(s, k) ==
    \/ session_id_coroutine[s][k] = Break
    \/ /\ session_id_coroutine[s][k] \in Co
       /\ state[s][session_id_coroutine[s][k]] \in {"sleep", "ready"}
Alarm(k) == [type |-> "response", session |-> k, source |-> None]
Timed(s, k) == k \in timer[s] \/ Alarm(k) \in Unread(s)

\* Whoever still owes the answer to session k of s: the request in the queue of
\* d, a coroutine of d, or a closure of d.
Asked(s, k, d) == [type |-> "request", session |-> k, source |-> s] \in Unread(d)
Owes(d, c, s, k) == session_coroutine_id[d][c] = k /\ session_coroutine_address[d][c] = s
Token(s, k, d) ==
    \/ Asked(s, k, d)
    \/ \E c \in Co : Owes(d, c, s, k)
    \/ <<s, k>> \in unresponse[d]
Reply(s, k, d) ==
    \E m \in Answers(s) : m.source = d /\ (m.session = k \/ (m.type = "error" /\ m.session = 0))

\* An answer that waits is an error 0 of a service that is down, the only answer
\* to a call, or a timeout.
Good(s, m) ==
    \/ m.session = 0 /\ m.type = "error" /\ m.source \in Service /\ ~up[m.source]
    \/ /\ m.session \in Sessions /\ m.source \in Service
       /\ watching_session[s][m.session] = m.source
       /\ answers[s][m.session] = 1 /\ m.session \notin Due(s)
    \/ /\ m.session \in Sessions /\ m.source = None /\ m.type = "response"
       /\ m.session \notin timer[s] /\ Dozes(s, m.session)

Timers(s) ==
    /\ \A k \in timer[s] : Dozes(s, k)
    /\ \A k \in Sessions : session_id_coroutine[s][k] = Break => Timed(s, k)
    /\ \A c \in Co : state[s][c] = "sleep" => Timed(s, on[s][c])
Failing(s) ==
    /\ ~broken[s]
    /\ \A k \in Due(s) : watching_session[s][k] # None
    /\ \A i, j \in DOMAIN error_queue[s] : error_queue[s][i] = error_queue[s][j] => i = j
Box(s) == (up[s] => \A m \in Answers(s) : Good(s, m)) /\ Timers(s) /\ Failing(s)

\* The duty to answer session k of s is in one place of d, and a call whose
\* answer is owed has not been answered.
OneDuty(s, k, d) ==
    /\ Asked(s, k, d) => (\A c \in Co : ~Owes(d, c, s, k)) /\ <<s, k>> \notin unresponse[d]
    /\ \A c, v \in Co : Owes(d, c, s, k) /\ Owes(d, v, s, k) => c = v
    /\ \A c \in Co : Owes(d, c, s, k) => <<s, k>> \notin unresponse[d]
Duty(s, k, d) ==
    /\ OneDuty(s, k, d)
    /\ up[s] /\ up[d] /\ Token(s, k, d) =>
          watching_session[s][k] = d /\ answers[s][k] = 0 /\ k \notin Due(s)

Count(s) == \A k \in Sessions : answers[s][k] <= 1 /\ (k > last[s] => answers[s][k] = 0)
Gone(s) == ~up[s] =>
    /\ timer[s] = {} /\ unresponse[s] = {} /\ error_queue[s] = <<>>
    /\ \A c \in Co : session_coroutine_id[s][c] = None /\ state[s][c] = "free"
    /\ \A k \in Sessions : watching_session[s][k] = None /\ session_id_coroutine[s][k] = None

\* NoOrphan, of one session.
Cared(s, k) ==
    watching_session[s][k] # None =>
        \/ <<s, k>> \in forgotten
        \/ Token(s, k, watching_session[s][k])
        \/ Reply(s, k, watching_session[s][k])
        \/ k \in Due(s)

LedgerAt(s) == /\ up[s] => QueueOK(mail[s])
               /\ Box(s) /\ Count(s) /\ Gone(s)
               /\ \A k \in Sessions : Cared(s, k) /\ \A d \in Service : Duty(s, k, d)
LedgerInv == \A s \in Service : LedgerAt(s)

-----------------------------------------------------------------------------
(***************************************************************************)
(* Queues: what is taken from them, and what may be put into them.         *)
(***************************************************************************)
LEMMA QueueTail ==
    ASSUME NEW S, NEW q \in Seq(S), q # <<>>, QueueOK(q)
    PROVE  /\ QueueOK(Tail(q))
           /\ Head(q).type = "request" /\ Head(q).session # 0 => Head(q) \notin ToSet(Tail(q))
           /\ Head(q).type # "request" => \A m \in ToSet(Tail(q)) : m.type # "request" =>
                 /\ Head(q).session # 0 => m.session # Head(q).session
                 /\ Head(q).type = "error" /\ Head(q).session = 0 /\ m.source = Head(q).source
                       => m.session = 0
<1>1. /\ Head(q) = q[1] /\ 1 \in DOMAIN q
      /\ DOMAIN Tail(q) = 1 .. Len(q) - 1 /\ DOMAIN q = 1 .. Len(q) /\ Len(q) \in Nat
      /\ \A i \in DOMAIN Tail(q) : i + 1 \in DOMAIN q /\ Tail(q)[i] = q[i + 1]
  BY SeqTail
<1>2. \A m \in ToSet(Tail(q)) : \E i \in DOMAIN q : i > 1 /\ m = q[i]
  <2> SUFFICES ASSUME NEW j \in DOMAIN Tail(q)
               PROVE  \E i \in DOMAIN q : i > 1 /\ Tail(q)[j] = q[i]
    BY DEF ToSet
  <2>1. j + 1 \in DOMAIN q /\ j + 1 > 1 /\ Tail(q)[j] = q[j + 1]
    BY <1>1
  <2> QED BY <2>1
<1>3. QueueOK(Tail(q))
  <2> SUFFICES ASSUME NEW i \in DOMAIN Tail(q), NEW j \in DOMAIN Tail(q)
               PROVE  /\ Tail(q)[i].type = "request" /\ Tail(q)[j] = Tail(q)[i] /\ Tail(q)[i].session # 0 => i = j
                      /\ Tail(q)[i].type # "request" /\ Tail(q)[j].type # "request"
                            /\ Tail(q)[i].session = Tail(q)[j].session /\ Tail(q)[i].session # 0 => i = j
                      /\ i < j /\ Tail(q)[i].type = "error" /\ Tail(q)[i].session = 0
                            /\ Tail(q)[j].type # "request" /\ Tail(q)[i].source = Tail(q)[j].source
                               => Tail(q)[j].session = 0
    BY DEF QueueOK
  <2>1. /\ i + 1 \in DOMAIN q /\ j + 1 \in DOMAIN q /\ Tail(q)[i] = q[i + 1] /\ Tail(q)[j] = q[j + 1]
        /\ i \in Nat /\ j \in Nat
    BY <1>1
  <2>2. (i + 1 = j + 1 => i = j) /\ (i < j => i + 1 < j + 1)
    BY <2>1
  <2> QED BY <2>1, <2>2 DEF QueueOK
<1>4. Head(q).type = "request" /\ Head(q).session # 0 => Head(q) \notin ToSet(Tail(q))
  BY <1>1, <1>2 DEF QueueOK
<1>5. ASSUME Head(q).type # "request", NEW m \in ToSet(Tail(q)), m.type # "request"
      PROVE  /\ Head(q).session # 0 => m.session # Head(q).session
             /\ Head(q).type = "error" /\ Head(q).session = 0 /\ m.source = Head(q).source
                   => m.session = 0
  BY <1>1, <1>2, <1>5 DEF QueueOK
<1> QED BY <1>3, <1>4, <1>5

\* A message that may be put at the end of a queue.
Fresh(q, m) ==
    /\ m.type = "request" /\ m.session # 0 => m \notin ToSet(q)
    /\ m.type # "request" /\ m.session # 0 => \A a \in ToSet(q) : a.type # "request" =>
          a.session # m.session /\ ~(a.type = "error" /\ a.session = 0 /\ a.source = m.source)

LEMMA QueueAppend ==
    ASSUME NEW S, NEW q \in Seq(S), NEW m, QueueOK(q), Fresh(q, m)
    PROVE  QueueOK(Append(q, m))
<1> DEFINE p == Append(q, m)
<1>1. /\ DOMAIN q = 1 .. Len(q) /\ Len(q) \in Nat /\ DOMAIN p = 1 .. Len(q) + 1
      /\ \A i \in DOMAIN q : p[i] = q[i]
      /\ p[Len(q) + 1] = m
  BY SeqAppend
<1> HIDE DEF p
<1>2. \A i \in DOMAIN p : \/ i \in DOMAIN q /\ p[i] = q[i] /\ p[i] \in ToSet(q) /\ i < Len(q) + 1
                          \/ i = Len(q) + 1 /\ p[i] = m
  BY <1>1 DEF ToSet
<1>3. ASSUME NEW i \in DOMAIN p, NEW j \in DOMAIN p
      PROVE  /\ p[i].type = "request" /\ p[j] = p[i] /\ p[i].session # 0 => i = j
             /\ p[i].type # "request" /\ p[j].type # "request" /\ p[i].session = p[j].session
                   /\ p[i].session # 0 => i = j
             /\ i < j /\ p[i].type = "error" /\ p[i].session = 0 /\ p[j].type # "request"
                   /\ p[i].source = p[j].source => p[j].session = 0
  <2>1. CASE i \in DOMAIN q /\ p[i] = q[i] /\ j \in DOMAIN q /\ p[j] = q[j]
    BY <2>1 DEF QueueOK
  <2>2. CASE i = Len(q) + 1 /\ p[i] = m /\ j \in DOMAIN q /\ p[j] \in ToSet(q) /\ j < Len(q) + 1
    BY <2>2, <1>1 DEF Fresh
  <2>3. CASE i \in DOMAIN q /\ p[i] \in ToSet(q) /\ j = Len(q) + 1 /\ p[j] = m
    BY <2>3, <1>1 DEF Fresh
  <2>4. CASE i = Len(q) + 1 /\ j = Len(q) + 1
    BY <2>4, <1>1
  <2> QED BY <1>2, <2>1, <2>2, <2>3, <2>4
<1>4. QueueOK(p)
  BY <1>3 DEF QueueOK
<1> QED BY <1>4 DEF p

\* The errors of an exit.
LEMMA QueueFarewell ==
    ASSUME Numbered, NEW s \in Service, NEW d \in Service, NEW ks \in SUBSET Sessions,
           NEW q \in Seq(Message), QueueOK(q),
           \A a \in ToSet(q) : a.type # "request" =>
               a.session \notin ks /\ ~(a.type = "error" /\ a.session = 0 /\ a.source = s)
    PROVE  QueueOK(q \o Farewell(s, d, ks))
<1> DEFINE f == Farewell(s, d, ks)
           p == q \o f
<1>0. 0 \notin ks
  BY SessionFacts
<1>1. /\ f \in Seq(Message)
      /\ \A i \in DOMAIN f : /\ f[i].type = "error" /\ f[i].source = s
                             /\ f[i].session \in ks \/ (f[i].session = 0 /\ i = Len(f))
      /\ \A i, j \in DOMAIN f : f[i].session = f[j].session => i = j
  BY FarewellFacts, ZenonT(60)
<1> HIDE DEF f
<1>2. /\ Len(q) \in Nat /\ Len(f) \in Nat
      /\ DOMAIN q = 1 .. Len(q) /\ DOMAIN f = 1 .. Len(f) /\ DOMAIN p = 1 .. Len(q) + Len(f)
      /\ \A i \in DOMAIN q : p[i] = q[i]
      /\ \A i \in 1 .. Len(q) + Len(f) : i > Len(q) => i - Len(q) \in DOMAIN f /\ p[i] = f[i - Len(q)]
  BY <1>1, SeqConcat
<1> HIDE DEF p
<1>3. \A i \in DOMAIN p :
         \/ i \in DOMAIN q /\ p[i] = q[i] /\ p[i] \in ToSet(q) /\ i <= Len(q)
         \/ i > Len(q) /\ i - Len(q) \in DOMAIN f /\ p[i] = f[i - Len(q)]
  <2> SUFFICES ASSUME NEW i \in 1 .. Len(q) + Len(f)
               PROVE  \/ i \in DOMAIN q /\ p[i] = q[i] /\ p[i] \in ToSet(q) /\ i <= Len(q)
                      \/ i > Len(q) /\ i - Len(q) \in DOMAIN f /\ p[i] = f[i - Len(q)]
    BY <1>2
  <2>1. CASE i <= Len(q)
    BY <2>1, <1>2 DEF ToSet
  <2>2. CASE i > Len(q)
    BY <2>2, <1>2
  <2> QED BY <2>1, <2>2, <1>2
<1>4. ASSUME NEW i \in DOMAIN p, NEW j \in DOMAIN p
      PROVE  /\ p[i].type = "request" /\ p[j] = p[i] /\ p[i].session # 0 => i = j
             /\ p[i].type # "request" /\ p[j].type # "request" /\ p[i].session = p[j].session
                   /\ p[i].session # 0 => i = j
             /\ i < j /\ p[i].type = "error" /\ p[i].session = 0 /\ p[j].type # "request"
                   /\ p[i].source = p[j].source => p[j].session = 0
  <2>0. i \in Nat /\ j \in Nat
    BY <1>2
  <2>1. CASE i \in DOMAIN q /\ p[i] = q[i] /\ j \in DOMAIN q /\ p[j] = q[j]
    BY <2>1 DEF QueueOK
  <2>2. CASE i > Len(q) /\ i - Len(q) \in DOMAIN f /\ p[i] = f[i - Len(q)]
             /\ j \in DOMAIN q /\ p[j] \in ToSet(q) /\ j <= Len(q)
    <3>1. p[i].type = "error" /\ (p[i].session \in ks \/ p[i].session = 0)
      BY <2>2, <1>1
    <3>2. p[j].type # "request" => p[j].session \notin ks
      BY <2>2
    <3> QED BY <2>0, <2>2, <3>1, <3>2, <1>2
  <2>3. CASE j > Len(q) /\ j - Len(q) \in DOMAIN f /\ p[j] = f[j - Len(q)]
             /\ i \in DOMAIN q /\ p[i] \in ToSet(q) /\ i <= Len(q)
    <3>1. p[j].type = "error" /\ p[j].source = s /\ (p[j].session \in ks \/ p[j].session = 0)
      BY <2>3, <1>1
    <3>2. p[i].type # "request" => p[i].session \notin ks
             /\ ~(p[i].type = "error" /\ p[i].session = 0 /\ p[i].source = s)
      BY <2>3
    <3> QED BY <3>1, <3>2
  <2>4. CASE i - Len(q) \in DOMAIN f /\ p[i] = f[i - Len(q)] /\ j - Len(q) \in DOMAIN f /\ p[j] = f[j - Len(q)]
    <3>1. /\ p[i].type = "error" /\ p[i].source = s /\ p[j].source = s /\ p[j].type = "error"
          /\ p[i].session = 0 => i - Len(q) = Len(f)
          /\ p[i].session = p[j].session => i - Len(q) = j - Len(q)
      BY <2>4, <1>0, <1>1
    <3>2. j - Len(q) <= Len(f)
      BY <2>0, <2>4, <1>2
    <3>3. i - Len(q) = j - Len(q) => i = j
      BY <2>0, <1>2
    <3>4. i < j => i - Len(q) # Len(f)
      BY <2>0, <3>2, <1>2
    <3> QED BY <3>1, <3>3, <3>4
  <2> QED BY <1>3, <2>1, <2>2, <2>3, <2>4
<1>5. QueueOK(p)
  BY <1>4 DEF QueueOK
<1> QED BY <1>5 DEF p, f

-----------------------------------------------------------------------------
(***************************************************************************)
(* The parts of the ledger that a step leaves as they are.                 *)
(***************************************************************************)
LEMMA BoxKept ==
    ASSUME NEW y \in Service, Box(y), up'[y] => up[y], \A x \in Service : up'[x] => up[x],
           Answers(y)' \subseteq Answers(y), \A k \in Sessions : Alarm(k) \in Answers(y) => Alarm(k) \in Answers(y)',
           timer'[y] = timer[y], answers'[y] = answers[y], error_queue'[y] = error_queue[y],
           broken'[y] = broken[y], session_id_coroutine'[y] = session_id_coroutine[y],
           watching_session'[y] = watching_session[y], \A k \in Sessions : Dozes(y, k)' <=> Dozes(y, k),
           \A c \in Co : state'[y][c] = "sleep" => state[y][c] = "sleep" /\ on'[y][c] = on[y][c] /\ on[y][c] \in Sessions,
           timer[y] \subseteq Sessions
    PROVE  Box(y)'
<1>0. Due(y)' = Due(y)
  BY DEF Due
<1>1. up'[y] => \A m \in Answers(y)' : Good(y, m)'
  BY <1>0 DEF Box, Good
<1>2. \A k \in Sessions : Alarm(k) \in Unread(y) => Alarm(k) \in Unread(y)'
  BY DEF Answers, Alarm
<1>3. Timers(y)'
  <2>1. \A k \in Sessions : Timed(y, k) => Timed(y, k)'
    BY <1>2 DEF Timed, Alarm
  <2> QED BY <2>1 DEF Box, Timers
<1>4. Failing(y)'
  BY <1>0 DEF Box, Failing
<1> QED BY <1>1, <1>3, <1>4 DEF Box

LEMMA DutyKept ==
    ASSUME NEW s \in Service, NEW d \in Service, NEW k \in Sessions, Duty(s, k, d),
           up'[s] => up[s], up'[d] => up[d], Asked(s, k, d)' => Asked(s, k, d),
           \A c \in Co : Owes(d, c, s, k)' => Owes(d, c, s, k),
           <<s, k>> \in unresponse'[d] => <<s, k>> \in unresponse[d],
           watching_session'[s][k] = watching_session[s][k], answers'[s][k] = answers[s][k],
           k \in Due(s)' => k \in Due(s)
    PROVE  Duty(s, k, d)'
<1>1. Token(s, k, d)' => Token(s, k, d)
  BY DEF Token
<1> QED BY <1>1 DEF Duty, OneDuty

LEMMA CaredKept ==
    ASSUME NEW s \in Service, NEW k \in Sessions, Cared(s, k),
           watching_session'[s][k] = watching_session[s][k],
           watching_session[s][k] # None => LET d == watching_session[s][k] IN
               /\ <<s, k>> \in forgotten => <<s, k>> \in forgotten'
               /\ Token(s, k, d) => Token(s, k, d)' \/ Reply(s, k, d)' \/ <<s, k>> \in forgotten'
               /\ Reply(s, k, d) => Reply(s, k, d)' \/ k \in Due(s)'
               /\ k \in Due(s) => k \in Due(s)'
    PROVE  Cared(s, k)'
<1> SUFFICES ASSUME watching_session[s][k] # None
             PROVE  Cared(s, k)'
  BY DEF Cared
<1>1. PICK d : d = watching_session[s][k]
  OBVIOUS
<1>2. watching_session'[s][k] = d
  BY <1>1
<1>3. /\ <<s, k>> \in forgotten => <<s, k>> \in forgotten'
      /\ Token(s, k, d) => Token(s, k, d)' \/ Reply(s, k, d)' \/ <<s, k>> \in forgotten'
      /\ Reply(s, k, d) => Reply(s, k, d)' \/ k \in Due(s)'
      /\ k \in Due(s) => k \in Due(s)'
  BY <1>1
<1>4. \/ <<s, k>> \in forgotten \/ Token(s, k, d) \/ Reply(s, k, d) \/ k \in Due(s)
  BY <1>1 DEF Cared
<1>5. \/ <<s, k>> \in forgotten' \/ Token(s, k, d)' \/ Reply(s, k, d)' \/ k \in Due(s)'
  BY <1>3, <1>4
<1> QED BY <1>2, <1>5 DEF Cared

\* What a service is asked, or answers, as far as its tables go.
LEMMA Quiet ==
    ASSUME NEW y \in Service, ConnectedAt(y), ConnectedAt(y)',
           session_id_coroutine'[y] = session_id_coroutine[y],
           on[y] \in [Co -> 0 .. MaxSession], 0 .. MaxSession = {0} \cup Sessions,
           \A c \in Co : on[y][c] # 0 => state'[y][c] = state[y][c],
           on'[y] = on[y], 0 \notin Sessions
    PROVE  /\ \A k \in Sessions : Dozes(y, k)' <=> Dozes(y, k)
           /\ \A c \in Co : state'[y][c] = "sleep"
                 => state[y][c] = "sleep" /\ on'[y][c] = on[y][c] /\ on[y][c] \in Sessions
<1>1. \A k \in Sessions : session_id_coroutine[y][k] \in Co =>
          state'[y][session_id_coroutine[y][k]] = state[y][session_id_coroutine[y][k]]
  BY DEF ConnectedAt
<1>2. \A k \in Sessions : Dozes(y, k)' <=> Dozes(y, k)
  BY <1>1 DEF Dozes
<1>3. \A c \in Co : state'[y][c] = "sleep" => on'[y][c] # 0
  BY DEF ConnectedAt
<1> QED BY <1>2, <1>3

\* What holds of a service before any step, in the words of the ledger.
LEMMA LedgerFacts ==
    ASSUME Numbered, TableInv, LedgerInv, NEW s \in Service
    PROVE  /\ mail[s] \in Seq(Message) /\ timer[s] \subseteq Sessions /\ last[s] \in Sessions
           /\ error_queue[s] \in Seq(Sessions) /\ Due(s) \subseteq Sessions
           /\ unresponse[s] \subseteq Service \X Sessions
           /\ on[s] \in [Co -> 0 .. MaxSession] /\ answers[s] \in [Sessions -> Nat]
           /\ state[s] \in [Co -> {"free", "ready", "run", "call", "sleep", "wait"}]
           /\ session_id_coroutine[s] \in [Sessions -> Co \cup {None, Break}]
           /\ watching_session[s] \in [Sessions -> Service \cup {None}]
           /\ session_coroutine_id[s] \in [Co -> {None} \cup 0 .. MaxSession]
           /\ session_coroutine_address[s] \in [Co -> Service \cup {None}]
           /\ TableAt(s) /\ UnusedAt(s) /\ ControlAt(s) /\ ForksAt(s) /\ ConnectedAt(s) /\ DrainsAt(s)
           /\ LedgerAt(s) /\ Box(s) /\ Count(s) /\ Gone(s) /\ Timers(s) /\ Failing(s)
           /\ up[s] => QueueOK(mail[s])
           /\ up[s] => \A m \in Answers(s) : Good(s, m)
           /\ \A k \in Sessions, d \in Service : Duty(s, k, d)
           /\ \A k \in Sessions : Cared(s, k)
           /\ \A m \in Unread(s) : m \in Message
<1>1. /\ mail[s] \in Seq(Message) /\ timer[s] \subseteq Sessions /\ last[s] \in Sessions
      /\ error_queue[s] \in Seq(Sessions)
      /\ unresponse[s] \subseteq Service \X Sessions
      /\ on[s] \in [Co -> 0 .. MaxSession] /\ answers[s] \in [Sessions -> Nat]
      /\ state[s] \in [Co -> {"free", "ready", "run", "call", "sleep", "wait"}]
      /\ session_id_coroutine[s] \in [Sessions -> Co \cup {None, Break}]
      /\ watching_session[s] \in [Sessions -> Service \cup {None}]
      /\ session_coroutine_id[s] \in [Co -> {None} \cup 0 .. MaxSession]
      /\ session_coroutine_address[s] \in [Co -> Service \cup {None}]
  BY DEF TableInv, TypeOK
<1>2. Due(s) \subseteq Sessions /\ \A m \in Unread(s) : m \in Message
  <2>1. \A i \in DOMAIN error_queue[s] : error_queue[s][i] \in Sessions
    BY <1>1
  <2>2. \A i \in DOMAIN mail[s] : mail[s][i] \in Message
    BY <1>1
  <2> QED BY <2>1, <2>2 DEF Due, Unread, ToSet
<1>3. TableAt(s) /\ UnusedAt(s) /\ ControlAt(s) /\ ForksAt(s) /\ ConnectedAt(s) /\ DrainsAt(s)
  BY DEF TableInv, TableAt
<1>4. /\ LedgerAt(s) /\ Box(s) /\ Count(s) /\ Gone(s) /\ Timers(s) /\ Failing(s)
      /\ up[s] => QueueOK(mail[s])
      /\ up[s] => \A m \in Answers(s) : Good(s, m)
      /\ \A k \in Sessions, d \in Service : Duty(s, k, d)
      /\ \A k \in Sessions : Cared(s, k)
  BY DEF LedgerInv, LedgerAt, Box
<1> QED BY <1>1, <1>2, <1>3, <1>4

-----------------------------------------------------------------------------
(***************************************************************************)
(* What the ledger says: the properties of the runs.                       *)
(***************************************************************************)
LEMMA LedgerImplies ==
    ASSUME Numbered, TableInv, LedgerInv
    PROVE  AnsweredOnce /\ NoOrphan /\ Drain /\ Expected /\ BreakCleared
<1>1. AnsweredOnce
  BY LedgerFacts DEF AnsweredOnce, Count
<1>2. NoOrphan
  <2> SUFFICES ASSUME NEW s \in Service, NEW k \in Sessions, watching_session[s][k] # None,
                      <<s, k>> \notin forgotten
               PROVE  Carried(s, k, watching_session[s][k])
    BY DEF NoOrphan
  <2>1. PICK d \in Service : d = watching_session[s][k]
    BY LedgerFacts
  <2>2. Token(s, k, d) \/ Reply(s, k, d) \/ k \in Due(s)
    BY <2>1, LedgerFacts DEF Cared
  <2>3. ASSUME Asked(s, k, d) PROVE Carried(s, k, d)
    BY <2>3 DEF Asked, Unread, ToSet, Carried
  <2>4. ASSUME NEW c \in Co, Owes(d, c, s, k) PROVE Carried(s, k, d)
    BY <2>4 DEF Owes, Debt, Carried
  <2>5. ASSUME <<s, k>> \in unresponse[d] PROVE Carried(s, k, d)
    BY <2>5 DEF Carried
  <2>6. ASSUME Reply(s, k, d) PROVE Carried(s, k, d)
    <3>1. PICK i \in DOMAIN mail[s] :
             /\ mail[s][i].type # "request" /\ mail[s][i].source = d
             /\ mail[s][i].session = k \/ (mail[s][i].type = "error" /\ mail[s][i].session = 0)
      BY <2>6 DEF Reply, Answers, Unread, ToSet
    <3> QED BY <3>1 DEF Carried
  <2>7. ASSUME k \in Due(s) PROVE Carried(s, k, d)
    <3>1. PICK i \in DOMAIN error_queue[s] : error_queue[s][i] = k
      BY <2>7 DEF Due, ToSet
    <3>2. DOMAIN error_queue[s] = 1 .. Len(error_queue[s])
      BY LedgerFacts
    <3> QED BY <3>1, <3>2 DEF Carried, Contains
  <2> QED BY <2>1, <2>2, <2>3, <2>4, <2>5, <2>6, <2>7 DEF Token
<1>3. Drain
  BY LedgerFacts DEF Drain, DrainsAt, Handled
<1>4. Expected
  <2> SUFFICES ASSUME NEW s \in Service, HeadIs(s, "response")
               PROVE  session_id_coroutine[s][Head(mail[s]).session] # None
    BY DEF Expected
  <2>1. PICK m : m = Head(mail[s])
    OBVIOUS
  <2>2. m \in Answers(s) /\ m.type = "response" /\ up[s]
    <3>1. mail[s] # <<>> /\ m.type = "response" /\ phase[s] = "idle"
      BY <2>1 DEF HeadIs
    <3>2. m \in Unread(s)
      BY <2>1, <3>1, TakenTypes DEF TableInv
    <3>3. up[s]
      BY <3>1, LedgerFacts DEF ControlAt
    <3> QED BY <3>1, <3>2, <3>3 DEF Answers
  <2>3. Good(s, m)
    BY <2>2, LedgerFacts
  <2>4. session_id_coroutine[s][m.session] \in Co \cup {Break}
    <3>1. CASE /\ m.session \in Sessions /\ m.source \in Service
               /\ watching_session[s][m.session] = m.source
      <4>1. m.source # None
        BY <3>1, SessionFacts
      <4> QED BY <3>1, <4>1, LedgerFacts DEF ConnectedAt
    <3>2. CASE m.session \in Sessions /\ Dozes(s, m.session)
      BY <3>2 DEF Dozes
    <3> QED BY <2>2, <2>3, <3>1, <3>2 DEF Good
  <2> QED BY <2>1, <2>4, SessionFacts
<1>5. BreakCleared
  <2> SUFFICES ASSUME NEW s \in Service, NEW k \in Sessions, session_id_coroutine[s][k] = Break
               PROVE  \/ k \in timer[s]
                      \/ \E i \in DOMAIN mail[s] :
                            mail[s][i].type = "response" /\ mail[s][i].session = k
    BY DEF BreakCleared
  <2>1. Timed(s, k)
    BY LedgerFacts DEF Timers
  <2>2. ASSUME Alarm(k) \in Unread(s)
        PROVE  \E i \in DOMAIN mail[s] : mail[s][i].type = "response" /\ mail[s][i].session = k
    BY <2>2 DEF Unread, ToSet, Alarm
  <2> QED BY <2>1, <2>2 DEF Timed
<1> QED BY <1>1, <1>2, <1>3, <1>4, <1>5

-----------------------------------------------------------------------------
(***************************************************************************)
(* Steps that the ledger does not see.                                     *)
(***************************************************************************)
LEMMA StillLedger ==
    ASSUME Numbered, TableInv, TableInv', LedgerInv,
           UNCHANGED <<up, timer, session_id_coroutine, watching_session, on, error_queue, answers,
                       session_coroutine_id, session_coroutine_address, unresponse, forgotten, broken>>,
           \A s \in Service : /\ last'[s] >= last[s]
                              /\ \A c \in Co : on[s][c] # 0 => state'[s][c] = state[s][c]
                              /\ ~up[s] => state'[s] = state[s]
                              /\ up[s] => QueueOK(mail'[s])
                              /\ Answers(s)' = Answers(s),
           \A s, d \in Service : \A k \in Sessions : Asked(s, k, d)' <=> Asked(s, k, d)
    PROVE  LedgerInv'
<1>0. SUFFICES ASSUME NEW s \in Service PROVE LedgerAt(s)'
  BY DEF LedgerInv
<1>1. /\ \A k \in Sessions : Dozes(s, k)' <=> Dozes(s, k)
      /\ \A c \in Co : state'[s][c] = "sleep"
            => state[s][c] = "sleep" /\ on'[s][c] = on[s][c] /\ on[s][c] \in Sessions
  <2>1. ConnectedAt(s)'
    BY DEF TableInv, TableAt
  <2>2. ConnectedAt(s) /\ on[s] \in [Co -> 0 .. MaxSession]
    BY LedgerFacts
  <2> QED BY <2>1, <2>2, SessionFacts, Quiet
<1>2. Box(s)'
  <2>1. timer[s] \subseteq Sessions /\ Box(s)
    BY LedgerFacts
  <2> QED BY <1>1, <2>1, BoxKept
<1>3. Count(s)'
  <2>1. Count(s) /\ last[s] \in Sessions /\ last'[s] \in Sessions
    BY LedgerFacts DEF TableInv, TypeOK
  <2>2. \A k \in Sessions : k > last'[s] => k > last[s]
    BY <2>1, SessionFacts
  <2> QED BY <2>1, <2>2 DEF Count
<1>4. Gone(s)'
  BY LedgerFacts DEF Gone
<1>5. ASSUME NEW k \in Sessions PROVE Cared(s, k)'
  <2>1. Due(s)' = Due(s)
    BY DEF Due
  <2>2. \A d : Reply(s, k, d)' <=> Reply(s, k, d)
    BY DEF Reply
  <2>3. \A d \in Service : Token(s, k, d)' <=> Token(s, k, d)
    BY DEF Token, Owes
  <2>4. watching_session[s][k] \in Service \cup {None}
    BY LedgerFacts
  <2> QED BY <2>1, <2>2, <2>3, <2>4, LedgerFacts DEF Cared
<1>6. ASSUME NEW k \in Sessions, NEW d \in Service PROVE Duty(s, k, d)'
  <2>1. Duty(s, k, d)
    BY LedgerFacts
  <2> QED BY <2>1, DutyKept DEF Owes, Due
<1> QED BY <1>2, <1>3, <1>4, <1>5, <1>6 DEF LedgerAt

\* No message is sent, none is taken: the queues are what they were.
LEMMA SameMail ==
    ASSUME Numbered, TableInv, LedgerInv, UNCHANGED mail
    PROVE  /\ \A s \in Service : up[s] => QueueOK(mail'[s])
           /\ \A s \in Service : Answers(s)' = Answers(s)
           /\ \A s, d \in Service : \A k \in Sessions : Asked(s, k, d)' <=> Asked(s, k, d)
BY LedgerFacts DEF Answers, Asked, Unread

LEMMA StillStep ==
    ASSUME Numbered, TableInv, TableInv', LedgerInv, NEW s \in Service,
           \/ Drained(s) \/ MessageDone(s) \/ StartFork(s)
           \/ DispatchWakeup(s) /\ UNCHANGED threads
           \/ \E c \in Co : \/ \E v \in Co : Wakeup(s, c, v) \/ Fork(s, c, v)
                            \/ \E d \in Service : Send(s, c, d) \/ (Call(s, c, d) /\ ~up[d])
    PROVE  LedgerInv'
<1>0. /\ TypeOK /\ ThreadTypes /\ ContextTypes /\ PendingTypes
      /\ ControlAt(s) /\ ConnectedAt(s) /\ ForksAt(s) /\ mail[s] \in Seq(Message) /\ fork_queue[s] \in Seq(Co \cup {Blank})
  BY TypeParts, LedgerFacts DEF TableInv, TypeOK
<1>1. ASSUME UNCHANGED <<mail, state, last>>,
             UNCHANGED <<up, timer, session_id_coroutine, watching_session, on, error_queue, answers,
                         session_coroutine_id, session_coroutine_address, unresponse, forgotten, broken>>
      PROVE  LedgerInv'
  <2>1. \A x \in Service : last'[x] >= last[x]
    BY <1>0, <1>1, SessionFacts DEF ContextTypes
  <2> QED BY <1>1, <2>1, SameMail, StillLedger
<1>2. CASE Drained(s) \/ MessageDone(s)
  BY <1>1, <1>2 DEF Drained, MessageDone, context, threads, duties, pending, history
<1>3. CASE DispatchWakeup(s) /\ UNCHANGED threads
  BY <1>1, <1>3 DEF DispatchWakeup, context, threads, duties, history
<1>4. ASSUME NEW c \in Co, NEW v \in Co, Wakeup(s, c, v) PROVE LedgerInv'
  BY <1>1, <1>4 DEF Wakeup, context, threads, duties, history
\* A coroutine that waits for no session begins to wait for its turn, or to run.
<1>5. ASSUME NEW v \in Co, on[s][v] = 0, up[s], NEW st, state' = [state EXCEPT ![s][v] = st],
             UNCHANGED <<mail, last>>,
             UNCHANGED <<up, timer, session_id_coroutine, watching_session, on, error_queue, answers,
                         session_coroutine_id, session_coroutine_address, unresponse, forgotten, broken>>
      PROVE  LedgerInv'
  <2>1. \A x \in Service : last'[x] >= last[x]
    BY <1>0, <1>5, SessionFacts DEF ContextTypes
  <2>2. \A x \in Service : /\ \A c \in Co : on[x][c] # 0 => state'[x][c] = state[x][c]
                           /\ ~up[x] => state'[x] = state[x]
    BY <1>0, <1>5 DEF ThreadTypes
  <2> QED BY <1>5, <2>1, <2>2, SameMail, StillLedger
<1>6. CASE StartFork(s)
  <2>1. PICK c : c = Head(fork_queue[s])
    OBVIOUS
  <2>2. /\ UNCHANGED <<mail, last>> /\ phase[s] = "fork" /\ fork_queue[s] # <<>>
        /\ UNCHANGED <<up, timer, session_id_coroutine, watching_session, on, error_queue, answers,
                       session_coroutine_id, session_coroutine_address, unresponse, forgotten, broken>>
    BY <1>6 DEF StartFork, context, duties, history
  <2>3. up[s]
    BY <1>0, <2>2 DEF ControlAt
  <2>4. c \in Co \cup {Blank} /\ fork_queue[s][1] = c /\ 1 \in DOMAIN fork_queue[s]
    BY <1>0, <2>1, <2>2
  <2>5. CASE c = Blank /\ UNCHANGED state
    BY <1>1, <2>2, <2>5
  <2>6. CASE c # Blank /\ state' = [state EXCEPT ![s][c] = "run"]
    <3>1. c \in Co /\ on[s][c] = 0
      BY <1>0, <2>4, <2>6 DEF ForksAt
    <3> QED BY <1>5, <2>2, <2>3, <2>6, <3>1
  <2> QED BY <1>6, <2>1, <2>5, <2>6 DEF StartFork
<1>7. ASSUME NEW c \in Co, NEW v \in Co, Fork(s, c, v) PROVE LedgerInv'
  <2>1. /\ state[s][v] = "free" /\ state' = [state EXCEPT ![s][v] = "ready"] /\ phase[s] = "run"
        /\ UNCHANGED <<mail, last>>
        /\ UNCHANGED <<up, timer, session_id_coroutine, watching_session, on, error_queue, answers,
                       session_coroutine_id, session_coroutine_address, unresponse, forgotten, broken>>
    BY <1>7 DEF Fork, Does, Free, context, duties, history
  <2>2. on[s][v] = 0 /\ up[s]
    BY <1>0, <2>1 DEF ControlAt
  <2> QED BY <1>5, <2>1, <2>2
<1>8. ASSUME NEW c \in Co, NEW d \in Service, Send(s, c, d) PROVE LedgerInv'
  <2>1. PICK m : m = [type |-> "request", session |-> 0, source |-> s]
    OBVIOUS
  <2>2. /\ Post(d, m) /\ UNCHANGED <<state, last>>
        /\ UNCHANGED <<up, timer, session_id_coroutine, watching_session, on, error_queue, answers,
                       session_coroutine_id, session_coroutine_address, unresponse, forgotten, broken>>
    BY <1>8, <2>1 DEF Send, context, threads, duties, pending, history
  <2>3. \A x \in Service : Unread(x)' = Unread(x) \/ Unread(x)' = Unread(x) \cup {m}
    BY <2>2, PostMail DEF TableInv, TypeOK
  <2>4. m.type = "request" /\ m.session = 0
    BY <2>1
  <2>5. \A x \in Service : Answers(x)' = Answers(x)
    BY <2>3, <2>4 DEF Answers
  <2>6. \A x, y \in Service : \A k \in Sessions : Asked(x, k, y)' <=> Asked(x, k, y)
    <3>1. \A x, k : k \in Sessions => [type |-> "request", session |-> k, source |-> x] # m
      BY <2>4, SessionFacts
    <3> QED BY <2>3, <3>1 DEF Asked
  <2>7. ASSUME NEW x \in Service, up[x] PROVE QueueOK(mail'[x])
    <3>1. QueueOK(mail[x]) /\ mail[x] \in Seq(Message) /\ Fresh(mail[x], m)
      BY <2>4, <2>7, LedgerFacts DEF Fresh
    <3>2. mail'[x] = mail[x] \/ mail'[x] = Append(mail[x], m)
      BY <2>2 DEF Post, TableInv, TypeOK
    <3>3. PICK q \in Seq(Message) : q = mail[x]
      BY <3>1
    <3>4. QueueOK(Append(q, m))
      BY <3>1, <3>3, QueueAppend
    <3> QED BY <3>1, <3>2, <3>3, <3>4
  <2>8. \A x \in Service : last'[x] >= last[x]
    BY <1>0, <2>2, SessionFacts DEF ContextTypes
  <2> QED BY <2>2, <2>5, <2>6, <2>7, <2>8, StillLedger
<1>9. ASSUME NEW c \in Co, NEW d \in Service, Call(s, c, d), ~up[d] PROVE LedgerInv'
  <2>1. /\ NewSession(s) /\ UNCHANGED <<mail, state>>
        /\ UNCHANGED <<up, timer, session_id_coroutine, watching_session, on, error_queue, answers,
                       session_coroutine_id, session_coroutine_address, unresponse, forgotten, broken>>
    BY <1>9 DEF Call, Post, threads, duties, pending, history
  <2>2. \A x \in Service : last'[x] >= last[x]
    <3>1. last'[s] = last[s] + 1 /\ last' = [last EXCEPT ![s] = last'[s]]
          /\ last \in [Service -> Sessions]
      BY <1>0, <2>1, NewTypes DEF ContextTypes
    <3> QED BY <3>1, SessionFacts
  <2> QED BY <2>1, <2>2, SameMail, StillLedger
<1> QED BY <1>2, <1>3, <1>4, <1>6, <1>7, <1>8, <1>9

-----------------------------------------------------------------------------
(***************************************************************************)
(* A coroutine waits for a session: calls, sleeps, waits and timeouts.     *)
(***************************************************************************)
\* Nothing of a session that is not given out yet is under way.
LEMMA Untouched ==
    ASSUME Numbered, TableInv, LedgerInv, NEW s \in Service, up[s], NEW k \in Sessions, k > last[s]
    PROVE  /\ session_id_coroutine[s][k] = None /\ watching_session[s][k] = None /\ answers[s][k] = 0
           /\ k \notin timer[s] /\ k \notin Due(s)
           /\ \A m \in Answers(s) : m.session # k
           /\ \A d \in Service : up[d] => ~Token(s, k, d)
<1>1. session_id_coroutine[s][k] = None /\ watching_session[s][k] = None /\ answers[s][k] = 0
  BY LedgerFacts DEF UnusedAt, Count
<1>2. ~Dozes(s, k)
  BY <1>1, SessionFacts DEF Dozes
<1>3. k \notin timer[s]
  BY <1>2, LedgerFacts DEF Timers
<1>4. k \notin Due(s)
  BY <1>1, LedgerFacts DEF Failing
<1>5. \A m \in Answers(s) : m.session # k
  BY <1>1, <1>2, LedgerFacts, SessionFacts DEF Good
<1>6. ASSUME NEW d \in Service, up[d] PROVE ~Token(s, k, d)
  <2>1. Duty(s, k, d) /\ d # None
    BY LedgerFacts, SessionFacts
  <2> QED BY <1>1, <1>6, <2>1 DEF Duty, OneDuty
<1> QED BY <1>1, <1>3, <1>4, <1>5, <1>6

LEMMA BeginLedger ==
    ASSUME Numbered, TableInv, TableInv', LedgerInv, NEW s \in Service, up[s], NewSession(s),
           NEW c \in Co, on[s][c] = 0, NEW how \in {"call", "sleep", "wait", "ready"},
           NEW d \in Service,
           state' = [state EXCEPT ![s][c] = how], on' = [on EXCEPT ![s][c] = last'[s]],
           session_id_coroutine' = [session_id_coroutine EXCEPT ![s][last'[s]] = c],
           IF how = "call"
           THEN /\ watching_session' = [watching_session EXCEPT ![s][last'[s]] = d]
                /\ Post(d, [type |-> "request", session |-> last'[s], source |-> s]) /\ up[d]
           ELSE UNCHANGED <<mail, watching_session>>,
           timer' = IF how \in {"sleep", "ready"}
                    THEN [timer EXCEPT ![s] = timer[s] \cup {last'[s]}] ELSE timer,
           UNCHANGED <<up, error_queue, answers, session_coroutine_id, session_coroutine_address,
                       unresponse, forgotten, broken>>
    PROVE  LedgerInv'
<1>0. PICK k \in Sessions : k = last'[s] /\ k > last[s] /\ last' = [last EXCEPT ![s] = k]
  <2>1. /\ last'[s] = last[s] + 1 /\ last'[s] \in Sessions /\ last[s] \in Sessions
        /\ last' = [last EXCEPT ![s] = last'[s]]
    BY NewTypes DEF TableInv
  <2> QED BY <2>1, SessionFacts
<1>1. /\ session_id_coroutine[s][k] = None /\ watching_session[s][k] = None /\ answers[s][k] = 0
      /\ k \notin timer[s] /\ k \notin Due(s)
      /\ \A m \in Answers(s) : m.session # k
      /\ \A x \in Service : up[x] => ~Token(s, k, x)
  BY <1>0, Untouched
<1>2. PICK r : r = [type |-> "request", session |-> k, source |-> s]
  OBVIOUS
<1>3. /\ \A x \in Service : Unread(x)' = Unread(x) \/ (Unread(x)' = Unread(x) \cup {r} /\ x = d /\ how = "call")
      /\ how = "call" => r \in Unread(d)'
  <2>0. mail \in [Service -> Seq(Message)]
    BY DEF TableInv, TypeOK
  <2>1. CASE how = "call"
    <3>1. Post(d, r) /\ up[d]
      BY <1>0, <1>2, <2>1
    <3>2. Unread(d)' = Unread(d) \cup {r} /\ \A x \in Service : x # d => Unread(x)' = Unread(x)
      BY <2>0, <3>1, PostMail
    <3> QED BY <2>1, <3>2
  <2>2. CASE how # "call"
    BY <2>2, KeepMail
  <2> QED BY <2>1, <2>2
<1>4. \A x \in Service : Answers(x)' = Answers(x)
  BY <1>2, <1>3 DEF Answers
<1>5. /\ state'[s] = [state[s] EXCEPT ![c] = how] /\ on'[s] = [on[s] EXCEPT ![c] = k]
      /\ session_id_coroutine'[s] = [session_id_coroutine[s] EXCEPT ![k] = c]
      /\ watching_session'[s] = IF how = "call" THEN [watching_session[s] EXCEPT ![k] = d]
                                                ELSE watching_session[s]
      /\ timer'[s] = IF how \in {"sleep", "ready"} THEN timer[s] \cup {k} ELSE timer[s]
  <2>0. ThreadTypes /\ ContextTypes
    BY TypeParts DEF TableInv
  <2>1. /\ state' = [state EXCEPT ![s][c] = how] /\ on' = [on EXCEPT ![s][c] = k]
        /\ session_id_coroutine' = [session_id_coroutine EXCEPT ![s][k] = c]
    BY <1>0
  <2>2. /\ state'[s] = [state[s] EXCEPT ![c] = how] /\ on'[s] = [on[s] EXCEPT ![c] = k]
        /\ session_id_coroutine'[s] = [session_id_coroutine[s] EXCEPT ![k] = c]
    BY <2>0, <2>1 DEF ThreadTypes
  <2>3. watching_session'[s] = IF how = "call" THEN [watching_session[s] EXCEPT ![k] = d]
                                               ELSE watching_session[s]
    <3>1. CASE how = "call"
      <4>1. watching_session' = [watching_session EXCEPT ![s][k] = d]
        BY <1>0, <3>1
      <4> QED BY <2>0, <3>1, <4>1 DEF ThreadTypes
    <3>2. CASE how # "call"
      BY <3>2
    <3> QED BY <3>1, <3>2
  <2>4. timer'[s] = IF how \in {"sleep", "ready"} THEN timer[s] \cup {k} ELSE timer[s]
    <3>1. timer' = IF how \in {"sleep", "ready"} THEN [timer EXCEPT ![s] = timer[s] \cup {k}] ELSE timer
      BY <1>0
    <3> QED BY <2>0, <3>1 DEF ContextTypes
  <2> QED BY <2>2, <2>3, <2>4
<1>6. \A x \in Service : x # s =>
         /\ state'[x] = state[x] /\ on'[x] = on[x] /\ session_id_coroutine'[x] = session_id_coroutine[x]
         /\ watching_session'[x] = watching_session[x] /\ timer'[x] = timer[x] /\ last'[x] = last[x]
  <2> SUFFICES ASSUME NEW x \in Service, x # s
               PROVE  /\ state'[x] = state[x] /\ on'[x] = on[x]
                      /\ session_id_coroutine'[x] = session_id_coroutine[x]
                      /\ watching_session'[x] = watching_session[x]
                      /\ timer'[x] = timer[x] /\ last'[x] = last[x]
    OBVIOUS
  <2>0. ThreadTypes /\ ContextTypes
    BY TypeParts DEF TableInv
  <2>1. state'[x] = state[x] /\ on'[x] = on[x] /\ session_id_coroutine'[x] = session_id_coroutine[x]
    BY <2>0 DEF ThreadTypes
  <2>2. watching_session'[x] = watching_session[x]
    <3>1. CASE how = "call"
      BY <2>0, <3>1 DEF ThreadTypes
    <3>2. CASE how # "call"
      BY <3>2
    <3> QED BY <3>1, <3>2
  <2>3. timer'[x] = timer[x] /\ last'[x] = last[x]
    BY <1>0, <2>0 DEF ContextTypes
  <2> QED BY <2>1, <2>2, <2>3
<1>7. /\ state[s] \in [Co -> {"free", "ready", "run", "call", "sleep", "wait"}]
      /\ on[s] \in [Co -> 0 .. MaxSession]
      /\ session_id_coroutine[s] \in [Sessions -> Co \cup {None, Break}]
      /\ watching_session[s] \in [Sessions -> Service \cup {None}]
      /\ timer[s] \subseteq Sessions /\ Due(s) \subseteq Sessions
      /\ ConnectedAt(s) /\ Box(s) /\ Timers(s) /\ Failing(s)
  BY LedgerFacts
<1>8. \A x \in Service : Due(x)' = Due(x)
  BY DEF Due
\* The other sessions of s are what they were.
<1>9. ASSUME NEW h \in Sessions, h # k
      PROVE  /\ Dozes(s, h)' <=> Dozes(s, h)
             /\ watching_session'[s][h] = watching_session[s][h]
             /\ session_id_coroutine'[s][h] = session_id_coroutine[s][h]
             /\ Timed(s, h) => Timed(s, h)'
  <2>1. session_id_coroutine[s][h] # c
    BY <1>7, SessionFacts DEF ConnectedAt
  <2>2. /\ watching_session'[s][h] = watching_session[s][h]
        /\ session_id_coroutine'[s][h] = session_id_coroutine[s][h]
    BY <1>5, <1>7, <1>9
  <2>3. Dozes(s, h)' <=> Dozes(s, h)
    BY <1>5, <1>7, <2>1, <2>2 DEF Dozes
  <2>4. h \in timer[s] => h \in timer'[s]
    BY <1>5
  <2>5. Alarm(h) \in Unread(s) => Alarm(h) \in Unread(s)'
    BY <1>3
  <2>6. Timed(s, h) => Timed(s, h)'
    BY <2>4, <2>5 DEF Timed, Alarm
  <2> QED BY <2>2, <2>3, <2>6
<1>10. Box(s)'
  <2>1. ASSUME NEW m \in Answers(s)' PROVE Good(s, m)'
    <3>1. m \in Answers(s) /\ Good(s, m) /\ m.session # k
      BY <1>1, <1>4, <2>1, LedgerFacts
    <3>2. CASE m.session = 0 /\ m.type = "error" /\ m.source \in Service /\ ~up[m.source]
      BY <3>2 DEF Good
    <3>3. CASE /\ m.session \in Sessions /\ m.source \in Service
               /\ watching_session[s][m.session] = m.source
               /\ answers[s][m.session] = 1 /\ m.session \notin Due(s)
      BY <3>1, <3>3, <1>8, <1>9 DEF Good
    <3>4. CASE /\ m.session \in Sessions /\ m.source = None /\ m.type = "response"
               /\ m.session \notin timer[s] /\ Dozes(s, m.session)
      <4>1. m.session \notin timer'[s]
        BY <3>1, <3>4, <1>5
      <4> QED BY <3>1, <3>4, <4>1, <1>9 DEF Good
    <3> QED BY <3>1, <3>2, <3>3, <3>4 DEF Good
  <2>2. Timers(s)'
    <3>1. \A h \in timer'[s] : Dozes(s, h)'
      <4> SUFFICES ASSUME NEW h \in timer'[s] PROVE Dozes(s, h)'
        OBVIOUS
      <4>1. CASE h = k /\ how \in {"sleep", "ready"}
        BY <4>1, <1>5, <1>7 DEF Dozes
      <4>2. CASE h # k \/ how \notin {"sleep", "ready"}
        <5>0. h \in timer[s]
          BY <4>2, <1>5, SMTT(30)
        <5>1. h \in timer[s] /\ h # k /\ h \in Sessions
          BY <5>0, <1>1, <1>7
        <5> QED BY <5>1, <1>7, <1>9 DEF Timers
      <4> QED BY <4>1, <4>2
    <3>2. ASSUME NEW h \in Sessions, session_id_coroutine'[s][h] = Break PROVE Timed(s, h)'
      <4>1. h # k
        BY <3>2, <1>5, <1>7, SessionFacts
      <4> QED BY <3>2, <4>1, <1>7, <1>9 DEF Timers
    <3>3. ASSUME NEW v \in Co, state'[s][v] = "sleep" PROVE Timed(s, on[s][v])'
      <4>1. CASE v = c
        <5>1. how = "sleep" /\ on'[s][v] = k
          BY <3>3, <4>1, <1>5, <1>7
        <5>2. k \in timer'[s]
          BY <5>1, <1>5
        <5> QED BY <5>1, <5>2 DEF Timed
      <4>2. CASE v # c
        <5>1. state[s][v] = "sleep" /\ on'[s][v] = on[s][v]
          BY <3>3, <4>2, <1>5, <1>7
        <5>2. PICK h : h = on[s][v]
          OBVIOUS
        <5>3. h \in Sessions /\ session_id_coroutine[s][h] = v /\ Timed(s, h)
          BY <5>1, <5>2, <1>7, SessionFacts DEF Timers, ConnectedAt
        <5>4. h # k
          BY <5>3, <1>1, SessionFacts
        <5>5. Timed(s, h)'
          BY <5>3, <5>4, <1>9
        <5> QED BY <5>1, <5>2, <5>5 DEF Timed
      <4> QED BY <4>1, <4>2
    <3>4. \A h \in Sessions : session_id_coroutine'[s][h] = Break => Timed(s, h)'
      BY <3>2
    <3>5. \A v \in Co : state'[s][v] = "sleep" => Timed(s, on[s][v])'
      BY <3>3
    <3> QED BY <3>1, <3>4, <3>5 DEF Timers
  <2>3. Failing(s)'
    <3>1. \A h \in Due(s) : h # k /\ h \in Sessions
      BY <1>1, <1>7
    <3> QED BY <3>1, <1>7, <1>8, <1>9 DEF Failing
  <2> QED BY <2>1, <2>2, <2>3 DEF Box
<1>11. ASSUME NEW x \in Service, x # s PROVE Box(x)' /\ Gone(x)'
  <2>1. /\ timer[x] \subseteq Sessions /\ Box(x) /\ ConnectedAt(x) /\ Gone(x)
        /\ on[x] \in [Co -> 0 .. MaxSession]
    BY LedgerFacts
  <2>2. ConnectedAt(x)'
    BY DEF TableInv, TableAt
  <2>3. /\ \A h \in Sessions : Dozes(x, h)' <=> Dozes(x, h)
        /\ \A v \in Co : state'[x][v] = "sleep"
              => state[x][v] = "sleep" /\ on'[x][v] = on[x][v] /\ on[x][v] \in Sessions
    BY <1>6, <1>11, <2>1, <2>2, SessionFacts, Quiet
  <2>4. Box(x)'
    BY <1>4, <1>6, <1>11, <2>1, <2>3, BoxKept
  <2>5. Gone(x)'
    BY <1>6, <1>11, <2>1 DEF Gone
  <2> QED BY <2>4, <2>5
<1>12. ASSUME NEW x \in Service PROVE (up[x] => QueueOK(mail'[x])) /\ Count(x)'
  <2>1. QueueOK(mail'[x]) \/ ~up[x]
    <3>1. PICK q \in Seq(Message) : q = mail[x]
      BY LedgerFacts
    <3>2. CASE mail'[x] = mail[x]
      BY <3>2, LedgerFacts
    <3>3. CASE mail'[x] = Append(mail[x], r) /\ x = d /\ up[d]
      <4>1. r \notin Unread(d)
        BY <1>1, <1>2, <3>3 DEF Token, Asked
      <4>2. QueueOK(q) /\ Fresh(q, r)
        BY <1>2, <3>1, <3>3, <4>1, LedgerFacts DEF Fresh, Unread
      <4> QED BY <3>1, <3>3, <4>2, QueueAppend
    <3>4. mail'[x] = mail[x] \/ (mail'[x] = Append(mail[x], r) /\ x = d /\ up[d])
      <4>1. CASE how = "call"
        <5>1. mail' = [mail EXCEPT ![d] = Append(mail[d], r)] /\ up[d]
          BY <1>0, <1>2, <4>1 DEF Post
        <5> QED BY <5>1 DEF TableInv, TypeOK
      <4>2. CASE how # "call"
        BY <4>2
      <4> QED BY <4>1, <4>2
    <3> QED BY <3>2, <3>3, <3>4
  <2>2. \A h \in Sessions : h > last'[x] => h > last[x]
    <3>1. last[x] \in Sessions /\ last[s] \in Sessions
      BY LedgerFacts
    <3>2. last'[x] = IF x = s THEN k ELSE last[x]
      BY <1>0 DEF TableInv, TypeOK
    <3> QED BY <1>0, <3>1, <3>2, SessionFacts
  <2>3. Count(x)'
    BY <2>2, LedgerFacts DEF Count
  <2> QED BY <2>1, <2>3
<1>13. ASSUME NEW x \in Service, NEW h \in Sessions, NEW y \in Service PROVE Duty(x, h, y)'
  <2>0. Duty(x, h, y)
    BY LedgerFacts
  <2>1. CASE ~(x = s /\ h = k)
    <3>1. Asked(x, h, y)' <=> Asked(x, h, y)
      BY <1>2, <1>3, <2>1 DEF Asked
    <3>2. watching_session'[x][h] = watching_session[x][h]
      BY <1>6, <1>9, <2>1
    <3> QED BY <1>8, <2>0, <3>1, <3>2, DutyKept DEF Owes
  <2>2. CASE x = s /\ h = k
    <3>1. Asked(s, k, y)' => Asked(s, k, y) \/ (y = d /\ how = "call")
      BY <1>3 DEF Asked
    <3>2. CASE up[y]
      <4>1. /\ ~Asked(s, k, y) /\ <<s, k>> \notin unresponse'[y]
            /\ \A v \in Co : ~Owes(y, v, s, k)'
        BY <1>1, <3>2 DEF Token, Owes
      <4>2. Token(s, k, y)' => watching_session'[s][k] = y
        <5>1. Token(s, k, y)' => y = d /\ how = "call"
          BY <3>1, <4>1 DEF Token
        <5>2. y = d /\ how = "call" => watching_session'[s][k] = y
          BY <1>5, <1>7
        <5> QED BY <5>1, <5>2
      <4> QED BY <1>1, <1>8, <2>2, <4>1, <4>2 DEF Duty, OneDuty
    <3>3. CASE ~up[y]
      <4>1. Asked(s, k, y)' => Asked(s, k, y)
        BY <3>1, <3>3
      <4>2. /\ Asked(s, k, y)' => (\A v \in Co : ~Owes(y, v, s, k)') /\ <<s, k>> \notin unresponse'[y]
            /\ \A v, w \in Co : Owes(y, v, s, k)' /\ Owes(y, w, s, k)' => v = w
            /\ \A v \in Co : Owes(y, v, s, k)' => <<s, k>> \notin unresponse'[y]
        BY <2>0, <2>2, <4>1 DEF Duty, OneDuty, Owes
      <4> QED BY <2>2, <3>3, <4>2 DEF Duty, OneDuty
    <3> QED BY <3>2, <3>3
  <2> QED BY <2>1, <2>2
<1>14. ASSUME NEW x \in Service, NEW h \in Sessions PROVE Cared(x, h)'
  <2>1. CASE ~(x = s /\ h = k)
    <3>1. watching_session'[x][h] = watching_session[x][h] /\ watching_session[x][h] \in Service \cup {None}
      BY <1>6, <1>9, <2>1, LedgerFacts
    <3>2. \A y \in Service : Token(x, h, y) => Token(x, h, y)'
      BY <1>3 DEF Token, Asked, Owes
    <3>3. \A y : Reply(x, h, y) => Reply(x, h, y)'
      BY <1>4 DEF Reply
    <3>4. Cared(x, h)
      BY LedgerFacts
    <3> QED BY <1>8, <3>1, <3>2, <3>3, <3>4, CaredKept
  <2>2. CASE x = s /\ h = k
    <3>1. CASE how = "call"
      <4>1. Asked(s, k, d)' /\ watching_session'[s][k] = d
        BY <3>1, <1>2, <1>3, <1>5, <1>7 DEF Asked
      <4>2. Token(s, k, d)'
        BY <4>1 DEF Token
      <4> QED BY <2>2, <4>1, <4>2 DEF Cared
    <3>2. CASE how # "call"
      BY <2>2, <3>2, <1>1, <1>5 DEF Cared
    <3> QED BY <3>1, <3>2
  <2> QED BY <2>1, <2>2
<1>15. Gone(s)'
  BY DEF Gone
<1> QED BY <1>10, <1>11, <1>12, <1>13, <1>14, <1>15 DEF LedgerInv, LedgerAt

LEMMA BeginStep ==
    ASSUME Numbered, TableInv, TableInv', LedgerInv, NEW s \in Service, NEW c \in Co,
           \/ Sleep(s, c) \/ Wait(s, c) \/ \E v \in Co : Timeout(s, c, v)
           \/ \E d \in Service : Call(s, c, d) /\ up[d]
    PROVE  LedgerInv'
<1>0. /\ ControlAt(s) /\ timer \in [Service -> SUBSET Sessions]
      /\ TypeOK /\ UnusedAt(s)
  BY LedgerFacts DEF TableInv, TypeOK
<1>1. up[s]
  BY <1>0 DEF Sleep, Wait, Timeout, Call, Does, ControlAt
<1>2. phase[s] = "run" /\ running[s] = c => on[s][c] = 0
  BY <1>0 DEF ControlAt
<1>3. NewSession(s) =>
          [watching_session EXCEPT ![s][last'[s]] = None] = watching_session
  <2> SUFFICES ASSUME NewSession(s)
               PROVE  [watching_session EXCEPT ![s][last'[s]] = None] = watching_session
    OBVIOUS
  <2>1. PICK k \in Sessions : k = last'[s] /\ k = last[s] + 1 /\ last[s] \in Sessions
    BY <1>0, NewTypes
  <2>2. watching_session[s][k] = None
    BY <1>0, <2>1, SessionFacts DEF UnusedAt
  <2> QED BY <1>0, <2>1, <2>2 DEF TypeOK
<1>4. CASE Sleep(s, c)
  BY <1>0, <1>1, <1>2, <1>3, <1>4, BeginLedger
     DEF Sleep, Does, Park, duties, pending, history
<1>5. CASE Wait(s, c)
  BY <1>0, <1>1, <1>2, <1>3, <1>5, BeginLedger
     DEF Wait, Does, Park, duties, pending, history
<1>6. ASSUME NEW v \in Co, Timeout(s, c, v) PROVE LedgerInv'
  <2>1. on[s][v] = 0
    BY <1>0, <1>6 DEF Timeout, Free, ControlAt
  <2> QED BY <1>0, <1>1, <1>6, <2>1, BeginLedger DEF Timeout, duties, pending, history
<1>7. ASSUME NEW d \in Service, Call(s, c, d), up[d] PROVE LedgerInv'
  BY <1>0, <1>1, <1>2, <1>7, BeginLedger DEF Call, Does, Park, duties, pending, history
<1> QED BY <1>4, <1>5, <1>6, <1>7

-----------------------------------------------------------------------------
(***************************************************************************)
(* A session ends: an answer, a timeout, a wakeup or an error came for it. *)
(***************************************************************************)
LEMMA EndLedger ==
    ASSUME Numbered, TableInv, TableInv', LedgerInv, NEW s \in Service, up[s], NEW k \in Sessions,
           NEW rest \in {None, Break},
           session_id_coroutine' = [session_id_coroutine EXCEPT ![s][k] = rest],
           watching_session' = [watching_session EXCEPT ![s][k] = None],
           \A x \in Service : x # s => Row(x)' = Row(x) /\ mail'[x] = mail[x],
           \A v \in Co : on[s][v] \notin {0, k} => state'[s][v] = state[s][v] /\ on'[s][v] = on[s][v],
           \A v \in Co : state'[s][v] = "sleep" => on[s][v] \notin {0, k},
           rest = Break => watching_session[s][k] = None /\ (k \in timer[s] \/ Alarm(k) \in Unread(s)'),
           k \in timer[s] => rest = Break,
           Answers(s)' \subseteq Answers(s),
           \A m \in Answers(s)' : m.session = k => rest = Break,
           \A m \in Answers(s) : m.session # k => m \in Answers(s)',
           \A x \in Service, h \in Sessions : Asked(x, h, s)' <=> Asked(x, h, s),
           QueueOK(mail'[s]), ~broken'[s],
           \A i, j \in DOMAIN error_queue'[s] : error_queue'[s][i] = error_queue'[s][j] => i = j,
           k \notin Due(s)', \A h \in Sessions : h # k => (h \in Due(s)' <=> h \in Due(s)),
           Due(s)' \subseteq Sessions,
           \A d \in Service : up[d] => ~Token(s, k, d),
           UNCHANGED <<up, last, timer, answers, session_coroutine_id, session_coroutine_address,
                       unresponse, forgotten>>
    PROVE  LedgerInv'
<1>1. /\ session_id_coroutine'[s] = [session_id_coroutine[s] EXCEPT ![k] = rest]
      /\ watching_session'[s] = [watching_session[s] EXCEPT ![k] = None]
  BY DEF TableInv, TypeOK
<1>2. /\ state[s] \in [Co -> {"free", "ready", "run", "call", "sleep", "wait"}]
      /\ on[s] \in [Co -> 0 .. MaxSession]
      /\ session_id_coroutine[s] \in [Sessions -> Co \cup {None, Break}]
      /\ watching_session[s] \in [Sessions -> Service \cup {None}]
      /\ timer[s] \subseteq Sessions
      /\ ConnectedAt(s) /\ Box(s) /\ Timers(s) /\ Failing(s)
  BY LedgerFacts
<1>3. ASSUME NEW h \in Sessions, h # k
      PROVE  /\ Dozes(s, h)' <=> Dozes(s, h)
             /\ watching_session'[s][h] = watching_session[s][h]
             /\ session_id_coroutine'[s][h] = session_id_coroutine[s][h]
             /\ Timed(s, h) => Timed(s, h)'
  <2>1. /\ watching_session'[s][h] = watching_session[s][h]
        /\ session_id_coroutine'[s][h] = session_id_coroutine[s][h]
    BY <1>1, <1>2, <1>3
  <2>2. session_id_coroutine[s][h] \in Co =>
            state'[s][session_id_coroutine[s][h]] = state[s][session_id_coroutine[s][h]]
    BY <1>2, <1>3, SessionFacts DEF ConnectedAt
  <2>3. Dozes(s, h)' <=> Dozes(s, h)
    BY <2>1, <2>2 DEF Dozes
  <2>4. Alarm(h) \in Unread(s) => Alarm(h) \in Unread(s)'
    <3>1. Alarm(h).session = h /\ Alarm(h).type # "request"
      BY DEF Alarm
    <3> QED BY <1>3, <3>1 DEF Answers, Alarm
  <2>5. Timed(s, h) => Timed(s, h)'
    BY <2>4 DEF Timed, Alarm
  <2> QED BY <2>1, <2>3, <2>5
<1>4. Box(s)'
  <2>1. ASSUME NEW m \in Answers(s)' PROVE Good(s, m)'
    <3>1. m \in Answers(s) /\ Good(s, m) /\ (m.session = k => rest = Break)
      BY <2>1, LedgerFacts
    <3>2. CASE m.session = 0 /\ m.type = "error" /\ m.source \in Service /\ ~up[m.source]
      BY <3>2 DEF Good
    <3>3. CASE /\ m.session \in Sessions /\ m.source \in Service
               /\ watching_session[s][m.session] = m.source
               /\ answers[s][m.session] = 1 /\ m.session \notin Due(s)
      <4>1. m.session # k
        BY <3>1, <3>3, SessionFacts
      <4> QED BY <3>3, <4>1, <1>3 DEF Good
    <3>4. CASE /\ m.session \in Sessions /\ m.source = None /\ m.type = "response"
               /\ m.session \notin timer[s] /\ Dozes(s, m.session)
      <4>1. CASE m.session # k
        BY <3>4, <4>1, <1>3 DEF Good
      <4>2. CASE m.session = k
        <5>1. session_id_coroutine'[s][k] = Break
          BY <3>1, <4>2, <1>1, <1>2
        <5> QED BY <3>4, <4>2, <5>1 DEF Good, Dozes
      <4> QED BY <4>1, <4>2
    <3> QED BY <3>1, <3>2, <3>3, <3>4 DEF Good
  <2>2. Timers(s)'
    <3>1. ASSUME NEW h \in timer'[s] PROVE Dozes(s, h)'
      <4>0. h \in timer[s] /\ h \in Sessions /\ timer' = timer
        BY <3>1, <1>2
      <4>1. CASE h # k
        BY <4>0, <4>1, <1>2, <1>3 DEF Timers
      <4>2. CASE h = k
        BY <4>0, <4>2, <1>1, <1>2 DEF Dozes
      <4> QED BY <4>1, <4>2
    <3>2. ASSUME NEW h \in Sessions, session_id_coroutine'[s][h] = Break PROVE Timed(s, h)'
      <4>1. CASE h # k
        BY <3>2, <4>1, <1>2, <1>3 DEF Timers
      <4>2. CASE h = k
        <5>1. rest = Break
          BY <3>2, <4>2, <1>1, <1>2
        <5> QED BY <4>2, <5>1 DEF Timed, Alarm
      <4> QED BY <4>1, <4>2
    <3>3. ASSUME NEW v \in Co, state'[s][v] = "sleep" PROVE Timed(s, on[s][v])'
      <4>1. on[s][v] \notin {0, k}
        BY <3>3
      <4>2. state[s][v] = "sleep" /\ on'[s][v] = on[s][v]
        BY <3>3, <4>1
      <4>3. PICK h : h = on[s][v]
        OBVIOUS
      <4>4. h \in Sessions /\ h # k /\ Timed(s, h)
        BY <4>1, <4>2, <4>3, <1>2, SessionFacts DEF Timers
      <4>5. Timed(s, h)'
        BY <4>4, <1>3
      <4> QED BY <4>2, <4>3, <4>5 DEF Timed
    <3> QED BY <3>1, <3>2, <3>3 DEF Timers
  <2>3. Failing(s)'
    <3>1. ASSUME NEW h \in Due(s)' PROVE watching_session'[s][h] # None
      <4>1. h # k /\ h \in Due(s) /\ h \in Sessions
        BY <3>1
      <4> QED BY <4>1, <1>2, <1>3 DEF Failing
    <3> QED BY <3>1 DEF Failing
  <2> QED BY <2>1, <2>2, <2>3 DEF Box
<1>5. ASSUME NEW x \in Service, x # s
      PROVE  /\ state'[x] = state[x] /\ on'[x] = on[x] /\ session_id_coroutine'[x] = session_id_coroutine[x]
             /\ watching_session'[x] = watching_session[x] /\ error_queue'[x] = error_queue[x]
             /\ broken'[x] = broken[x] /\ Due(x)' = Due(x) /\ Answers(x)' = Answers(x)
             /\ mail'[x] = mail[x] /\ Unread(x)' = Unread(x)
  BY <1>5 DEF Row, Due, Answers, Unread
<1>6. ASSUME NEW x \in Service, x # s PROVE Box(x)' /\ Gone(x)'
  <2>1. /\ timer[x] \subseteq Sessions /\ Box(x) /\ ConnectedAt(x) /\ Gone(x)
        /\ on[x] \in [Co -> 0 .. MaxSession]
    BY LedgerFacts
  <2>2. ConnectedAt(x)'
    BY DEF TableInv, TableAt
  <2>3. /\ \A h \in Sessions : Dozes(x, h)' <=> Dozes(x, h)
        /\ \A v \in Co : state'[x][v] = "sleep"
              => state[x][v] = "sleep" /\ on'[x][v] = on[x][v] /\ on[x][v] \in Sessions
    BY <1>5, <1>6, <2>1, <2>2, SessionFacts, Quiet
  <2>4. Box(x)'
    BY <1>5, <1>6, <2>1, <2>3, BoxKept
  <2>5. Gone(x)'
    BY <1>5, <1>6, <2>1 DEF Gone
  <2> QED BY <2>4, <2>5
<1>7. ASSUME NEW x \in Service PROVE (up[x] => QueueOK(mail'[x])) /\ Count(x)'
  BY <1>5, LedgerFacts DEF Count
<1>8. \A x \in Service : \A h \in Sessions : ~(x = s /\ h = k) =>
          watching_session'[x][h] = watching_session[x][h] /\ (h \in Due(x)' <=> h \in Due(x))
  BY <1>3, <1>5
<1>9. \A x, y \in Service, h \in Sessions : Asked(x, h, y)' <=> Asked(x, h, y)
  BY <1>5 DEF Asked
<1>10. ASSUME NEW x \in Service, NEW h \in Sessions, NEW y \in Service PROVE Duty(x, h, y)'
  <2>0. Duty(x, h, y)
    BY LedgerFacts
  <2>1. CASE ~(x = s /\ h = k)
    BY <1>8, <1>9, <2>0, <2>1, DutyKept DEF Owes
  <2>2. CASE x = s /\ h = k
    <3>1. Token(s, k, y)' => Token(s, k, y)
      BY <1>9 DEF Token, Owes
    <3> QED BY <1>9, <2>0, <2>2, <3>1 DEF Duty, OneDuty, Owes
  <2> QED BY <2>1, <2>2
<1>11. ASSUME NEW x \in Service, NEW h \in Sessions PROVE Cared(x, h)'
  <2>1. CASE ~(x = s /\ h = k)
    <3>1. watching_session'[x][h] = watching_session[x][h] /\ watching_session[x][h] \in Service \cup {None}
      BY <1>8, <2>1, LedgerFacts
    <3>2. \A y \in Service : Token(x, h, y) => Token(x, h, y)'
      BY <1>9 DEF Token, Owes
    <3>3. \A y : Reply(x, h, y) => Reply(x, h, y)'
      <4>1. CASE x = s
        <5>1. \A m \in Answers(s) : m.session \in {0, h} => m \in Answers(s)'
          BY <2>1, <4>1, SessionFacts
        <5> QED BY <4>1, <5>1 DEF Reply
      <4>2. CASE x # s
        BY <4>2, <1>5 DEF Reply
      <4> QED BY <4>1, <4>2
    <3>4. Cared(x, h)
      BY LedgerFacts
    <3> QED BY <1>8, <2>1, <3>1, <3>2, <3>3, <3>4, CaredKept
  <2>2. CASE x = s /\ h = k
    BY <2>2, <1>1, <1>2 DEF Cared
  <2> QED BY <2>1, <2>2
<1>12. Gone(s)'
  BY DEF Gone
<1> QED BY <1>4, <1>6, <1>7, <1>10, <1>11, <1>12 DEF LedgerInv, LedgerAt

LEMMA ResumeLedger ==
    ASSUME Numbered, TableInv, TableInv', LedgerInv, NEW s \in Service, up[s], NEW k \in Sessions,
           NEW rest \in {None, Break}, NEW c \in Co, on[s][c] = k, Resume(s, c, k, rest),
           \A x \in Service : x # s => Row(x)' = Row(x) /\ mail'[x] = mail[x],
           rest = Break => watching_session[s][k] = None /\ (k \in timer[s] \/ Alarm(k) \in Unread(s)'),
           k \in timer[s] => rest = Break,
           Answers(s)' \subseteq Answers(s),
           \A m \in Answers(s)' : m.session = k => rest = Break,
           \A m \in Answers(s) : m.session # k => m \in Answers(s)',
           \A x \in Service, h \in Sessions : Asked(x, h, s)' <=> Asked(x, h, s),
           QueueOK(mail'[s]), ~broken'[s],
           \A i, j \in DOMAIN error_queue'[s] : error_queue'[s][i] = error_queue'[s][j] => i = j,
           k \notin Due(s)', \A h \in Sessions : h # k => (h \in Due(s)' <=> h \in Due(s)),
           Due(s)' \subseteq Sessions,
           \A d \in Service : up[d] => ~Token(s, k, d),
           UNCHANGED <<up, last, timer, answers, session_coroutine_id, session_coroutine_address,
                       unresponse, forgotten>>
    PROVE  LedgerInv'
<1>1. /\ session_id_coroutine' = [session_id_coroutine EXCEPT ![s][k] = rest]
      /\ watching_session' = [watching_session EXCEPT ![s][k] = None]
      /\ state'[s] = [state[s] EXCEPT ![c] = "run"] /\ on'[s] = [on[s] EXCEPT ![c] = 0]
  BY DEF Resume, TableInv, TypeOK
<1>2. /\ state[s] \in [Co -> {"free", "ready", "run", "call", "sleep", "wait"}]
      /\ on[s] \in [Co -> 0 .. MaxSession] /\ ConnectedAt(s)
  BY LedgerFacts
<1>3. \A v \in Co : on[s][v] \notin {0, k} => state'[s][v] = state[s][v] /\ on'[s][v] = on[s][v]
  BY <1>1, <1>2
<1>4. \A v \in Co : state'[s][v] = "sleep" => on[s][v] \notin {0, k}
  <2> SUFFICES ASSUME NEW v \in Co, state'[s][v] = "sleep" PROVE on[s][v] \notin {0, k}
    OBVIOUS
  <2>1. v # c /\ state[s][v] = "sleep"
    BY <1>1, <1>2
  <2>2. on[s][v] # 0 /\ session_id_coroutine[s][on[s][v]] = v /\ session_id_coroutine[s][k] = c
    BY <2>1, <1>2, SessionFacts DEF ConnectedAt
  <2> QED BY <2>1, <2>2
<1>5. /\ session_id_coroutine' = [session_id_coroutine EXCEPT ![s][k] = rest]
      /\ watching_session' = [watching_session EXCEPT ![s][k] = None]
  BY <1>1
<1> QED BY <1>3, <1>4, <1>5, EndLedger, ZenonT(60)

LEMMA WakeupLedger ==
    ASSUME Numbered, TableInv, TableInv', LedgerInv, NEW s \in Service, DispatchWakeup(s), ~(UNCHANGED threads)
    PROVE  LedgerInv'
<1>0. /\ wakeup_queue[s] \in Seq(Co) /\ sleep_session[s] \in [Co -> Sessions \cup {None}] /\ TypeOK
      /\ wakeup_queue[s] # <<>> /\ phase[s] = "wakeup"
  BY DEF TableInv, TypeOK, DispatchWakeup
<1>1. PICK c \in Co : c = Head(wakeup_queue[s])
  BY <1>0
<1>2. PICK k : k = sleep_session[s][c]
  OBVIOUS
<1>3. k # None /\ Resume(s, session_id_coroutine[s][k], k, IF state[s][c] = "wait" THEN None ELSE Break)
      /\ UNCHANGED <<context, mail, duties, error_queue, fork_queue, history>>
  BY <1>1, <1>2 DEF DispatchWakeup
<1>4. /\ up[s] /\ ConnectedAt(s) /\ Timers(s) /\ Failing(s) /\ Due(s) \subseteq Sessions
      /\ on[s] \in [Co -> 0 .. MaxSession] /\ QueueOK(mail[s])
  BY <1>0, LedgerFacts DEF ControlAt
<1>5. /\ k \in Sessions /\ on[s][c] = k /\ session_id_coroutine[s][k] = c
      /\ state[s][c] \in {"sleep", "wait"} /\ watching_session[s][k] = None
  BY <1>0, <1>2, <1>3, <1>4, SessionFacts DEF ConnectedAt
<1>6. PICK rest \in {None, Break} : rest = IF state[s][c] = "wait" THEN None ELSE Break
  OBVIOUS
<1>7. /\ rest = Break => Timed(s, k)
      /\ rest = None => state[s][c] = "wait" /\ ~Dozes(s, k)
  <2>1. None # Break
    BY SessionFacts
  <2>2. rest = Break => state[s][c] = "sleep"
    BY <1>5, <1>6, <2>1
  <2>3. rest = None => state[s][c] = "wait"
    BY <1>6, <2>1
  <2> QED BY <1>4, <1>5, <2>2, <2>3, SessionFacts DEF Timers, Dozes
<1>8. k \in timer[s] => rest = Break
  BY <1>4, <1>7 DEF Timers
<1>9. \A m \in Answers(s) : m.session = k => rest = Break
  <2> SUFFICES ASSUME NEW m \in Answers(s), m.session = k, rest = None PROVE FALSE
    OBVIOUS
  <2>1. Good(s, m) /\ ~Dozes(s, k) /\ None \notin Service /\ k # 0
    BY <1>4, <1>5, <1>7, LedgerFacts, SessionFacts
  <2> QED BY <2>1, <1>5 DEF Good
<1>10. k \notin Due(s) /\ \A d \in Service : up[d] => ~Token(s, k, d)
  <2>1. \A d \in Service : Duty(s, k, d) /\ d # None
    BY <1>5, LedgerFacts, SessionFacts
  <2> QED BY <1>4, <1>5, <2>1 DEF Failing, Duty, OneDuty
<1>11. /\ \A x : Unread(x)' = Unread(x) /\ Answers(x)' = Answers(x) /\ Due(x)' = Due(x)
       /\ \A x, h : Asked(x, h, s)' <=> Asked(x, h, s)
  BY <1>3 DEF Unread, Answers, Due, Asked
<1>12. \A x \in Service : x # s => Row(x)' = Row(x) /\ mail'[x] = mail[x]
  BY <1>0, <1>3, OtherRows DEF Scheduler
<1>13. /\ Resume(s, c, k, rest) /\ ~broken'[s]
       /\ \A i, j \in DOMAIN error_queue'[s] : error_queue'[s][i] = error_queue'[s][j] => i = j
       /\ QueueOK(mail'[s])
       /\ UNCHANGED <<up, last, timer, answers, session_coroutine_id, session_coroutine_address,
                      unresponse, forgotten>>
  BY <1>3, <1>4, <1>5, <1>6 DEF Failing, context, duties, history
<1>14. rest = Break => watching_session[s][k] = None /\ (k \in timer[s] \/ Alarm(k) \in Unread(s)')
  BY <1>5, <1>7, <1>11 DEF Timed
<1> QED BY <1>4, <1>5, <1>8, <1>9, <1>10, <1>11, <1>12, <1>13, <1>14, ResumeLedger

LEMMA ErrorQueueLedger ==
    ASSUME Numbered, TableInv, TableInv', LedgerInv, NEW s \in Service, DispatchErrorQueue(s)
    PROVE  LedgerInv'
<1>0. /\ error_queue[s] \in Seq(Sessions) /\ error_queue[s] # <<>> /\ phase[s] = "wakeup" /\ TypeOK
      /\ error_queue' = [error_queue EXCEPT ![s] = Tail(error_queue[s])]
      /\ UNCHANGED <<context, mail, duties, wakeup_queue, fork_queue, answers, forgotten>>
  BY DEF TableInv, TypeOK, DispatchErrorQueue
<1>1. PICK k \in Sessions : k = Head(error_queue[s])
  BY <1>0
<1>2. PICK q \in Seq(Sessions) : q = error_queue[s]
  BY <1>0
<1>3. /\ up[s] /\ ConnectedAt(s) /\ Timers(s) /\ Failing(s) /\ Due(s) \subseteq Sessions
      /\ on[s] \in [Co -> 0 .. MaxSession] /\ QueueOK(mail[s])
  BY <1>0, LedgerFacts DEF ControlAt
<1>4. /\ ToSet(q) = ToSet(Tail(q)) \cup {k} /\ Tail(q) \in Seq(Sessions)
      /\ q[1] = k /\ DOMAIN Tail(q) = 1 .. Len(q) - 1 /\ DOMAIN q = 1 .. Len(q) /\ 1 \in DOMAIN q
      /\ \A i \in DOMAIN Tail(q) : i + 1 \in DOMAIN q /\ Tail(q)[i] = q[i + 1]
  BY <1>0, <1>1, <1>2, SeqTail
<1>5. Due(s) = ToSet(q) /\ Due(s)' = ToSet(Tail(q)) /\ error_queue'[s] = Tail(q)
  BY <1>0, <1>2 DEF Due, TableInv, TypeOK
<1>6. \A i, j \in DOMAIN q : q[i] = q[j] => i = j
  BY <1>2, <1>3 DEF Failing
<1>7. k \notin Due(s)' /\ k \in Due(s) /\ \A h \in Sessions : h # k => (h \in Due(s)' <=> h \in Due(s))
  <2>1. k \notin ToSet(Tail(q))
    <3> SUFFICES ASSUME NEW i \in DOMAIN Tail(q), Tail(q)[i] = k PROVE FALSE
      BY DEF ToSet
    <3>1. i + 1 \in DOMAIN q /\ q[i + 1] = k /\ i + 1 # 1
      BY <1>4
    <3> QED BY <1>4, <1>6, <3>1
  <2> QED BY <1>4, <1>5, <2>1
<1>8. \A i, j \in DOMAIN error_queue'[s] : error_queue'[s][i] = error_queue'[s][j] => i = j
  <2> SUFFICES ASSUME NEW i \in DOMAIN Tail(q), NEW j \in DOMAIN Tail(q), Tail(q)[i] = Tail(q)[j]
               PROVE  i = j
    BY <1>5
  <2>1. i + 1 = j + 1
    BY <1>4, <1>6
  <2> QED BY <2>1, <1>4
<1>9. PICK c \in Co : c = session_id_coroutine[s][k] /\ on[s][c] = k /\ state[s][c] = "call"
  BY <1>3, <1>7 DEF Failing, ConnectedAt
<1>10. ~Dozes(s, k)
  BY <1>9, SessionFacts DEF Dozes
<1>11. k \notin timer[s]
  BY <1>3, <1>10 DEF Timers
<1>12. \A m \in Answers(s) : m.session # k
  BY <1>3, <1>7, <1>10, LedgerFacts, SessionFacts, SMTT(30) DEF Good
<1>13. \A d \in Service : up[d] => ~Token(s, k, d)
  BY <1>3, <1>7, LedgerFacts DEF Duty, OneDuty
<1>14. /\ \A x : Unread(x)' = Unread(x) /\ Answers(x)' = Answers(x)
       /\ \A x, h : Asked(x, h, s)' <=> Asked(x, h, s)
  BY <1>0 DEF Unread, Answers, Asked
<1>15. \A x \in Service : x # s => Row(x)' = Row(x) /\ mail'[x] = mail[x]
  BY <1>0, OtherRows DEF Scheduler
<1>16. Resume(s, c, k, None) /\ UNCHANGED broken
  BY <1>1, <1>9 DEF DispatchErrorQueue
<1>17. /\ ~broken'[s] /\ QueueOK(mail'[s]) /\ Due(s)' \subseteq Sessions
       /\ UNCHANGED <<up, last, timer, answers, session_coroutine_id, session_coroutine_address,
                      unresponse, forgotten>>
  <2>1. \A h \in Due(s)' : h \in Due(s)
    BY <1>4, <1>5
  <2> QED BY <1>0, <1>3, <1>16, <2>1 DEF Failing, context, duties
<1> QED BY <1>3, <1>7, <1>8, <1>9, <1>11, <1>12, <1>13, <1>14, <1>15, <1>16, <1>17, SessionFacts, ResumeLedger

LEMMA ResponseLedger ==
    ASSUME Numbered, TableInv, TableInv', LedgerInv, NEW s \in Service, DispatchResponse(s)
    PROVE  LedgerInv'
<1>0. /\ mail[s] \in Seq(Message) /\ mail[s] # <<>> /\ phase[s] = "idle" /\ TypeOK
      /\ Head(mail[s]).type = "response" /\ mail' = [mail EXCEPT ![s] = Tail(mail[s])]
      /\ UNCHANGED <<context, duties, pending, history>>
  BY DEF TableInv, TypeOK, DispatchResponse, HeadIs
<1>1. PICK m : m = Head(mail[s])
  OBVIOUS
<1>2. PICK q \in Seq(Message) : q = mail[s]
  BY <1>0
<1>3. /\ up[s] /\ ConnectedAt(s) /\ Timers(s) /\ Failing(s) /\ QueueOK(mail[s])
      /\ on[s] \in [Co -> 0 .. MaxSession] /\ error_queue[s] = <<>>
      /\ session_id_coroutine[s] \in [Sessions -> Co \cup {None, Break}]
  BY <1>0, LedgerFacts DEF ControlAt, DrainsAt, Handled, Failing
<1>4. /\ ToSet(q) = ToSet(Tail(q)) \cup {m} /\ Tail(q) \in Seq(Message) /\ m \in Message
      /\ Unread(s) = ToSet(q) /\ Unread(s)' = ToSet(Tail(q)) /\ mail'[s] = Tail(q)
  <2>1. mail'[s] = Tail(q)
    BY <1>0, <1>2 DEF TypeOK
  <2> QED BY <1>0, <1>1, <1>2, <2>1, SeqTail DEF Unread
<1>5. m.type = "response" /\ m \in Answers(s)
  BY <1>0, <1>1, <1>4 DEF Answers
<1>6. Good(s, m)
  BY <1>3, <1>5, LedgerFacts
<1>7. PICK k \in Sessions : k = m.session
  BY <1>5, <1>6 DEF Good
<1>8. /\ QueueOK(Tail(q)) /\ \A a \in ToSet(Tail(q)) : a.type # "request" => a.session # k
  <2>1. k # 0
    BY SessionFacts
  <2> QED BY <1>0, <1>1, <1>2, <1>3, <1>5, <1>7, <2>1, QueueTail
<1>9. /\ Answers(s)' \subseteq Answers(s) /\ \A a \in Answers(s)' : a.session # k
      /\ \A a \in Answers(s) : a.session # k => a \in Answers(s)'
      /\ \A x, h : Asked(x, h, s)' <=> Asked(x, h, s)
  BY <1>4, <1>5, <1>7, <1>8 DEF Answers, Asked
\* Either it is the answer to a call, or it is a timeout.
<1>10. \/ watching_session[s][k] # None /\ answers[s][k] = 1 /\ ~Dozes(s, k)
       \/ watching_session[s][k] = None /\ k \notin timer[s] /\ Dozes(s, k)
  <2>1. watching_session[s][k] # None => session_id_coroutine[s][k] \in Co /\ ~Dozes(s, k)
    BY <1>3, SessionFacts DEF ConnectedAt, Dozes
  <2> QED BY <1>5, <1>6, <1>7, <2>1, SessionFacts DEF Good
<1>11. k \notin timer[s]
  BY <1>3, <1>10 DEF Timers
<1>12. \A d \in Service : up[d] => ~Token(s, k, d)
  <2>1. \A d \in Service : Duty(s, k, d) /\ d # None
    BY LedgerFacts, SessionFacts
  <2> QED BY <1>3, <1>10, <2>1 DEF Duty, OneDuty
<1>13. /\ Due(s)' = {} /\ Due(s) = {} /\ error_queue'[s] = <<>>
  BY <1>0, <1>3 DEF Due, ToSet, pending
<1>14. \A x \in Service : x # s => Row(x)' = Row(x) /\ mail'[x] = mail[x]
  BY <1>0, OtherRows DEF Scheduler, TypeOK
<1>15. /\ QueueOK(mail'[s]) /\ ~broken'[s]
       /\ \A i, j \in DOMAIN error_queue'[s] : error_queue'[s][i] = error_queue'[s][j] => i = j
       /\ UNCHANGED <<up, last, timer, answers, session_coroutine_id, session_coroutine_address,
                      unresponse, forgotten>>
  BY <1>0, <1>3, <1>4, <1>8, <1>13 DEF Failing, context, duties, history
<1>16. PICK co \in Co \cup {Break} : co = session_id_coroutine[s][k]
  <2>1. watching_session[s][k] # None => session_id_coroutine[s][k] \in Co
    BY <1>3 DEF ConnectedAt
  <2> QED BY <1>10, <2>1 DEF Dozes
<1>17. CASE co \in Co /\ Resume(s, co, k, None)
  <2>1. on[s][co] = k
    BY <1>3, <1>16, <1>17 DEF ConnectedAt
  <2> QED BY <1>3, <1>9, <1>11, <1>12, <1>13, <1>14, <1>15, <1>17, <2>1, SessionFacts, ResumeLedger
<1>18. CASE /\ co \in {Break, None}
            /\ session_id_coroutine' = [session_id_coroutine EXCEPT ![s][k] = None]
            /\ UNCHANGED <<state, on, watching_session, sleep_session>>
  <2>1. co = Break /\ Break \notin Co
    BY <1>16, <1>18, SessionFacts
  <2>2. watching_session[s][k] = None
    <3>1. watching_session[s][k] # None => session_id_coroutine[s][k] \in Co
      BY <1>3 DEF ConnectedAt
    <3> QED BY <1>16, <2>1, <3>1
  <2>3. watching_session' = [watching_session EXCEPT ![s][k] = None]
    BY <1>0, <1>18, <2>2 DEF TypeOK
  <2>4. \A v \in Co : state'[s][v] = "sleep" => on[s][v] \notin {0, k}
    <3> SUFFICES ASSUME NEW v \in Co, state[s][v] = "sleep" PROVE on[s][v] \notin {0, k}
      BY <1>18
    <3>1. on[s][v] # 0 /\ session_id_coroutine[s][on[s][v]] = v
      BY <1>3 DEF ConnectedAt
    <3>2. on[s][v] # k
      BY <3>1, <1>16, <2>1
    <3> QED BY <3>1, <3>2
  <2> QED BY <1>3, <1>9, <1>11, <1>12, <1>13, <1>14, <1>15, <1>18, <2>3, <2>4, SessionFacts, EndLedger
<1> QED BY <1>1, <1>7, <1>16, <1>17, <1>18 DEF DispatchResponse


-----------------------------------------------------------------------------
(***************************************************************************)
(* A duty goes from hand to hand: from the queue to a coroutine, from there *)
(* to a closure, or it is forgotten.                                       *)
(***************************************************************************)
LEMMA ShiftLedger ==
    ASSUME Numbered, TableInv, TableInv', LedgerInv,
           UNCHANGED <<up, timer, last, session_id_coroutine, watching_session, on, error_queue, answers, broken>>,
           \A x \in Service : /\ \A c \in Co : on[x][c] # 0 => state'[x][c] = state[x][c]
                              /\ ~up[x] => /\ state'[x] = state[x] /\ unresponse'[x] = unresponse[x]
                                           /\ session_coroutine_id'[x] = session_coroutine_id[x]
                              /\ up[x] => QueueOK(mail'[x])
                              /\ Answers(x)' = Answers(x),
           forgotten \subseteq forgotten',
           \A x, y \in Service : \A k \in Sessions :
               /\ Token(x, k, y)' => Token(x, k, y)
               /\ up[x] /\ Token(x, k, y) => Token(x, k, y)' \/ <<x, k>> \in forgotten'
               /\ OneDuty(x, k, y)'
    PROVE  LedgerInv'
<1>0. SUFFICES ASSUME NEW s \in Service PROVE LedgerAt(s)'
  BY DEF LedgerInv
<1>1. /\ \A k \in Sessions : Dozes(s, k)' <=> Dozes(s, k)
      /\ \A c \in Co : state'[s][c] = "sleep"
            => state[s][c] = "sleep" /\ on'[s][c] = on[s][c] /\ on[s][c] \in Sessions
  <2>1. ConnectedAt(s)'
    BY DEF TableInv, TableAt
  <2>2. ConnectedAt(s) /\ on[s] \in [Co -> 0 .. MaxSession]
    BY LedgerFacts
  <2> QED BY <2>1, <2>2, SessionFacts, Quiet
<1>2. Box(s)'
  <2>1. timer[s] \subseteq Sessions /\ Box(s)
    BY LedgerFacts
  <2> QED BY <1>1, <2>1, BoxKept
<1>3. Count(s)'
  BY LedgerFacts DEF Count
<1>4. Gone(s)'
  BY LedgerFacts DEF Gone
<1>5. Due(s)' = Due(s)
  BY DEF Due
<1>6. ASSUME NEW k \in Sessions PROVE Cared(s, k)'
  <2>1. \A d : Reply(s, k, d)' <=> Reply(s, k, d)
    BY DEF Reply
  <2>2. /\ watching_session[s][k] \in Service \cup {None} /\ Cared(s, k)
        /\ watching_session[s][k] # None => up[s]
    BY LedgerFacts DEF Gone
  <2> QED BY <1>5, <2>1, <2>2 DEF Cared
<1>7. ASSUME NEW k \in Sessions, NEW d \in Service PROVE Duty(s, k, d)'
  <2>1. Duty(s, k, d) /\ OneDuty(s, k, d)' /\ (Token(s, k, d)' => Token(s, k, d))
    BY LedgerFacts
  <2>2. (up[s] /\ up[d] /\ Token(s, k, d) =>
            watching_session[s][k] = d /\ answers[s][k] = 0 /\ k \notin Due(s))'
    BY <1>5, <2>1 DEF Duty, OneDuty
  <2> QED BY <2>1, <2>2 DEF Duty, OneDuty
<1> QED BY <1>2, <1>3, <1>4, <1>6, <1>7 DEF LedgerAt

LEMMA RequestLedger ==
    ASSUME Numbered, TableInv, TableInv', LedgerInv, NEW s \in Service, DispatchRequest(s)
    PROVE  LedgerInv'
<1>0. /\ mail[s] \in Seq(Message) /\ mail[s] # <<>> /\ phase[s] = "idle" /\ TypeOK
      /\ Head(mail[s]).type = "request" /\ mail' = [mail EXCEPT ![s] = Tail(mail[s])]
      /\ UNCHANGED <<context, on, session_id_coroutine, watching_session, unresponse, pending, history>>
  BY DEF TableInv, TypeOK, DispatchRequest, HeadIs
<1>1. PICK m : m = Head(mail[s])
  OBVIOUS
<1>2. PICK q \in Seq(Message) : q = mail[s]
  BY <1>0
<1>3. /\ up[s] /\ ConnectedAt(s) /\ QueueOK(q) /\ ControlAt(s) /\ Posted
  BY <1>0, <1>2, LedgerFacts DEF ControlAt, TableInv
<1>4. /\ ToSet(q) = ToSet(Tail(q)) \cup {m} /\ Tail(q) \in Seq(Message) /\ m \in Message
      /\ Unread(s) = ToSet(q) /\ Unread(s)' = ToSet(Tail(q)) /\ mail'[s] = Tail(q)
  <2>1. mail'[s] = Tail(q)
    BY <1>0, <1>2 DEF TypeOK
  <2> QED BY <1>0, <1>1, <1>2, <2>1, SeqTail DEF Unread
<1>5. \A x \in Service : x # s => mail'[x] = mail[x] /\ Unread(x)' = Unread(x)
  BY <1>0 DEF TypeOK, Unread
<1>6. QueueOK(Tail(q)) /\ (m.session # 0 => m \notin ToSet(Tail(q)))
  BY <1>0, <1>1, <1>2, <1>3, QueueTail
<1>7. m.type = "request" /\ m.source \in Service /\ m.session \in 0 .. MaxSession
  BY <1>0, <1>1, <1>3, <1>4 DEF Posted, Message
<1>8. PICK c \in Co : /\ state[s][c] = "free"
                      /\ state' = [state EXCEPT ![s][c] = "run"]
                      /\ session_coroutine_id' = [session_coroutine_id EXCEPT ![s][c] = m.session]
                      /\ session_coroutine_address' = [session_coroutine_address EXCEPT ![s][c] = m.source]
  BY <1>1 DEF DispatchRequest, Free
<1>9. on[s][c] = 0 /\ session_coroutine_address[s][c] = None /\ session_coroutine_id[s][c] = None
  BY <1>3, <1>8 DEF ControlAt, ConnectedAt
<1>10. \A x \in Service : Answers(x)' = Answers(x)
  BY <1>4, <1>5, <1>7 DEF Answers
<1>11. \A x, y \in Service, k \in Sessions : \A v \in Co :
          Owes(y, v, x, k)' <=> IF y = s /\ v = c THEN m.session = k /\ m.source = x ELSE Owes(y, v, x, k)
  <2> SUFFICES ASSUME NEW x \in Service, NEW y \in Service, NEW k \in Sessions, NEW v \in Co
               PROVE  Owes(y, v, x, k)' <=> IF y = s /\ v = c THEN m.session = k /\ m.source = x ELSE Owes(y, v, x, k)
    OBVIOUS
  <2>1. session_coroutine_id'[y][v] = IF y = s /\ v = c THEN m.session ELSE session_coroutine_id[y][v]
    BY <1>0, <1>8 DEF TypeOK
  <2>2. session_coroutine_address'[y][v] = IF y = s /\ v = c THEN m.source ELSE session_coroutine_address[y][v]
    BY <1>0, <1>8 DEF TypeOK
  <2> QED BY <2>1, <2>2 DEF Owes
<1>12. \A x \in Service, k \in Sessions : ~Owes(s, c, x, k)
  BY <1>9, SessionFacts DEF Owes
<1>13. \A x \in Service, k \in Sessions :
          m = [type |-> "request", session |-> k, source |-> x] <=> m.session = k /\ m.source = x
  BY <1>4, <1>7 DEF Message
<1>14. \A x, y \in Service, k \in Sessions :
          Asked(x, k, y) <=> Asked(x, k, y)' \/ (y = s /\ m.session = k /\ m.source = x)
  BY <1>4, <1>5, <1>13 DEF Asked
<1>15. \A x \in Service, k \in Sessions : m.session = k /\ m.source = x => ~Asked(x, k, s)'
  BY <1>4, <1>6, <1>13, SessionFacts DEF Asked
<1>16. ASSUME NEW x \in Service, NEW y \in Service, NEW k \in Sessions
       PROVE  (Token(x, k, y)' <=> Token(x, k, y)) /\ OneDuty(x, k, y)'
  <2>1. OneDuty(x, k, y)
    BY LedgerFacts DEF Duty, OneDuty
  <2>2. unresponse' = unresponse
    BY <1>0
  <2>3. CASE ~(y = s /\ m.session = k /\ m.source = x)
    <3>1. (Asked(x, k, y)' <=> Asked(x, k, y)) /\ \A v \in Co : Owes(y, v, x, k)' <=> Owes(y, v, x, k)
      BY <1>11, <1>12, <1>14, <2>3
    <3> QED BY <2>1, <2>2, <3>1 DEF Token, OneDuty
  <2>4. CASE y = s /\ m.session = k /\ m.source = x
    <3>1. /\ Asked(x, k, y) /\ ~Asked(x, k, y)' /\ Owes(y, c, x, k)'
          /\ \A v \in Co : v # c => ~Owes(y, v, x, k)'
      BY <1>11, <1>14, <1>15, <2>1, <2>4 DEF OneDuty
    <3>2. <<x, k>> \notin unresponse'[y]
      BY <2>1, <2>2, <3>1 DEF OneDuty
    <3> QED BY <2>2, <3>1, <3>2 DEF Token, OneDuty
  <2> QED BY <2>3, <2>4
<1>17. \A x \in Service : /\ \A v \in Co : on[x][v] # 0 => state'[x][v] = state[x][v]
                          /\ x # s => state'[x] = state[x] /\ session_coroutine_id'[x] = session_coroutine_id[x]
                          /\ up[x] => QueueOK(mail'[x])
  <2>1. \A x \in Service : x # s /\ up[x] => QueueOK(mail'[x])
    BY <1>5, LedgerFacts
  <2>2. /\ state'[s] = [state[s] EXCEPT ![c] = "run"]
        /\ \A x \in Service : x # s => state'[x] = state[x] /\ session_coroutine_id'[x] = session_coroutine_id[x]
    BY <1>0, <1>8 DEF TypeOK
  <2>3. \A v \in Co : on[s][v] # 0 => state'[s][v] = state[s][v]
    BY <1>9, <2>2, LedgerFacts
  <2> QED BY <1>4, <1>6, <2>1, <2>2, <2>3
<1>18. UNCHANGED <<up, timer, last, session_id_coroutine, watching_session, on, error_queue, answers, broken,
                   forgotten, unresponse>>
  BY <1>0 DEF context, pending, history
<1> QED BY <1>3, <1>10, <1>16, <1>17, <1>18, ShiftLedger

LEMMA ClosureLedger ==
    ASSUME Numbered, TableInv, TableInv', LedgerInv, NEW s \in Service, NEW c \in Co, Response(s, c)
    PROVE  LedgerInv'
<1>0. /\ phase[s] = "run" /\ TypeOK /\ session_coroutine_id[s][c] # None
      /\ session_coroutine_id' = [session_coroutine_id EXCEPT ![s][c] = None]
      /\ UNCHANGED <<context, mail, phase, running, threads, session_coroutine_address, pending, history>>
  BY DEF TableInv, Response, Does
<1>1. up[s] /\ ControlAt(s)
  BY <1>0, LedgerFacts DEF ControlAt
<1>2. PICK i : i = session_coroutine_id[s][c]
  OBVIOUS
<1>3. PICK a \in Service : a = session_coroutine_address[s][c]
  <2>1. session_coroutine_address[s][c] # None
    BY <1>0, <1>1 DEF ControlAt
  <2> QED BY <2>1, LedgerFacts
<1>4. i \in 0 .. MaxSession
  BY <1>0, <1>2, LedgerFacts
<1>5. unresponse' = IF i = 0 THEN unresponse
                    ELSE [unresponse EXCEPT ![s] = unresponse[s] \cup {<<a, i>>}]
  BY <1>2, <1>3 DEF Response
<1>6. \A x, y \in Service, k \in Sessions : \A v \in Co :
          Owes(y, v, x, k)' <=> Owes(y, v, x, k) /\ ~(y = s /\ v = c)
  <2> SUFFICES ASSUME NEW x \in Service, NEW y \in Service, NEW k \in Sessions, NEW v \in Co
               PROVE  Owes(y, v, x, k)' <=> Owes(y, v, x, k) /\ ~(y = s /\ v = c)
    OBVIOUS
  <2>1. session_coroutine_id'[y][v] = IF y = s /\ v = c THEN None ELSE session_coroutine_id[y][v]
    BY <1>0 DEF TypeOK
  <2>2. session_coroutine_address' = session_coroutine_address /\ k # None
    BY <1>0, SessionFacts
  <2> QED BY <2>1, <2>2 DEF Owes
<1>7. \A x \in Service, k \in Sessions : Owes(s, c, x, k) <=> x = a /\ k = i
  BY <1>2, <1>3 DEF Owes
<1>8. \A x, y \in Service, k \in Sessions :
          <<x, k>> \in unresponse'[y] <=> <<x, k>> \in unresponse[y] \/ (y = s /\ x = a /\ k = i)
  <2> SUFFICES ASSUME NEW x \in Service, NEW y \in Service, NEW k \in Sessions
               PROVE  <<x, k>> \in unresponse'[y] <=> <<x, k>> \in unresponse[y] \/ (y = s /\ x = a /\ k = i)
    OBVIOUS
  <2>1. CASE i = 0
    BY <1>5, <2>1, SessionFacts
  <2>2. CASE i # 0
    <3>1. unresponse'[y] = IF y = s THEN unresponse[s] \cup {<<a, i>>} ELSE unresponse[y]
      BY <1>0, <1>5, <2>2 DEF TypeOK
    <3> QED BY <3>1
  <2> QED BY <2>1, <2>2
<1>9. \A x, y \in Service, k \in Sessions : Asked(x, k, y)' <=> Asked(x, k, y)
  BY <1>0, SameMail
<1>10. ASSUME NEW x \in Service, NEW y \in Service, NEW k \in Sessions
       PROVE  (Token(x, k, y)' <=> Token(x, k, y)) /\ OneDuty(x, k, y)'
  <2>1. OneDuty(x, k, y)
    BY LedgerFacts DEF Duty, OneDuty
  <2>2. CASE ~(y = s /\ x = a /\ k = i)
    <3>1. /\ \A v \in Co : Owes(y, v, x, k)' <=> Owes(y, v, x, k)
          /\ <<x, k>> \in unresponse'[y] <=> <<x, k>> \in unresponse[y]
          /\ Asked(x, k, y)' <=> Asked(x, k, y)
      BY <1>6, <1>7, <1>8, <1>9, <2>2
    <3> QED BY <2>1, <3>1 DEF Token, OneDuty
  <2>3. CASE y = s /\ x = a /\ k = i
    <3>1. /\ Owes(y, c, x, k) /\ <<x, k>> \in unresponse'[y] /\ ~Asked(x, k, y) /\ ~Asked(x, k, y)'
          /\ \A v \in Co : ~Owes(y, v, x, k)'
      BY <1>6, <1>7, <1>8, <1>9, <2>1, <2>3 DEF OneDuty
    <3> QED BY <3>1 DEF Token, OneDuty
  <2> QED BY <2>2, <2>3
<1>11. \A x \in Service : Answers(x)' = Answers(x) /\ (up[x] => QueueOK(mail'[x]))
  BY <1>0, SameMail
<1>12. \A x \in Service : x # s => unresponse'[x] = unresponse[x]
                                   /\ session_coroutine_id'[x] = session_coroutine_id[x]
  BY <1>0, <1>5 DEF TypeOK
<1>13. UNCHANGED <<up, timer, last, state, session_id_coroutine, watching_session, on, error_queue, answers,
                   broken, forgotten>>
  BY <1>0 DEF context, threads, pending, history
<1> QED BY <1>1, <1>10, <1>11, <1>12, <1>13, ShiftLedger

LEMMA FinishLedger ==
    ASSUME Numbered, TableInv, TableInv', LedgerInv, NEW s \in Service, NEW c \in Co, Finish(s, c)
    PROVE  LedgerInv'
<1>0. /\ phase[s] = "run" /\ running[s] = c /\ TypeOK
      /\ session_coroutine_id' = [session_coroutine_id EXCEPT ![s][c] = None]
      /\ session_coroutine_address' = [session_coroutine_address EXCEPT ![s][c] = None]
      /\ forgotten' = forgotten \cup Debt(s, c)
      /\ state' = [state EXCEPT ![s][c] = "free"]
      /\ UNCHANGED <<context, mail, on, session_id_coroutine, watching_session, sleep_session,
                     unresponse, pending, answers, broken>>
  BY DEF TableInv, Finish, Does, Clear
<1>1. up[s] /\ ControlAt(s) /\ on[s][c] = 0
  BY <1>0, LedgerFacts DEF ControlAt
<1>2. \A x, y \in Service, k \in Sessions : \A v \in Co :
          Owes(y, v, x, k)' <=> Owes(y, v, x, k) /\ ~(y = s /\ v = c)
  <2> SUFFICES ASSUME NEW x \in Service, NEW y \in Service, NEW k \in Sessions, NEW v \in Co
               PROVE  Owes(y, v, x, k)' <=> Owes(y, v, x, k) /\ ~(y = s /\ v = c)
    OBVIOUS
  <2>1. session_coroutine_id'[y][v] = IF y = s /\ v = c THEN None ELSE session_coroutine_id[y][v]
    BY <1>0 DEF TypeOK
  <2>2. session_coroutine_address'[y][v] = IF y = s /\ v = c THEN None ELSE session_coroutine_address[y][v]
    BY <1>0 DEF TypeOK
  <2> QED BY <2>1, <2>2, SessionFacts DEF Owes
<1>3. \A x \in Service, k \in Sessions : Owes(s, c, x, k) => <<x, k>> \in forgotten'
  BY <1>0 DEF Owes, Debt
<1>4. \A x, y \in Service, k \in Sessions : Asked(x, k, y)' <=> Asked(x, k, y)
  BY <1>0, SameMail
<1>5. ASSUME NEW x \in Service, NEW y \in Service, NEW k \in Sessions
      PROVE  /\ Token(x, k, y)' => Token(x, k, y)
             /\ Token(x, k, y) => Token(x, k, y)' \/ <<x, k>> \in forgotten'
             /\ OneDuty(x, k, y)'
  <2>1. OneDuty(x, k, y)
    BY LedgerFacts DEF Duty, OneDuty
  <2>2. /\ \A v \in Co : Owes(y, v, x, k)' => Owes(y, v, x, k)
        /\ \A v \in Co : Owes(y, v, x, k) => Owes(y, v, x, k)' \/ <<x, k>> \in forgotten'
        /\ unresponse' = unresponse
        /\ Asked(x, k, y)' <=> Asked(x, k, y)
    BY <1>0, <1>2, <1>3, <1>4
  <2> QED BY <2>1, <2>2 DEF Token, OneDuty
<1>6. \A x \in Service : Answers(x)' = Answers(x) /\ (up[x] => QueueOK(mail'[x]))
  BY <1>0, SameMail
<1>7. /\ \A x \in Service : x # s => state'[x] = state[x] /\ session_coroutine_id'[x] = session_coroutine_id[x]
      /\ \A v \in Co : on[s][v] # 0 => state'[s][v] = state[s][v]
  <2>1. /\ state'[s] = [state[s] EXCEPT ![c] = "free"]
        /\ \A x \in Service : x # s => state'[x] = state[x] /\ session_coroutine_id'[x] = session_coroutine_id[x]
    BY <1>0 DEF TypeOK
  <2> QED BY <1>1, <2>1, LedgerFacts
<1>8. UNCHANGED <<up, timer, last, session_id_coroutine, watching_session, on, error_queue, answers, broken,
                  unresponse>> /\ forgotten \subseteq forgotten'
  BY <1>0 DEF context, pending
<1> QED BY <1>1, <1>5, <1>6, <1>7, <1>8, ShiftLedger

-----------------------------------------------------------------------------
(***************************************************************************)
(* An answer: the duty of d to session k of x ends.                        *)
(***************************************************************************)
LEMMA AnswerFresh ==
    ASSUME Numbered, TableInv, LedgerInv, NEW d \in Service, NEW x \in Service, NEW k \in Sessions,
           up[d], up[x], Token(x, k, d)
    PROVE  /\ watching_session[x][k] = d /\ answers[x][k] = 0 /\ k \notin Due(x) /\ ~(k > last[x])
           /\ \A a \in Answers(x) : a.session # k /\ ~(a.type = "error" /\ a.session = 0 /\ a.source = d)
<1>1. watching_session[x][k] = d /\ answers[x][k] = 0 /\ k \notin Due(x)
  BY LedgerFacts DEF Duty, OneDuty
<1>2. ~(k > last[x])
  BY <1>1, LedgerFacts, SessionFacts DEF UnusedAt
<1>3. ~Dozes(x, k)
  <2>1. /\ watching_session[x][k] # None <=> /\ session_id_coroutine[x][k] \in Co
                                             /\ state[x][session_id_coroutine[x][k]] = "call"
    BY LedgerFacts DEF ConnectedAt
  <2> QED BY <1>1, <2>1, SessionFacts DEF Dozes
<1>4. ASSUME NEW a \in Answers(x)
      PROVE  a.session # k /\ ~(a.type = "error" /\ a.session = 0 /\ a.source = d)
  <2>1. Good(x, a)
    BY LedgerFacts
  <2> QED BY <1>1, <1>3, <2>1, SessionFacts DEF Good
<1> QED BY <1>1, <1>2, <1>4

LEMMA PostAnswer ==
    ASSUME Numbered, TableInv, LedgerInv, NEW d \in Service, NEW x \in Service, NEW k \in Sessions,
           up[d], Token(x, k, d), NEW type \in {"response", "error"}, Answer(d, x, type, k)
    PROVE  /\ \A y \in Service : Answers(y)' =
                 IF y = x /\ up[x] THEN Answers(y) \cup {[type |-> type, session |-> k, source |-> d]}
                                   ELSE Answers(y)
           /\ \A y \in Service : up[y] => QueueOK(mail'[y])
           /\ \A y, z \in Service : \A h \in Sessions : Asked(y, h, z)' <=> Asked(y, h, z)
           /\ answers' = IF up[x] THEN [answers EXCEPT ![x][k] = answers[x][k] + 1] ELSE answers
<1>1. PICK m : m = [type |-> type, session |-> k, source |-> d]
  OBVIOUS
<1>2. m.type # "request" /\ m.session = k /\ m.source = d
  BY <1>1
<1>3. mail \in [Service -> Seq(Message)] /\ Post(x, m)
  BY <1>1 DEF TableInv, TypeOK, Answer
<1>4. /\ up[x] => Unread(x)' = Unread(x) \cup {m}
      /\ \A y \in Service : y # x \/ ~up[x] => Unread(y)' = Unread(y)
  BY <1>3, PostMail
<1>5. ASSUME NEW y \in Service, up[y] PROVE QueueOK(mail'[y])
  <2>1. CASE y = x
    <3>1. PICK q \in Seq(Message) : q = mail[x]
      BY <1>3
    <3>2. QueueOK(q) /\ mail'[x] = Append(q, m)
      BY <1>3, <1>5, <2>1, <3>1, LedgerFacts DEF Post
    <3>3. Fresh(q, m)
      BY <1>2, <1>5, <2>1, <3>1, AnswerFresh DEF Fresh, Answers, Unread
    <3> QED BY <2>1, <3>2, <3>3, QueueAppend
  <2>2. CASE y # x
    <3>1. mail'[y] = mail[y]
      BY <1>3, <2>2 DEF Post
    <3> QED BY <1>5, <3>1, LedgerFacts
  <2> QED BY <2>1, <2>2
<1>6. \A y, z \in Service : \A h \in Sessions : Asked(y, h, z)' <=> Asked(y, h, z)
  <2>1. \A y, h : [type |-> "request", session |-> h, source |-> y] # m
    BY <1>2
  <2> QED BY <1>4, <2>1 DEF Asked
<1>7. \A y \in Service : Answers(y)' = IF y = x /\ up[x] THEN Answers(y) \cup {m} ELSE Answers(y)
  BY <1>2, <1>4 DEF Answers
<1>8. answers' = IF up[x] THEN [answers EXCEPT ![x][k] = answers[x][k] + 1] ELSE answers
  BY DEF Answer
<1> QED BY <1>1, <1>5, <1>6, <1>7, <1>8

LEMMA AnswerLedger ==
    ASSUME Numbered, TableInv, TableInv', LedgerInv, NEW d \in Service, NEW x \in Service, NEW k \in Sessions,
           up[d], Token(x, k, d), NEW m, m.type \in {"response", "error"}, m.session = k, m.source = d,
           UNCHANGED <<up, timer, last, session_id_coroutine, watching_session, on, error_queue, broken, forgotten>>,
           answers' = IF up[x] THEN [answers EXCEPT ![x][k] = answers[x][k] + 1] ELSE answers,
           \A y \in Service : /\ \A c \in Co : on[y][c] # 0 => state'[y][c] = state[y][c]
                              /\ y # d => /\ state'[y] = state[y] /\ unresponse'[y] = unresponse[y]
                                          /\ session_coroutine_id'[y] = session_coroutine_id[y]
                              /\ up[y] => QueueOK(mail'[y])
                              /\ Answers(y)' = IF y = x /\ up[x] THEN Answers(y) \cup {m} ELSE Answers(y),
           \A y, z \in Service : \A h \in Sessions :
               /\ Token(y, h, z)' <=> Token(y, h, z) /\ ~(y = x /\ h = k /\ z = d)
               /\ OneDuty(y, h, z)'
    PROVE  LedgerInv'
<1>1. up[x] => /\ watching_session[x][k] = d /\ answers[x][k] = 0 /\ k \notin Due(x) /\ ~(k > last[x])
               /\ \A a \in Answers(x) : a.session # k /\ ~(a.type = "error" /\ a.session = 0 /\ a.source = d)
  BY AnswerFresh
<1>2. \A y \in Service : \A h \in Sessions :
          answers'[y][h] = IF y = x /\ h = k /\ up[x] THEN answers[y][h] + 1 ELSE answers[y][h]
  <2> SUFFICES ASSUME NEW y \in Service, NEW h \in Sessions
               PROVE  answers'[y][h] = IF y = x /\ h = k /\ up[x] THEN answers[y][h] + 1 ELSE answers[y][h]
    OBVIOUS
  <2>0. answers \in [Service -> [Sessions -> Nat]]
    BY DEF TableInv, TypeOK
  <2>1. CASE up[x]
    <3>1. answers' = [answers EXCEPT ![x][k] = answers[x][k] + 1]
      BY <2>1
    <3> QED BY <2>0, <2>1, <3>1
  <2>2. CASE ~up[x]
    BY <2>2
  <2> QED BY <2>1, <2>2
<1>3. \A y \in Service : Due(y)' = Due(y)
  BY DEF Due
<1>4. SUFFICES ASSUME NEW s \in Service PROVE LedgerAt(s)'
  BY DEF LedgerInv
<1>5. /\ \A h \in Sessions : Dozes(s, h)' <=> Dozes(s, h)
      /\ \A c \in Co : state'[s][c] = "sleep"
            => state[s][c] = "sleep" /\ on'[s][c] = on[s][c] /\ on[s][c] \in Sessions
  <2>1. ConnectedAt(s)'
    BY DEF TableInv, TableAt
  <2>2. ConnectedAt(s) /\ on[s] \in [Co -> 0 .. MaxSession]
    BY LedgerFacts
  <2> QED BY <2>1, <2>2, SessionFacts, Quiet
<1>6. /\ timer[s] \subseteq Sessions /\ Box(s) /\ Timers(s) /\ Failing(s) /\ Count(s) /\ Gone(s)
      /\ answers[s] \in [Sessions -> Nat]
  BY LedgerFacts
<1>7. Box(s)'
  <2>1. \A h \in Sessions : Timed(s, h) => Timed(s, h)'
    <3>1. Answers(s) \subseteq Answers(s)'
      OBVIOUS
    <3>2. \A h : Alarm(h) \in Unread(s) => Alarm(h) \in Unread(s)'
      BY <3>1 DEF Answers, Alarm
    <3> QED BY <3>2 DEF Timed, Alarm
  <2>2. Timers(s)'
    BY <1>5, <1>6, <2>1 DEF Timers
  <2>3. Failing(s)'
    BY <1>3, <1>6 DEF Failing
  <2>4. ASSUME up[s], NEW a \in Answers(s)' PROVE Good(s, a)'
    <3>1. CASE a = m /\ s = x
      <4>1. watching_session'[s][k] = d /\ answers'[s][k] = 1 /\ k \notin Due(s)'
        BY <1>1, <1>2, <1>3, <2>4, <3>1
      <4> QED BY <3>1, <4>1 DEF Good
    <3>2. CASE a \in Answers(s)
      <4>1. Good(s, a) /\ (s = x => a.session # k)
        BY <1>1, <2>4, <3>2, LedgerFacts
      <4>2. a.session \in Sessions => answers'[s][a.session] = answers[s][a.session]
                                      /\ (Dozes(s, a.session)' <=> Dozes(s, a.session))
        BY <1>2, <1>5, <4>1
      <4> QED BY <1>3, <4>1, <4>2 DEF Good
    <3> QED BY <2>4, <3>1, <3>2
  <2> QED BY <2>2, <2>3, <2>4 DEF Box
<1>8. Count(s)'
  <2> SUFFICES ASSUME NEW h \in Sessions
               PROVE  answers'[s][h] <= 1 /\ (h > last'[s] => answers'[s][h] = 0)
    BY DEF Count
  <2>1. CASE s = x /\ h = k /\ up[x]
    <3>1. answers'[s][h] = 1
      BY <1>1, <1>2, <2>1
    <3> QED BY <1>1, <2>1, <3>1
  <2>2. CASE ~(s = x /\ h = k /\ up[x])
    BY <1>2, <1>6, <2>2 DEF Count
  <2> QED BY <2>1, <2>2
<1>9. Gone(s)'
  BY <1>6 DEF Gone
<1>10. ASSUME NEW h \in Sessions PROVE Cared(s, h)'
  <2>1. PICK w \in Service \cup {None} : w = watching_session[s][h]
    BY LedgerFacts
  <2> SUFFICES ASSUME w \in Service, w # None PROVE Cared(s, h)'
    BY <2>1 DEF Cared
  <2>2. up[s]
    BY <1>6, <2>1 DEF Gone
  <2>3. Cared(s, h) /\ watching_session'[s][h] = w
    BY <2>1, LedgerFacts
  <2>4. Reply(s, h, w) => Reply(s, h, w)'
    <3>1. Answers(s) \subseteq Answers(s)'
      OBVIOUS
    <3> QED BY <3>1 DEF Reply
  <2>5. Token(s, h, w) => Token(s, h, w)' \/ Reply(s, h, w)'
    <3>1. CASE s = x /\ h = k /\ w = d
      <4>1. m \in Answers(s)'
        BY <2>2, <3>1
      <4> QED BY <3>1, <4>1 DEF Reply
    <3>2. CASE ~(s = x /\ h = k /\ w = d)
      BY <3>2
    <3> QED BY <3>1, <3>2
  <2>6. <<s, h>> \in forgotten \/ Token(s, h, w) \/ Reply(s, h, w) \/ h \in Due(s)
    BY <2>1, <2>3 DEF Cared
  <2>7. <<s, h>> \in forgotten' \/ Token(s, h, w)' \/ Reply(s, h, w)' \/ h \in Due(s)'
    BY <1>3, <2>4, <2>5, <2>6
  <2> QED BY <2>3, <2>7 DEF Cared
<1>11. ASSUME NEW h \in Sessions, NEW z \in Service PROVE Duty(s, h, z)'
  <2>1. OneDuty(s, h, z)' /\ Duty(s, h, z)
    BY LedgerFacts
  <2>2. ASSUME up'[s], up'[z], Token(s, h, z)'
        PROVE  watching_session'[s][h] = z /\ answers'[s][h] = 0 /\ h \notin Due(s)'
    <3>1. Token(s, h, z) /\ ~(s = x /\ h = k /\ z = d) /\ up[s] /\ up[z]
      BY <2>2
    <3>2. watching_session[s][h] = z /\ answers[s][h] = 0 /\ h \notin Due(s)
      BY <2>1, <3>1 DEF Duty, OneDuty
    <3>3. ~(s = x /\ h = k)
      BY <1>1, <3>1, <3>2
    <3> QED BY <1>2, <1>3, <3>2, <3>3
  <2> QED BY <2>1, <2>2 DEF Duty, OneDuty
<1> QED BY <1>7, <1>8, <1>9, <1>10, <1>11 DEF LedgerAt

\* A coroutine drops its duty.
LEMMA DutyCleared ==
    ASSUME Numbered, TableInv, LedgerInv, NEW s \in Service, NEW c \in Co,
           session_coroutine_id' = [session_coroutine_id EXCEPT ![s][c] = None],
           \/ UNCHANGED session_coroutine_address
           \/ session_coroutine_address' = [session_coroutine_address EXCEPT ![s][c] = None],
           UNCHANGED unresponse,
           \A y, z \in Service : \A h \in Sessions : Asked(y, h, z)' <=> Asked(y, h, z)
    PROVE  \A y, z \in Service : \A h \in Sessions :
              /\ Token(y, h, z)' <=> Token(y, h, z) /\ ~(z = s /\ Owes(s, c, y, h))
              /\ OneDuty(y, h, z)'
<1> SUFFICES ASSUME NEW y \in Service, NEW z \in Service, NEW h \in Sessions
             PROVE  /\ Token(y, h, z)' <=> Token(y, h, z) /\ ~(z = s /\ Owes(s, c, y, h))
                    /\ OneDuty(y, h, z)'
  OBVIOUS
<1>1. \A v \in Co : Owes(z, v, y, h)' <=> Owes(z, v, y, h) /\ ~(z = s /\ v = c)
  <2> SUFFICES ASSUME NEW v \in Co
               PROVE  Owes(z, v, y, h)' <=> Owes(z, v, y, h) /\ ~(z = s /\ v = c)
    OBVIOUS
  <2>1. session_coroutine_id'[z][v] = IF z = s /\ v = c THEN None ELSE session_coroutine_id[z][v]
    BY DEF TableInv, TypeOK
  <2>2. ~(z = s /\ v = c) => session_coroutine_address'[z][v] = session_coroutine_address[z][v]
    <3>1. session_coroutine_address \in [Service -> [Co -> Service \cup {None}]]
      BY DEF TableInv, TypeOK
    <3>2. CASE UNCHANGED session_coroutine_address
      BY <3>2
    <3>3. CASE session_coroutine_address' = [session_coroutine_address EXCEPT ![s][c] = None]
      BY <3>1, <3>3
    <3> QED BY <3>2, <3>3
  <2> QED BY <2>1, <2>2, SessionFacts DEF Owes
<1>2. OneDuty(y, h, z)
  BY LedgerFacts DEF Duty, OneDuty
<1>3. OneDuty(y, h, z)'
  BY <1>1, <1>2 DEF OneDuty
<1>4. CASE z = s /\ Owes(s, c, y, h)
  <2>1. ~Asked(y, h, z)' /\ <<y, h>> \notin unresponse'[z] /\ \A v \in Co : ~Owes(z, v, y, h)'
    BY <1>1, <1>2, <1>4 DEF OneDuty
  <2> QED BY <1>3, <1>4, <2>1 DEF Token
<1>5. CASE ~(z = s /\ Owes(s, c, y, h))
  <2>1. \A v \in Co : Owes(z, v, y, h)' <=> Owes(z, v, y, h)
    BY <1>1, <1>5
  <2> QED BY <1>3, <1>5, <2>1 DEF Token
<1> QED BY <1>4, <1>5

\* skynet.ret answers what the coroutine owes; a function that fails, the same.
LEMMA PaidLedger ==
    ASSUME Numbered, TableInv, TableInv', LedgerInv, NEW s \in Service, NEW c \in Co, up[s],
           session_coroutine_id[s][c] # None,
           session_coroutine_id' = [session_coroutine_id EXCEPT ![s][c] = None],
           \/ UNCHANGED session_coroutine_address
           \/ session_coroutine_address' = [session_coroutine_address EXCEPT ![s][c] = None],
           IF session_coroutine_id[s][c] = 0 THEN UNCHANGED <<mail, answers>>
           ELSE \E type \in {"response", "error"} :
                   Answer(s, session_coroutine_address[s][c], type, session_coroutine_id[s][c]),
           \A y \in Service : /\ \A v \in Co : on[y][v] # 0 => state'[y][v] = state[y][v]
                              /\ y # s => state'[y] = state[y],
           UNCHANGED <<up, timer, last, session_id_coroutine, watching_session, on, error_queue, broken,
                       forgotten, unresponse>>
    PROVE  LedgerInv'
<1>1. PICK k \in 0 .. MaxSession : k = session_coroutine_id[s][c]
  BY LedgerFacts
<1>2. PICK x \in Service : x = session_coroutine_address[s][c]
  <2>1. session_coroutine_address[s][c] # None
    BY LedgerFacts DEF ControlAt
  <2> QED BY <2>1, LedgerFacts
<1>3. \A y \in Service : \A h \in Sessions : Owes(s, c, y, h) <=> y = x /\ h = k
  BY <1>1, <1>2 DEF Owes
<1>4. \A y \in Service : y # s => unresponse'[y] = unresponse[y]
                                  /\ session_coroutine_id'[y] = session_coroutine_id[y]
  BY DEF TableInv, TypeOK
<1>5. CASE k = 0
  <2>1. UNCHANGED <<mail, answers>>
    BY <1>1, <1>5
  <2>2. /\ \A y \in Service : Answers(y)' = Answers(y) /\ (up[y] => QueueOK(mail'[y]))
        /\ \A y, z \in Service : \A h \in Sessions : Asked(y, h, z)' <=> Asked(y, h, z)
    BY <2>1, SameMail
  <2>3. \A y, z \in Service : \A h \in Sessions : (Token(y, h, z)' <=> Token(y, h, z)) /\ OneDuty(y, h, z)'
    BY <1>3, <1>5, <2>2, SessionFacts, DutyCleared
  <2> QED BY <1>4, <2>1, <2>2, <2>3, ShiftLedger
<1>6. CASE k # 0
  <2>0. k \in Sessions
    BY <1>6, SessionFacts
  <2>1. PICK type \in {"response", "error"} : Answer(s, x, type, k)
    BY <1>1, <1>2, <1>6
  <2>2. Token(x, k, s)
    BY <1>3, <2>0 DEF Token
  <2>3. PICK m : m = [type |-> type, session |-> k, source |-> s]
    OBVIOUS
  <2>4. /\ \A y \in Service : Answers(y)' = IF y = x /\ up[x] THEN Answers(y) \cup {m} ELSE Answers(y)
        /\ \A y \in Service : up[y] => QueueOK(mail'[y])
        /\ \A y, z \in Service : \A h \in Sessions : Asked(y, h, z)' <=> Asked(y, h, z)
        /\ answers' = IF up[x] THEN [answers EXCEPT ![x][k] = answers[x][k] + 1] ELSE answers
    BY <2>0, <2>1, <2>2, <2>3, PostAnswer
  <2>5. \A y, z \in Service : \A h \in Sessions :
           /\ Token(y, h, z)' <=> Token(y, h, z) /\ ~(y = x /\ h = k /\ z = s)
           /\ OneDuty(y, h, z)'
    BY <1>3, <2>4, DutyCleared, ZenonT(60)
  <2>6. m.type \in {"response", "error"} /\ m.session = k /\ m.source = s
    BY <2>3
  <2>7. \A y \in Service : /\ \A v \in Co : on[y][v] # 0 => state'[y][v] = state[y][v]
                           /\ y # s => /\ state'[y] = state[y] /\ unresponse'[y] = unresponse[y]
                                       /\ session_coroutine_id'[y] = session_coroutine_id[y]
                           /\ up[y] => QueueOK(mail'[y])
                           /\ Answers(y)' = IF y = x /\ up[x] THEN Answers(y) \cup {m} ELSE Answers(y)
    BY <1>4, <2>4
  <2>8. /\ UNCHANGED <<up, timer, last, session_id_coroutine, watching_session, on, error_queue, broken, forgotten>>
        /\ answers' = IF up[x] THEN [answers EXCEPT ![x][k] = answers[x][k] + 1] ELSE answers
    BY <2>4
  <2> QED BY ONLY Numbered, TableInv, TableInv', LedgerInv, up[s], <2>0, <2>2, <2>5, <2>6, <2>7, <2>8, AnswerLedger, SMTT(30)
<1> QED BY <1>5, <1>6

LEMMA RetLedger ==
    ASSUME Numbered, TableInv, TableInv', LedgerInv, NEW s \in Service, NEW c \in Co, Ret(s, c)
    PROVE  LedgerInv'
<1>1. /\ phase[s] = "run" /\ session_coroutine_id[s][c] # None
      /\ session_coroutine_id' = [session_coroutine_id EXCEPT ![s][c] = None]
      /\ IF session_coroutine_id[s][c] = 0 THEN UNCHANGED <<mail, answers>>
         ELSE \E type \in {"response", "error"} :
                 Answer(s, session_coroutine_address[s][c], type, session_coroutine_id[s][c])
      /\ UNCHANGED <<context, threads, session_coroutine_address, unresponse, pending, forgotten, broken>>
  BY DEF Ret, Does
<1>2. up[s]
  BY <1>1, LedgerFacts DEF ControlAt
<1>3. UNCHANGED <<up, timer, last, state, session_id_coroutine, watching_session, on, error_queue, broken,
                  forgotten, unresponse>>
  BY <1>1 DEF context, threads, pending
<1> QED BY <1>1, <1>2, <1>3, PaidLedger

LEMMA FailLedger ==
    ASSUME Numbered, TableInv, TableInv', LedgerInv, NEW s \in Service, NEW c \in Co, Fail(s, c)
    PROVE  LedgerInv'
<1>1. /\ phase[s] = "run" /\ running[s] = c /\ TypeOK
      /\ session_coroutine_id' = [session_coroutine_id EXCEPT ![s][c] = None]
      /\ session_coroutine_address' = [session_coroutine_address EXCEPT ![s][c] = None]
      /\ state' = [state EXCEPT ![s][c] = "free"]
      /\ UNCHANGED <<context, on, session_id_coroutine, watching_session, unresponse, error_queue, forgotten, broken>>
  BY DEF Fail, Does, Clear, TableInv
<1>2. up[s] /\ on[s][c] = 0
  BY <1>1, LedgerFacts DEF ControlAt
<1>3. \A y \in Service : /\ \A v \in Co : on[y][v] # 0 => state'[y][v] = state[y][v]
                         /\ y # s => state'[y] = state[y]
  <2>1. state'[s] = [state[s] EXCEPT ![c] = "free"] /\ \A y \in Service : y # s => state'[y] = state[y]
    BY <1>1 DEF TypeOK
  <2> QED BY <1>2, <2>1, LedgerFacts
<1>4. UNCHANGED <<up, timer, last, session_id_coroutine, watching_session, on, error_queue, broken,
                  forgotten, unresponse>>
  BY <1>1 DEF context
<1>5. session_coroutine_id[s][c] \in Sessions <=> Debt(s, c) # {}
  BY DEF Debt
<1>6. session_coroutine_id[s][c] \in {None, 0} \cup Sessions
  BY LedgerFacts, SessionFacts
<1>7. CASE session_coroutine_id[s][c] # None
  <2>1. IF session_coroutine_id[s][c] = 0 THEN UNCHANGED <<mail, answers>>
        ELSE \E type \in {"response", "error"} :
                Answer(s, session_coroutine_address[s][c], type, session_coroutine_id[s][c])
    BY <1>5, <1>6, <1>7, SessionFacts DEF Fail
  <2> QED BY <1>1, <1>2, <1>3, <1>4, <1>7, <2>1, PaidLedger
<1>8. CASE session_coroutine_id[s][c] = None
  <2>1. UNCHANGED <<mail, answers>>
    BY <1>5, <1>8, SessionFacts DEF Fail
  <2>2. \A y \in Service : \A h \in Sessions : ~Owes(s, c, y, h)
    BY <1>8, SessionFacts DEF Owes
  <2>3. /\ \A y \in Service : Answers(y)' = Answers(y) /\ (up[y] => QueueOK(mail'[y]))
        /\ \A y, z \in Service : \A h \in Sessions : Asked(y, h, z)' <=> Asked(y, h, z)
    BY <2>1, SameMail
  <2>4. \A y, z \in Service : \A h \in Sessions : (Token(y, h, z)' <=> Token(y, h, z)) /\ OneDuty(y, h, z)'
    BY <1>1, <2>2, <2>3, DutyCleared
  <2>5. \A y \in Service : y # s => session_coroutine_id'[y] = session_coroutine_id[y]
    BY <1>1 DEF TypeOK
  <2> QED BY <1>2, <1>3, <1>4, <2>1, <2>3, <2>4, <2>5, ShiftLedger
<1> QED BY <1>7, <1>8

LEMMA RespondLedger ==
    ASSUME Numbered, TableInv, TableInv', LedgerInv, NEW s \in Service, NEW c \in Co,
           NEW r \in unresponse[s], Respond(s, c, r)
    PROVE  LedgerInv'
<1>1. /\ phase[s] = "run" /\ TypeOK
      /\ unresponse' = [unresponse EXCEPT ![s] = unresponse[s] \ {r}]
      /\ \E type \in {"response", "error"} : Answer(s, r[1], type, r[2])
      /\ UNCHANGED <<context, threads, session_coroutine_id, session_coroutine_address, pending,
                     forgotten, broken>>
  BY DEF Respond, Does, TableInv
<1>2. up[s]
  BY <1>1, LedgerFacts DEF ControlAt
<1>3. PICK x \in Service, k \in Sessions : r = <<x, k>>
  <2>1. r \in Service \X Sessions
    BY LedgerFacts
  <2> QED BY <2>1
<1>4. PICK type \in {"response", "error"} : Answer(s, x, type, k)
  BY <1>1, <1>3
<1>5. Token(x, k, s)
  BY <1>3 DEF Token
<1>6. PICK m : m = [type |-> type, session |-> k, source |-> s]
  OBVIOUS
<1>7. /\ \A y \in Service : Answers(y)' = IF y = x /\ up[x] THEN Answers(y) \cup {m} ELSE Answers(y)
      /\ \A y \in Service : up[y] => QueueOK(mail'[y])
      /\ \A y, z \in Service : \A h \in Sessions : Asked(y, h, z)' <=> Asked(y, h, z)
      /\ answers' = IF up[x] THEN [answers EXCEPT ![x][k] = answers[x][k] + 1] ELSE answers
  BY <1>2, <1>4, <1>5, <1>6, PostAnswer
<1>8. \A y, z \in Service : \A h \in Sessions :
         <<y, h>> \in unresponse'[z] <=> <<y, h>> \in unresponse[z] /\ ~(y = x /\ h = k /\ z = s)
  <2>1. \A z \in Service : unresponse'[z] = IF z = s THEN unresponse[s] \ {r} ELSE unresponse[z]
    BY <1>1 DEF TypeOK
  <2> QED BY <1>3, <2>1
<1>9. ASSUME NEW y \in Service, NEW z \in Service, NEW h \in Sessions
      PROVE  /\ Token(y, h, z)' <=> Token(y, h, z) /\ ~(y = x /\ h = k /\ z = s)
             /\ OneDuty(y, h, z)'
  <2>1. OneDuty(y, h, z)
    BY LedgerFacts DEF Duty, OneDuty
  <2>2. \A v \in Co : Owes(z, v, y, h)' <=> Owes(z, v, y, h)
    BY <1>1 DEF Owes
  <2>3. y = x /\ h = k /\ z = s => ~Asked(y, h, z) /\ \A v \in Co : ~Owes(z, v, y, h)
    BY <1>3, <2>1 DEF OneDuty
  <2>4. (Asked(y, h, z)' <=> Asked(y, h, z))
         /\ (<<y, h>> \in unresponse'[z] <=> <<y, h>> \in unresponse[z] /\ ~(y = x /\ h = k /\ z = s))
    BY <1>7, <1>8
  <2> QED BY <2>1, <2>2, <2>3, <2>4 DEF Token, OneDuty
<1>10. \A y \in Service : y # s => unresponse'[y] = unresponse[y]
  BY <1>1 DEF TypeOK
<1>11. UNCHANGED <<up, timer, last, state, session_id_coroutine, watching_session, on, error_queue, broken,
                   forgotten, session_coroutine_id>>
  BY <1>1 DEF context, threads, pending
<1>12. m.type \in {"response", "error"} /\ m.session = k /\ m.source = s
  BY <1>6
<1> QED BY <1>2, <1>5, <1>7, <1>9, <1>10, <1>11, <1>12, AnswerLedger

\* A request that is refused: taken and answered in one step.
LEMMA RefuseLedger ==
    ASSUME Numbered, TableInv, TableInv', LedgerInv, NEW s \in Service, RefuseRequest(s)
    PROVE  LedgerInv'
<1>0. /\ mail[s] \in Seq(Message) /\ mail[s] # <<>> /\ phase[s] = "idle" /\ TypeOK
      /\ Head(mail[s]).type = "request"
      /\ UNCHANGED <<context, threads, duties, pending, forgotten, broken>>
  BY DEF TableInv, TypeOK, RefuseRequest, HeadIs
<1>1. PICK m : m = Head(mail[s])
  OBVIOUS
<1>2. PICK q \in Seq(Message) : q = mail[s]
  BY <1>0
<1>3. /\ up[s] /\ QueueOK(q) /\ Posted
  BY <1>0, <1>2, LedgerFacts DEF ControlAt, TableInv
<1>4. /\ ToSet(q) = ToSet(Tail(q)) \cup {m} /\ Tail(q) \in Seq(Message) /\ m \in Message
      /\ Unread(s) = ToSet(q)
  BY <1>0, <1>1, <1>2, SeqTail DEF Unread
<1>5. m.type = "request" /\ m.source \in Service /\ m.session \in 0 .. MaxSession
  BY <1>0, <1>1, <1>3, <1>4 DEF Posted, Message
<1>6. QueueOK(Tail(q)) /\ (m.session # 0 => m \notin ToSet(Tail(q)))
  BY <1>0, <1>1, <1>2, <1>3, QueueTail
<1>7. PICK left : left = [mail EXCEPT ![s] = Tail(q)]
  OBVIOUS
<1>8. /\ left \in [Service -> Seq(Message)] /\ left[s] = Tail(q)
      /\ \A y \in Service : y # s => left[y] = mail[y]
      /\ \A y \in Service : ToSet(left[y]) \subseteq Unread(y)
      /\ \A y \in Service : up[y] => QueueOK(left[y])
  <2>1. /\ left \in [Service -> Seq(Message)] /\ left[s] = Tail(q)
        /\ \A y \in Service : y # s => left[y] = mail[y]
    BY <1>0, <1>4, <1>7 DEF TypeOK
  <2> QED BY <1>4, <1>6, <2>1, LedgerFacts DEF Unread
<1>9. \A y \in Service : \A a : a \in ToSet(left[y]) /\ a.type # "request" <=> a \in Answers(y)
  BY <1>4, <1>5, <1>8 DEF Answers, Unread
<1>10. \A x \in Service, k \in Sessions :
          m = [type |-> "request", session |-> k, source |-> x] <=> m.session = k /\ m.source = x
  BY <1>4, <1>5 DEF Message
<1>11. \A x, y \in Service, k \in Sessions :
          [type |-> "request", session |-> k, source |-> x] \in ToSet(left[y])
              <=> Asked(x, k, y) /\ ~(y = s /\ m.session = k /\ m.source = x)
  <2> SUFFICES ASSUME NEW x \in Service, NEW y \in Service, NEW k \in Sessions
               PROVE  [type |-> "request", session |-> k, source |-> x] \in ToSet(left[y])
                         <=> Asked(x, k, y) /\ ~(y = s /\ m.session = k /\ m.source = x)
    OBVIOUS
  <2>1. CASE y = s
    <3>1. Unread(y) = ToSet(left[y]) \cup {m}
      BY <1>4, <1>8, <2>1
    <3>2. m.session = k => m \notin ToSet(left[y])
      BY <1>6, <1>8, <2>1, SessionFacts
    <3>3. m.session = k /\ m.source = x <=> [type |-> "request", session |-> k, source |-> x] = m
      BY <1>10
    <3> QED BY <2>1, <3>1, <3>2, <3>3 DEF Asked
  <2>2. CASE y # s
    BY <1>8, <2>2 DEF Asked, Unread
  <2> QED BY <2>1, <2>2
<1>12. UNCHANGED <<up, timer, last, state, session_id_coroutine, watching_session, on, error_queue, broken,
                   forgotten, session_coroutine_id, session_coroutine_address, unresponse>>
  BY <1>0 DEF context, threads, duties, pending
<1>13. ASSUME \A x, y \in Service, k \in Sessions :
                 Asked(x, k, y)' <=> Asked(x, k, y) /\ ~(y = s /\ m.session = k /\ m.source = x)
       PROVE  \A x, y \in Service, k \in Sessions :
                 /\ Token(x, k, y)' <=> Token(x, k, y) /\ ~(y = s /\ m.session = k /\ m.source = x)
                 /\ OneDuty(x, k, y)'
  <2> SUFFICES ASSUME NEW x \in Service, NEW y \in Service, NEW k \in Sessions
               PROVE  /\ Token(x, k, y)' <=> Token(x, k, y) /\ ~(y = s /\ m.session = k /\ m.source = x)
                      /\ OneDuty(x, k, y)'
    OBVIOUS
  <2>1. OneDuty(x, k, y)
    BY LedgerFacts DEF Duty, OneDuty
  <2>2. /\ \A v \in Co : Owes(y, v, x, k)' <=> Owes(y, v, x, k)
        /\ <<x, k>> \in unresponse'[y] <=> <<x, k>> \in unresponse[y]
        /\ Asked(x, k, y)' <=> Asked(x, k, y) /\ ~(y = s /\ m.session = k /\ m.source = x)
    BY <1>12, <1>13 DEF Owes
  <2>3. y = s /\ m.session = k /\ m.source = x => Asked(x, k, y)
    BY <1>4, <1>10 DEF Asked
  <2> QED BY <2>1, <2>2, <2>3 DEF Token, OneDuty
<1>14. CASE m.session = 0 \/ ~up[m.source]
  <2>1. mail' = left /\ UNCHANGED answers
    BY <1>1, <1>2, <1>7, <1>14 DEF RefuseRequest
  <2>2. \A x, y \in Service, k \in Sessions :
           Asked(x, k, y)' <=> Asked(x, k, y) /\ ~(y = s /\ m.session = k /\ m.source = x)
    BY <1>11, <2>1 DEF Asked, Unread
  <2>3. \A y \in Service : Answers(y)' = Answers(y) /\ (up[y] => QueueOK(mail'[y]))
    BY <1>8, <1>9, <2>1 DEF Answers, Unread
  <2>4. \A x, y \in Service : \A k \in Sessions :
           /\ Token(x, k, y)' => Token(x, k, y)
           /\ up[x] /\ Token(x, k, y) => Token(x, k, y)' \/ <<x, k>> \in forgotten'
           /\ OneDuty(x, k, y)'
    BY <1>13, <1>14, <2>2, SessionFacts
  <2> QED BY <1>12, <2>1, <2>3, <2>4, ShiftLedger
<1>15. CASE ~(m.session = 0 \/ ~up[m.source])
  <2>1. PICK x \in Service, k \in Sessions : x = m.source /\ k = m.session
    BY <1>5, <1>15, SessionFacts
  <2>2. PICK e : e = [type |-> "error", session |-> k, source |-> s]
    OBVIOUS
  <2>3. /\ mail' = [left EXCEPT ![x] = Append(left[x], e)]
        /\ answers' = [answers EXCEPT ![x][k] = answers[x][k] + 1]
    BY <1>1, <1>2, <1>7, <1>15, <2>1, <2>2 DEF RefuseRequest
  <2>4. up[x] /\ Token(x, k, s)
    BY <1>4, <1>10, <1>15, <2>1 DEF Token, Asked
  <2>5. PICK p \in Seq(Message) : p = left[x]
    BY <1>8
  <2>6. mail'[x] = Append(p, e) /\ \A y \in Service : y # x => mail'[y] = left[y]
    BY <1>8, <2>3, <2>5
  <2>7. /\ Unread(x)' = ToSet(left[x]) \cup {e}
        /\ \A y \in Service : y # x => Unread(y)' = ToSet(left[y])
    BY <2>5, <2>6, SeqAppend DEF Unread
  <2>8. e.type = "error" /\ e.session = k /\ e.source = s
    BY <2>2
  <2>9. \A y, z \in Service, h \in Sessions :
           Asked(y, h, z)' <=> Asked(y, h, z) /\ ~(z = s /\ m.session = h /\ m.source = y)
    <3>1. \A y, h : [type |-> "request", session |-> h, source |-> y] # e
      BY <2>8
    <3> QED BY <1>11, <2>7, <3>1 DEF Asked
  <2>10. \A y \in Service : Answers(y)' = IF y = x /\ up[x] THEN Answers(y) \cup {e} ELSE Answers(y)
    BY <1>9, <2>4, <2>7, <2>8 DEF Answers
  <2>11. ASSUME NEW y \in Service, up[y] PROVE QueueOK(mail'[y])
    <3>1. CASE y = x
      <4>1. Fresh(p, e)
        BY <1>3, <1>9, <2>4, <2>5, <2>8, AnswerFresh DEF Fresh
      <4>2. QueueOK(p)
        BY <1>8, <2>4, <2>5
      <4> QED BY <2>6, <3>1, <4>1, <4>2, QueueAppend
    <3>2. CASE y # x
      BY <1>8, <2>6, <2>11, <3>2
    <3> QED BY <3>1, <3>2
  <2>12. \A y, z \in Service : \A h \in Sessions :
            /\ Token(y, h, z)' <=> Token(y, h, z) /\ ~(y = x /\ h = k /\ z = s)
            /\ OneDuty(y, h, z)'
    BY <1>13, <2>1, <2>9
  <2>13. \A y \in Service : /\ \A v \in Co : on[y][v] # 0 => state'[y][v] = state[y][v]
                            /\ y # s => /\ state'[y] = state[y] /\ unresponse'[y] = unresponse[y]
                                        /\ session_coroutine_id'[y] = session_coroutine_id[y]
                            /\ up[y] => QueueOK(mail'[y])
                            /\ Answers(y)' = IF y = x /\ up[x] THEN Answers(y) \cup {e} ELSE Answers(y)
    BY <1>12, <2>10, <2>11
  <2>14. /\ UNCHANGED <<up, timer, last, session_id_coroutine, watching_session, on, error_queue, broken, forgotten>>
         /\ answers' = IF up[x] THEN [answers EXCEPT ![x][k] = answers[x][k] + 1] ELSE answers
         /\ e.type \in {"response", "error"} /\ e.session = k /\ e.source = s
    BY <1>12, <2>3, <2>4, <2>8
  <2>15. up[s] /\ Token(x, k, s)
    BY <1>3, <2>4
  <2>16. e.type \in {"response", "error"} /\ e.session = k /\ e.source = s
    BY <2>8
  <2> QED BY ONLY Numbered, TableInv, TableInv', LedgerInv, s \in Service, x \in Service, k \in Sessions,
           <2>12, <2>13, <2>14, <2>15, <2>16, AnswerLedger, SMTT(90)
<1> QED BY <1>14, <1>15

-----------------------------------------------------------------------------
(***************************************************************************)
(* An error: the calls that it ends wait in error_queue.                   *)
(***************************************************************************)
LEMMA ErrorLedger ==
    ASSUME Numbered, TableInv, TableInv', LedgerInv, NEW s \in Service, DispatchError(s)
    PROVE  LedgerInv'
<1>0. /\ mail[s] \in Seq(Message) /\ mail[s] # <<>> /\ phase[s] = "idle" /\ TypeOK
      /\ Head(mail[s]).type = "error" /\ mail' = [mail EXCEPT ![s] = Tail(mail[s])]
      /\ UNCHANGED <<context, threads, session_coroutine_id, session_coroutine_address, history>>
  BY DEF TableInv, TypeOK, DispatchError, HeadIs
<1>1. PICK m : m = Head(mail[s])
  OBVIOUS
<1>2. PICK q \in Seq(Message) : q = mail[s]
  BY <1>0
<1>3. /\ up[s] /\ QueueOK(q) /\ Failing(s) /\ error_queue[s] = <<>>
  BY <1>0, <1>2, LedgerFacts DEF ControlAt, DrainsAt, Handled, Failing
<1>4. /\ ToSet(q) = ToSet(Tail(q)) \cup {m} /\ Tail(q) \in Seq(Message) /\ m \in Message
      /\ Unread(s) = ToSet(q) /\ Unread(s)' = ToSet(Tail(q)) /\ mail'[s] = Tail(q)
  <2>1. mail'[s] = Tail(q)
    BY <1>0, <1>2 DEF TypeOK
  <2> QED BY <1>0, <1>1, <1>2, <2>1, SeqTail DEF Unread
<1>5. \A x \in Service : x # s => mail'[x] = mail[x] /\ Unread(x)' = Unread(x) /\ Answers(x)' = Answers(x)
  BY <1>0 DEF TypeOK, Unread, Answers
<1>6. /\ QueueOK(Tail(q))
      /\ \A a \in Answers(s)' :
            /\ m.session # 0 => a.session # m.session
            /\ m.session = 0 /\ a.source = m.source => a.session = 0
  <2>1. \A a \in Answers(s)' : a \in ToSet(Tail(q)) /\ a.type # "request"
    BY <1>4 DEF Answers
  <2> QED BY <1>0, <1>1, <1>2, <1>3, <2>1, QueueTail
<1>7. m.type = "error" /\ m \in Answers(s) /\ Good(s, m)
  <2>1. m.type = "error" /\ m \in Answers(s)
    BY <1>0, <1>1, <1>4 DEF Answers
  <2> QED BY <1>3, <2>1, LedgerFacts
<1>8. PICK lost \in SUBSET Sessions : lost = {k \in Sessions : IF m.session = 0
                                  THEN watching_session[s][k] = m.source
                                  ELSE k = m.session /\ watching_session[s][k] # None}
  OBVIOUS
<1>9. PICK order \in SetToSeqs(lost) : error_queue' = [error_queue EXCEPT ![s] = error_queue[s] \o order]
  BY <1>1, <1>8 DEF DispatchError
<1>10. order \in Seq(lost) /\ ToSet(order) = lost /\ \A i, j \in DOMAIN order : order[i] = order[j] => i = j
  BY SessionFacts, OrderLists
<1>11. /\ error_queue'[s] = order /\ Due(s)' = lost /\ Due(s) = {}
       /\ \A x \in Service : x # s => error_queue'[x] = error_queue[x] /\ Due(x)' = Due(x)
  <2>1. error_queue'[s] = order
    BY <1>0, <1>3, <1>9, <1>10 DEF TypeOK
  <2>2. \A x \in Service : x # s => error_queue'[x] = error_queue[x]
    BY <1>0, <1>9 DEF TypeOK
  <2> QED BY <1>3, <1>10, <2>1, <2>2 DEF Due, ToSet
\* An error that tells of a service that is down, or one that ends a call.
<1>12. \/ m.session = 0 /\ m.source \in Service /\ ~up[m.source]
       \/ /\ m.session \in Sessions /\ m.source \in Service /\ m.session # 0
          /\ watching_session[s][m.session] = m.source /\ answers[s][m.session] = 1
  BY <1>7, SessionFacts DEF Good
<1>13. \A x, y \in Service, k \in Sessions : up[x] => (<<x, k>> \in unresponse'[y] <=> <<x, k>> \in unresponse[y])
  <2> SUFFICES ASSUME NEW x \in Service, NEW y \in Service, NEW k \in Sessions, up[x]
               PROVE  <<x, k>> \in unresponse'[y] <=> <<x, k>> \in unresponse[y]
    OBVIOUS
  <2>1. CASE m.session # 0
    BY <1>1, <2>1 DEF DispatchError
  <2>2. CASE m.session = 0
    <3>1. unresponse' = [unresponse EXCEPT ![s] = {r \in unresponse[s] : r[1] # m.source}]
      BY <1>1, <2>2 DEF DispatchError
    <3>2. unresponse'[y] = IF y = s THEN {r \in unresponse[s] : r[1] # m.source} ELSE unresponse[y]
      BY <1>0, <3>1 DEF TypeOK
    <3>3. x # m.source
      BY <1>12, <2>2, SessionFacts
    <3> QED BY <3>2, <3>3
  <2> QED BY <2>1, <2>2
<1>14. \A y \in Service : unresponse'[y] \subseteq unresponse[y]
  <2>1. CASE m.session # 0
    BY <1>1, <2>1 DEF DispatchError
  <2>2. CASE m.session = 0
    <3>1. unresponse' = [unresponse EXCEPT ![s] = {r \in unresponse[s] : r[1] # m.source}]
      BY <1>1, <2>2 DEF DispatchError
    <3> QED BY <1>0, <3>1 DEF TypeOK
  <2> QED BY <2>1, <2>2
<1>15. UNCHANGED <<up, timer, last, state, on, session_id_coroutine, watching_session, session_coroutine_id,
                   session_coroutine_address, answers, forgotten, broken>>
  BY <1>0 DEF context, threads, history
<1>16. \A x, y \in Service, k \in Sessions : Asked(x, k, y)' <=> Asked(x, k, y)
  <2>1. \A x, k : [type |-> "request", session |-> k, source |-> x] # m
    BY <1>7
  <2> QED BY <1>4, <1>5, <2>1 DEF Asked
<1>17. \A x, k : \A h : Dozes(x, h)' <=> Dozes(x, h)
  BY <1>15 DEF Dozes
<1>18. Box(s)'
  <2>1. ASSUME NEW a \in Answers(s)' PROVE Good(s, a)'
    <3>1. a \in Answers(s)
      BY <1>4, <2>1 DEF Answers
    <3>2. Good(s, a)
      BY <1>3, <3>1, LedgerFacts
    <3>3. CASE a.session = 0 /\ a.type = "error" /\ a.source \in Service /\ ~up[a.source]
      BY <1>15, <3>3 DEF Good
    <3>4. CASE /\ a.session \in Sessions /\ a.source \in Service
               /\ watching_session[s][a.session] = a.source
               /\ answers[s][a.session] = 1 /\ a.session \notin Due(s)
      <4>1. a.session \notin lost
        BY <1>6, <1>8, <1>12, <3>4, SessionFacts
      <4> QED BY <1>11, <1>15, <3>4, <4>1 DEF Good
    <3>5. CASE /\ a.session \in Sessions /\ a.source = None /\ a.type = "response"
               /\ a.session \notin timer[s] /\ Dozes(s, a.session)
      BY <1>15, <1>17, <3>5 DEF Good
    <3> QED BY <3>2, <3>3, <3>4, <3>5 DEF Good
  <2>2. \A h : Timed(s, h) => Timed(s, h)'
    <3>1. \A h : Alarm(h) # m
      BY <1>7 DEF Alarm
    <3>2. \A h : Alarm(h) \in Unread(s) => Alarm(h) \in Unread(s)'
      BY <1>4, <3>1 DEF Alarm
    <3> QED BY <1>15, <3>2 DEF Timed, Alarm
  <2>3. Timers(s)'
    <3>1. Timers(s)
      BY LedgerFacts
    <3> QED BY <1>15, <1>17, <2>2, <3>1 DEF Timers
  <2>4. Failing(s)'
    <3>1. \A k \in lost : watching_session[s][k] # None
      BY <1>8, <1>12, SessionFacts
    <3> QED BY <1>3, <1>10, <1>11, <1>15, <3>1 DEF Failing
  <2> QED BY <2>1, <2>3, <2>4 DEF Box
<1>19. ASSUME NEW x \in Service, x # s PROVE Box(x)'
  <2>1. Box(x) /\ ConnectedAt(x) /\ timer[x] \subseteq Sessions /\ on[x] \in [Co -> 0 .. MaxSession]
    BY LedgerFacts
  <2>2. \A c \in Co : state[x][c] = "sleep" => on[x][c] \in Sessions
    BY <2>1, SessionFacts DEF ConnectedAt
  <2> QED BY <1>5, <1>11, <1>15, <1>17, <1>19, <2>1, <2>2, BoxKept
<1>20. ASSUME NEW x \in Service PROVE (up[x] => QueueOK(mail'[x])) /\ Count(x)' /\ Gone(x)'
  <2>1. up[x] => QueueOK(mail'[x])
    BY <1>4, <1>5, <1>6, LedgerFacts
  <2>2. Count(x)'
    BY <1>15, LedgerFacts DEF Count
  <2>3. x # s => error_queue'[x] = error_queue[x]
    BY <1>11
  <2>4. Gone(x)'
    <3>1. Gone(x) /\ (x = s => up[x])
      BY <1>3, LedgerFacts
    <3>2. unresponse[x] = {} => unresponse'[x] = {}
      BY <1>14
    <3> QED BY <1>15, <2>3, <3>1, <3>2 DEF Gone
  <2> QED BY <2>1, <2>2, <2>4
<1>21. ASSUME NEW x \in Service, NEW k \in Sessions PROVE Cared(x, k)'
  <2>1. PICK w \in Service \cup {None} : w = watching_session[x][k]
    BY LedgerFacts
  <2> SUFFICES ASSUME w \in Service, w # None PROVE Cared(x, k)'
    BY <1>15, <2>1 DEF Cared
  <2>2. up[x] /\ Cared(x, k)
    BY <2>1, LedgerFacts DEF Gone
  <2>3. Token(x, k, w) => Token(x, k, w)'
    BY <1>13, <1>15, <1>16, <2>2 DEF Token, Owes
  <2>4. Reply(x, k, w) => Reply(x, k, w)' \/ k \in Due(x)'
    <3> SUFFICES ASSUME NEW a \in Answers(x), a.source = w, a.session = k \/ (a.type = "error" /\ a.session = 0)
                 PROVE  Reply(x, k, w)' \/ k \in Due(x)'
      BY DEF Reply
    <3>1. CASE a \in Answers(x)'
      BY <3>1 DEF Reply
    <3>2. CASE a \notin Answers(x)'
      <4>1. x = s /\ a = m
        BY <1>4, <1>5, <3>2 DEF Answers
      <4>2. k \in lost
        BY <1>8, <2>1, <4>1, SessionFacts
      <4> QED BY <1>11, <4>1, <4>2
    <3> QED BY <3>1, <3>2
  <2>5. k \in Due(x) => k \in Due(x)'
    BY <1>11
  <2>6. <<x, k>> \in forgotten \/ Token(x, k, w) \/ Reply(x, k, w) \/ k \in Due(x)
    BY <2>1, <2>2 DEF Cared
  <2>7. <<x, k>> \in forgotten' \/ Token(x, k, w)' \/ Reply(x, k, w)' \/ k \in Due(x)'
    BY <1>15, <2>3, <2>4, <2>5, <2>6
  <2>8. watching_session'[x][k] = w
    BY <1>15, <2>1
  <2> QED BY <2>7, <2>8 DEF Cared
<1>22. ASSUME NEW x \in Service, NEW k \in Sessions, NEW z \in Service PROVE Duty(x, k, z)'
  <2>1. Duty(x, k, z) /\ OneDuty(x, k, z)
    BY LedgerFacts DEF Duty, OneDuty
  <2>2. /\ Asked(x, k, z)' <=> Asked(x, k, z)
        /\ \A c \in Co : Owes(z, c, x, k)' <=> Owes(z, c, x, k)
        /\ <<x, k>> \in unresponse'[z] => <<x, k>> \in unresponse[z]
    BY <1>14, <1>15, <1>16 DEF Owes
  <2>3. OneDuty(x, k, z)' /\ (Token(x, k, z)' => Token(x, k, z))
    BY <2>1, <2>2 DEF Token, OneDuty
  <2>4. ASSUME up'[x], up'[z], Token(x, k, z)'
        PROVE  watching_session'[x][k] = z /\ answers'[x][k] = 0 /\ k \notin Due(x)'
    <3>1. up[z] /\ watching_session[x][k] = z /\ answers[x][k] = 0 /\ k \notin Due(x)
      BY <1>15, <2>1, <2>3, <2>4 DEF Duty, OneDuty
    <3>2. x = s => k \notin lost
      BY <1>8, <1>12, <3>1, SessionFacts
    <3> QED BY <1>11, <1>15, <3>1, <3>2
  <2> QED BY <2>3, <2>4 DEF Duty, OneDuty
<1> QED BY <1>18, <1>19, <1>20, <1>21, <1>22, <1>15 DEF LedgerInv, LedgerAt

-----------------------------------------------------------------------------
(***************************************************************************)
(* The timer, and the queue of a service that is gone.                     *)
(***************************************************************************)
LEMMA ExpireLedger ==
    ASSUME Numbered, TableInv, TableInv', LedgerInv, NEW s \in Service, NEW k \in timer[s], Expire(s, k)
    PROVE  LedgerInv'
<1>0. /\ mail \in [Service -> Seq(Message)] /\ timer \in [Service -> SUBSET Sessions]
      /\ k \in Sessions /\ Timers(s) /\ ConnectedAt(s)
  BY LedgerFacts DEF TableInv, TypeOK
<1>1. PICK a : a = Alarm(k)
  OBVIOUS
<1>2. a.type = "response" /\ a.session = k /\ a.source = None
  BY <1>1 DEF Alarm
<1>3. /\ timer' = [timer EXCEPT ![s] = timer[s] \ {k}] /\ Post(s, a)
      /\ UNCHANGED <<up, last, phase, running, threads, duties, pending, history>>
  BY <1>1 DEF Expire, Alarm
<1>4. up[s]
  BY LedgerFacts DEF Gone
<1>5. /\ Unread(s)' = Unread(s) \cup {a} /\ \A x \in Service : x # s => Unread(x)' = Unread(x) /\ mail'[x] = mail[x]
      /\ mail'[s] = Append(mail[s], a)
  BY <1>0, <1>3, <1>4, PostMail DEF Post
<1>6. timer'[s] = timer[s] \ {k} /\ \A x \in Service : x # s => timer'[x] = timer[x]
  BY <1>0, <1>3
<1>7. Dozes(s, k) /\ watching_session[s][k] = None
  <2>1. Dozes(s, k)
    BY <1>0 DEF Timers
  <2>2. /\ watching_session[s][k] # None <=> /\ session_id_coroutine[s][k] \in Co
                                             /\ state[s][session_id_coroutine[s][k]] = "call"
    BY <1>0 DEF ConnectedAt
  <2> QED BY <2>1, <2>2, SessionFacts DEF Dozes
<1>8. \A b \in Answers(s) : b.session # k /\ ~(b.type = "error" /\ b.session = 0 /\ b.source = None)
  <2> SUFFICES ASSUME NEW b \in Answers(s)
               PROVE  b.session # k /\ ~(b.type = "error" /\ b.session = 0 /\ b.source = None)
    OBVIOUS
  <2>1. Good(s, b)
    BY <1>4, LedgerFacts
  <2> QED BY <1>0, <1>7, <2>1, SessionFacts DEF Good
<1>9. UNCHANGED <<up, last, state, on, session_id_coroutine, watching_session, session_coroutine_id,
                  session_coroutine_address, unresponse, error_queue, answers, forgotten, broken>>
  BY <1>3 DEF threads, duties, pending, history
<1>10. /\ \A x, h : Dozes(x, h)' <=> Dozes(x, h)
       /\ \A x : Due(x)' = Due(x)
  BY <1>9 DEF Dozes, Due
<1>11. \A x, y \in Service, h \in Sessions : Asked(x, h, y)' <=> Asked(x, h, y)
  <2>1. \A x, h : [type |-> "request", session |-> h, source |-> x] # a
    BY <1>2
  <2> QED BY <1>5, <2>1 DEF Asked
<1>12. Answers(s)' = Answers(s) \cup {a} /\ \A x \in Service : x # s => Answers(x)' = Answers(x)
  BY <1>2, <1>5 DEF Answers
<1>13. Box(s)'
  <2>1. ASSUME NEW b \in Answers(s)' PROVE Good(s, b)'
    <3>1. CASE b = a
      BY <1>0, <1>2, <1>6, <1>7, <1>10, <3>1 DEF Good
    <3>2. CASE b \in Answers(s)
      <4>1. Good(s, b)
        BY <1>4, <3>2, LedgerFacts
      <4> QED BY <1>6, <1>9, <1>10, <4>1 DEF Good
    <3> QED BY <1>12, <2>1, <3>1, <3>2
  <2>2. Timers(s)'
    <3>1. \A h : Timed(s, h) => Timed(s, h)'
      <4>1. \A h : h \in timer[s] => h \in timer'[s] \/ Alarm(h) \in Unread(s)'
        BY <1>1, <1>5, <1>6
      <4> QED BY <1>5, <4>1 DEF Timed, Alarm
    <3> QED BY <1>0, <1>6, <1>9, <1>10, <3>1 DEF Timers
  <2>3. Failing(s)'
    <3>1. Failing(s)
      BY LedgerFacts
    <3> QED BY <1>9, <1>10, <3>1 DEF Failing
  <2> QED BY <2>1, <2>2, <2>3 DEF Box
<1>14. ASSUME NEW x \in Service, x # s PROVE Box(x)' /\ Gone(x)'
  <2>1. Box(x) /\ Gone(x) /\ ConnectedAt(x) /\ timer[x] \subseteq Sessions /\ on[x] \in [Co -> 0 .. MaxSession]
    BY LedgerFacts
  <2>2. \A c \in Co : state[x][c] = "sleep" => on[x][c] \in Sessions
    BY <2>1, SessionFacts DEF ConnectedAt
  <2>3. Box(x)'
    BY <1>6, <1>9, <1>10, <1>12, <1>14, <2>1, <2>2, BoxKept
  <2>4. Gone(x)'
    BY <1>6, <1>9, <1>14, <2>1 DEF Gone
  <2> QED BY <2>3, <2>4
<1>15. ASSUME NEW x \in Service PROVE (up[x] => QueueOK(mail'[x])) /\ Count(x)'
  <2>1. CASE x = s
    <3>1. PICK q \in Seq(Message) : q = mail[s]
      BY <1>0
    <3>2. QueueOK(q)
      BY <1>4, <3>1, LedgerFacts
    <3>3. Fresh(q, a)
      BY <1>2, <1>8, <3>1 DEF Fresh, Answers, Unread
    <3>4. QueueOK(Append(q, a))
      BY <3>2, <3>3, QueueAppend
    <3> QED BY <1>5, <1>9, <2>1, <3>1, <3>4, LedgerFacts DEF Count
  <2>2. CASE x # s
    BY <1>5, <1>9, <2>2, LedgerFacts DEF Count
  <2> QED BY <2>1, <2>2
<1>16. ASSUME NEW x \in Service, NEW h \in Sessions PROVE Cared(x, h)'
  <2>1. \A y \in Service : Token(x, h, y) => Token(x, h, y)'
    BY <1>9, <1>11 DEF Token, Owes
  <2>2. \A y : Reply(x, h, y) => Reply(x, h, y)'
    BY <1>12 DEF Reply
  <2>3. Cared(x, h) /\ watching_session[x][h] \in Service \cup {None}
    BY LedgerFacts
  <2> QED BY <1>9, <1>10, <2>1, <2>2, <2>3, CaredKept
<1>17. ASSUME NEW x \in Service, NEW h \in Sessions, NEW z \in Service PROVE Duty(x, h, z)'
  <2>1. Duty(x, h, z)
    BY LedgerFacts
  <2> QED BY <1>9, <1>10, <1>11, <2>1, DutyKept DEF Owes
<1>18. Gone(s)'
  BY <1>4, <1>9 DEF Gone
<1> QED BY <1>9, <1>13, <1>14, <1>15, <1>16, <1>17, <1>18 DEF LedgerInv, LedgerAt

LEMMA DropLedger ==
    ASSUME Numbered, TableInv, TableInv', LedgerInv, NEW s \in Service, DropMessage(s)
    PROVE  LedgerInv'
<1>0. /\ mail[s] \in Seq(Message) /\ mail[s] # <<>> /\ phase[s] = "gone" /\ mail \in [Service -> Seq(Message)]
      /\ UNCHANGED <<context, phase, running, threads, duties, pending, history>>
  BY DEF TableInv, TypeOK, DropMessage
<1>1. PICK m : m = Head(mail[s])
  OBVIOUS
<1>2. PICK q \in Seq(Message) : q = mail[s]
  BY <1>0
<1>3. /\ ~up[s] /\ Gone(s) /\ ~broken[s]
  BY <1>0, LedgerFacts DEF ControlAt, Failing
<1>4. /\ ToSet(q) = ToSet(Tail(q)) \cup {m} /\ Tail(q) \in Seq(Message) /\ m \in Message
      /\ Unread(s) = ToSet(q)
  BY <1>0, <1>1, <1>2, SeqTail DEF Unread
<1>5. PICK e : e = [type |-> "error", session |-> 0, source |-> s]
  OBVIOUS
<1>6. e.type = "error" /\ e.session = 0 /\ e.source = s
  BY <1>5
<1>7. UNCHANGED <<up, timer, last, state, on, session_id_coroutine, watching_session, session_coroutine_id,
                  session_coroutine_address, unresponse, error_queue, answers, forgotten, broken>>
  BY <1>0 DEF context, threads, duties, pending, history
<1>8. /\ Unread(s)' = ToSet(Tail(q))
      /\ \A x \in Service : x # s =>
            \/ mail'[x] = mail[x] /\ Unread(x)' = Unread(x) /\ (x # m.source \/ ~up[x])
            \/ mail'[x] = Append(mail[x], e) /\ Unread(x)' = Unread(x) \cup {e} /\ x = m.source /\ up[x]
  <2>1. PICK left : left = [mail EXCEPT ![s] = Tail(q)]
    OBVIOUS
  <2>2. /\ left \in [Service -> Seq(Message)] /\ left[s] = Tail(q)
        /\ \A y \in Service : y # s => left[y] = mail[y]
    BY <1>0, <1>4, <2>1
  <2>3. CASE m.source = None \/ ~up[m.source]
    <3>1. mail' = left
      BY <1>1, <1>2, <2>1, <2>3 DEF DropMessage
    <3>2. \A x \in Service : x # m.source \/ ~up[x]
      BY <2>3, SessionFacts
    <3> QED BY <2>2, <3>1, <3>2 DEF Unread
  <2>4. CASE ~(m.source = None \/ ~up[m.source])
    <3>1. PICK x \in Service : x = m.source
      BY <1>4, <2>4 DEF Message
    <3>2. mail' = [left EXCEPT ![x] = Append(left[x], e)] /\ up[x] /\ x # s
      BY <1>1, <1>2, <1>3, <1>5, <2>1, <2>4, <3>1 DEF DropMessage
    <3>3. PICK p \in Seq(Message) : p = mail[x]
      BY <1>0
    <3>4. /\ mail'[x] = Append(p, e) /\ mail'[s] = Tail(q)
          /\ \A y \in Service : y # s /\ y # x => mail'[y] = mail[y]
      BY <2>2, <3>2, <3>3
    <3>5. Unread(x)' = Unread(x) \cup {e}
      BY <3>3, <3>4, SeqAppend DEF Unread
    <3> QED BY <3>1, <3>2, <3>3, <3>4, <3>5 DEF Unread
  <2> QED BY <2>3, <2>4
<1>9. /\ \A x, h : Dozes(x, h)' <=> Dozes(x, h)
      /\ \A x : Due(x)' = Due(x)
  BY <1>7 DEF Dozes, Due
<1>10. /\ \A x, y \in Service, h \in Sessions : Asked(x, h, y)' => Asked(x, h, y)
       /\ \A x, y \in Service, h \in Sessions : Asked(x, h, y) =>
             Asked(x, h, y)' \/ (y = s /\ m = [type |-> "request", session |-> h, source |-> x])
  <2>1. \A x, h : [type |-> "request", session |-> h, source |-> x] # e
    BY <1>6
  <2> QED BY <1>4, <1>8, <2>1 DEF Asked
<1>11. \A x \in Service : x # s => Answers(x)' = Answers(x) \/ Answers(x)' = Answers(x) \cup {e}
  BY <1>6, <1>8 DEF Answers
<1>12. ASSUME NEW x \in Service PROVE Gone(x)' /\ Count(x)' /\ (up[x] => QueueOK(mail'[x]))
  <2>1. Gone(x)' /\ Count(x)'
    BY <1>7, LedgerFacts DEF Gone, Count
  <2>2. ASSUME up[x] PROVE QueueOK(mail'[x])
    <3>1. PICK p \in Seq(Message) : p = mail[x]
      BY <1>0
    <3>2. QueueOK(p) /\ Fresh(p, e)
      BY <1>6, <2>2, <3>1, LedgerFacts DEF Fresh
    <3>3. QueueOK(Append(p, e))
      BY <3>2, QueueAppend
    <3> QED BY <1>3, <1>8, <2>2, <3>1, <3>2, <3>3
  <2> QED BY <2>1, <2>2
<1>13. Box(s)'
  <2>2. Timers(s)'
    BY <1>3, <1>7, SessionFacts DEF Gone, Timers
  <2>3. Failing(s)'
    BY <1>3, <1>7, <1>9, LedgerFacts DEF Failing
  <2> QED BY <1>3, <1>7, <2>2, <2>3 DEF Box
<1>14. ASSUME NEW x \in Service, x # s PROVE Box(x)'
  <2>1. /\ Box(x) /\ ConnectedAt(x) /\ timer[x] \subseteq Sessions /\ on[x] \in [Co -> 0 .. MaxSession]
        /\ Timers(x) /\ Failing(x)
    BY LedgerFacts
  <2>2. ASSUME up[x], NEW b \in Answers(x)' PROVE Good(x, b)'
    <3>1. CASE b = e
      BY <1>3, <1>6, <1>7, <3>1 DEF Good
    <3>2. CASE b \in Answers(x)
      <4>1. Good(x, b)
        BY <2>2, <3>2, LedgerFacts
      <4> QED BY <1>7, <1>9, <4>1 DEF Good
    <3> QED BY <1>11, <1>14, <2>2, <3>1, <3>2
  <2>3. Timers(x)'
    <3>1. \A h : Timed(x, h) => Timed(x, h)'
      <4>1. \A h : Alarm(h) \in Unread(x) => Alarm(h) \in Unread(x)'
        BY <1>8, <1>14
      <4> QED BY <1>7, <4>1 DEF Timed, Alarm
    <3> QED BY <1>7, <1>9, <2>1, <3>1 DEF Timers
  <2>4. Failing(x)'
    BY <1>7, <1>9, <2>1 DEF Failing
  <2> QED BY <1>7, <2>2, <2>3, <2>4 DEF Box
<1>15. ASSUME NEW x \in Service, NEW h \in Sessions PROVE Cared(x, h)'
  <2>1. PICK w \in Service \cup {None} : w = watching_session[x][h]
    BY LedgerFacts
  <2> SUFFICES ASSUME w \in Service, w # None PROVE Cared(x, h)'
    BY <1>7, <2>1 DEF Cared
  <2>2. up[x] /\ Cared(x, h) /\ x # s
    BY <1>3, <2>1, LedgerFacts DEF Gone
  <2>3. Reply(x, h, w) => Reply(x, h, w)'
    BY <1>11, <2>2 DEF Reply
  <2>4. Token(x, h, w) => Token(x, h, w)' \/ Reply(x, h, w)'
    <3>1. CASE w = s /\ m = [type |-> "request", session |-> h, source |-> x]
      <4>1. e \in Answers(x)'
        BY <1>6, <1>8, <2>2, <3>1 DEF Answers
      <4> QED BY <1>6, <3>1, <4>1 DEF Reply
    <3>2. CASE ~(w = s /\ m = [type |-> "request", session |-> h, source |-> x])
      BY <1>7, <1>10, <3>2 DEF Token, Owes
    <3> QED BY <3>1, <3>2
  <2>5. <<x, h>> \in forgotten \/ Token(x, h, w) \/ Reply(x, h, w) \/ h \in Due(x)
    BY <2>1, <2>2 DEF Cared
  <2>6. <<x, h>> \in forgotten' \/ Token(x, h, w)' \/ Reply(x, h, w)' \/ h \in Due(x)'
    BY <1>7, <1>9, <2>3, <2>4, <2>5
  <2>7. watching_session'[x][h] = w
    BY <1>7, <2>1
  <2> QED BY <2>6, <2>7 DEF Cared
<1>16. ASSUME NEW x \in Service, NEW h \in Sessions, NEW z \in Service PROVE Duty(x, h, z)'
  <2>1. Duty(x, h, z)
    BY LedgerFacts
  <2> QED BY <1>7, <1>9, <1>10, <2>1, DutyKept DEF Owes
<1> QED BY <1>7, <1>12, <1>13, <1>14, <1>15, <1>16 DEF LedgerInv, LedgerAt

-----------------------------------------------------------------------------
(***************************************************************************)
(* An exit: every duty of the service is answered, and every service that  *)
(* waits for it is told.                                                   *)
(***************************************************************************)
LEMMA ExitLedger ==
    ASSUME Numbered, TableInv, TableInv', LedgerInv, NEW s \in Service, NEW c \in Co, Exit(s, c)
    PROVE  LedgerInv'
<1>0. /\ phase[s] = "run" /\ TypeOK /\ mail \in [Service -> Seq(Message)]
      /\ up' = [up EXCEPT ![s] = FALSE] /\ UNCHANGED <<last, forgotten, broken>>
      /\ state' = [state EXCEPT ![s] = [v \in Co |-> "free"]]
      /\ on' = [on EXCEPT ![s] = [v \in Co |-> 0]]
      /\ timer' = [timer EXCEPT ![s] = {}]
      /\ session_id_coroutine' = [session_id_coroutine EXCEPT ![s] = [k \in Sessions |-> None]]
      /\ watching_session' = [watching_session EXCEPT ![s] = [k \in Sessions |-> None]]
      /\ session_coroutine_id' = [session_coroutine_id EXCEPT ![s] = [v \in Co |-> None]]
      /\ session_coroutine_address' = [session_coroutine_address EXCEPT ![s] = [v \in Co |-> None]]
      /\ unresponse' = [unresponse EXCEPT ![s] = {}]
      /\ error_queue' = [error_queue EXCEPT ![s] = <<>>]
  BY DEF TableInv, TypeOK, Exit, Leave, Does
<1>1. up[s]
  BY <1>0, LedgerFacts DEF ControlAt
\* The row of s is empty, the others are what they were.
<1>2. /\ ~up'[s] /\ state'[s] = [v \in Co |-> "free"] /\ on'[s] = [v \in Co |-> 0] /\ timer'[s] = {}
      /\ session_id_coroutine'[s] = [k \in Sessions |-> None]
      /\ watching_session'[s] = [k \in Sessions |-> None]
      /\ session_coroutine_id'[s] = [v \in Co |-> None] /\ unresponse'[s] = {} /\ error_queue'[s] = <<>>
  BY <1>0 DEF TypeOK
<1>3. \A x \in Service : x # s =>
         /\ up'[x] = up[x] /\ state'[x] = state[x] /\ on'[x] = on[x] /\ timer'[x] = timer[x]
         /\ session_id_coroutine'[x] = session_id_coroutine[x]
         /\ watching_session'[x] = watching_session[x]
         /\ session_coroutine_id'[x] = session_coroutine_id[x]
         /\ session_coroutine_address'[x] = session_coroutine_address[x]
         /\ unresponse'[x] = unresponse[x] /\ error_queue'[x] = error_queue[x] /\ Due(x)' = Due(x)
  <2> SUFFICES ASSUME NEW x \in Service, x # s
               PROVE  /\ up'[x] = up[x] /\ state'[x] = state[x] /\ on'[x] = on[x] /\ timer'[x] = timer[x]
                      /\ session_id_coroutine'[x] = session_id_coroutine[x]
                      /\ watching_session'[x] = watching_session[x]
                      /\ session_coroutine_id'[x] = session_coroutine_id[x]
                      /\ session_coroutine_address'[x] = session_coroutine_address[x]
                      /\ unresponse'[x] = unresponse[x] /\ error_queue'[x] = error_queue[x] /\ Due(x)' = Due(x)
    OBVIOUS
  <2>1. error_queue'[x] = error_queue[x]
    BY <1>0 DEF TypeOK
  <2> QED BY <1>0, <2>1 DEF TypeOK, Due
\* The errors.
<1>4. \A x \in Service, k \in Sessions : k \in Owed(s, x) => Token(x, k, s)
  <2> SUFFICES ASSUME NEW x \in Service, NEW k \in Sessions, k \in Owed(s, x) PROVE Token(x, k, s)
    OBVIOUS
  <2>1. CASE <<x, k>> \in unresponse[s]
    BY <2>1 DEF Token
  <2>2. ASSUME NEW v \in Co, <<x, k>> \in Debt(s, v) PROVE Token(x, k, s)
    BY <2>2 DEF Debt, Token, Owes
  <2> QED BY <2>1, <2>2 DEF Owed
<1>5. \A x \in Service, k \in Sessions : Token(x, k, s) => k \in Owed(s, x) \/ Asked(x, k, s)
  <2> SUFFICES ASSUME NEW x \in Service, NEW k \in Sessions, Token(x, k, s), ~Asked(x, k, s)
               PROVE  k \in Owed(s, x)
    OBVIOUS
  <2>1. CASE <<x, k>> \in unresponse[s]
    BY <2>1 DEF Owed
  <2>2. ASSUME NEW v \in Co, Owes(s, v, x, k) PROVE k \in Owed(s, x)
    BY <2>2 DEF Owed, Owes, Debt
  <2> QED BY <2>1, <2>2 DEF Token
<1>6. \A x \in Service : Owed(s, x) \in SUBSET Sessions
  BY DEF Owed
<1>7. \A x \in Service :
         /\ ~up[x] => mail'[x] = mail[x] /\ Unread(x)' = Unread(x)
         /\ up[x] => mail'[x] = mail[x] \o Farewell(s, x, Owed(s, x))
                     /\ Unread(x)' = Unread(x) \cup ToSet(Farewell(s, x, Owed(s, x)))
  <2>1. mail' = [x \in Service |-> IF up[x] THEN mail[x] \o Farewell(s, x, Owed(s, x)) ELSE mail[x]]
    BY DEF Exit, Leave
  <2> QED BY <1>0, <2>1, ExitMail
<1>8. \A x \in Service, k \in Sessions :
         answers'[x][k] = IF up[x] /\ k \in Owed(s, x) THEN answers[x][k] + 1 ELSE answers[x][k]
  BY DEF Exit, Leave
<1>9. ASSUME NEW x \in Service, NEW e \in ToSet(Farewell(s, x, Owed(s, x)))
      PROVE  /\ e.type = "error" /\ e.source = s
             /\ e.session \in Owed(s, x) \/ e.session = 0
  <2>1. PICK ks \in SUBSET Sessions : ks = Owed(s, x)
    BY <1>6
  <2>0. PICK f : f = Farewell(s, x, ks)
    OBVIOUS
  <2>2. \A i \in DOMAIN f : /\ f[i].type = "error" /\ f[i].source = s
                            /\ f[i].session \in ks \/ f[i].session = 0
    <3> QED BY ONLY <2>0, Numbered, s \in Service, x \in Service, ks \in SUBSET Sessions, FarewellFacts, ZenonT(60)
  <2>3. PICK i \in DOMAIN f : e = f[i]
    BY <2>0, <2>1 DEF ToSet
  <2> QED BY <2>1, <2>2, <2>3
<1>10. ASSUME NEW x \in Service, NEW k \in Owed(s, x), up[x]
       PROVE  \E e \in Answers(x)' : e.session = k /\ e.source = s
  <2>1. PICK e : e = [type |-> "error", session |-> k, source |-> s]
    OBVIOUS
  <2>2. e \in ToSet(Farewell(s, x, Owed(s, x)))
    BY <1>6, <2>1, FarewellFacts
  <2>3. e \in Unread(x)' /\ e.type = "error" /\ e.session = k /\ e.source = s
    BY <1>7, <1>10, <2>1, <2>2
  <2> QED BY <2>3 DEF Answers
<1>11. \A x, y \in Service, k \in Sessions : Asked(x, k, y)' <=> Asked(x, k, y)
  <2> SUFFICES ASSUME NEW x \in Service, NEW y \in Service, NEW k \in Sessions
               PROVE  Asked(x, k, y)' <=> Asked(x, k, y)
    OBVIOUS
  <2>1. PICK r : r = [type |-> "request", session |-> k, source |-> x]
    OBVIOUS
  <2>2. r \notin ToSet(Farewell(s, y, Owed(s, y)))
    BY <1>9, <2>1
  <2> QED BY <1>7, <2>1, <2>2 DEF Asked
<1>12. /\ \A x \in Service : ~up[x] => Answers(x)' = Answers(x)
       /\ \A x \in Service : \A a \in Answers(x)' : a \in Answers(x) \/ a \in ToSet(Farewell(s, x, Owed(s, x)))
       /\ \A x \in Service : \A a \in Answers(x) : a \in Answers(x)'
  BY <1>7 DEF Answers
\* Nothing that waits is another answer to what the exit answers.
<1>13. ASSUME NEW x \in Service, up[x], NEW k \in Owed(s, x)
       PROVE  /\ watching_session[x][k] = s /\ answers[x][k] = 0 /\ k \notin Due(x) /\ ~(k > last[x])
              /\ \A a \in Answers(x) : a.session # k
  <2>1. k \in Sessions /\ Token(x, k, s)
    BY <1>4, <1>6
  <2> QED BY <1>1, <1>13, <2>1, AnswerFresh
<1>14. ASSUME NEW x \in Service PROVE Count(x)'
  <2> SUFFICES ASSUME NEW k \in Sessions
               PROVE  answers'[x][k] <= 1 /\ (k > last'[x] => answers'[x][k] = 0)
    BY DEF Count
  <2>1. CASE up[x] /\ k \in Owed(s, x)
    <3>1. answers'[x][k] = 1 /\ ~(k > last[x])
      BY <1>8, <1>13, <2>1
    <3> QED BY <1>0, <3>1
  <2>2. CASE ~(up[x] /\ k \in Owed(s, x))
    BY <1>0, <1>8, <2>2, LedgerFacts DEF Count
  <2> QED BY <2>1, <2>2
<1>15. ASSUME NEW x \in Service PROVE Gone(x)'
  <2>1. CASE x = s
    BY <1>2, <2>1 DEF Gone
  <2>2. CASE x # s
    <3>1. Gone(x)
      BY LedgerFacts
    <3>2. ~up'[x] => ~up[x]
      BY <1>3, <2>2
    <3> SUFFICES ASSUME ~up[x] PROVE Gone(x)'
      BY <3>2 DEF Gone
    <3>3. /\ timer[x] = {} /\ unresponse[x] = {} /\ error_queue[x] = <<>>
          /\ \A v \in Co : session_coroutine_id[x][v] = None /\ state[x][v] = "free"
          /\ \A k \in Sessions : watching_session[x][k] = None /\ session_id_coroutine[x][k] = None
      BY <3>1 DEF Gone
    <3>4. /\ timer'[x] = {} /\ unresponse'[x] = {} /\ error_queue'[x] = <<>>
          /\ \A v \in Co : session_coroutine_id'[x][v] = None /\ state'[x][v] = "free"
          /\ \A k \in Sessions : watching_session'[x][k] = None /\ session_id_coroutine'[x][k] = None
      BY <1>3, <2>2, <3>3
    <3> QED BY <3>4 DEF Gone
  <2> QED BY <2>1, <2>2
<1>16. ASSUME NEW x \in Service, up'[x] PROVE QueueOK(mail'[x])
  <2>1. up[x] /\ x # s
    BY <1>2, <1>3, <1>16
  <2>2. PICK q \in Seq(Message) : q = mail[x]
    BY <1>0
  <2>3. QueueOK(q) /\ mail'[x] = q \o Farewell(s, x, Owed(s, x))
    BY <1>7, <2>1, <2>2, LedgerFacts
  <2>4. ASSUME NEW a \in ToSet(q), a.type # "request"
        PROVE  a.session \notin Owed(s, x) /\ ~(a.type = "error" /\ a.session = 0 /\ a.source = s)
    <3>1. a \in Answers(x) /\ Good(x, a)
      BY <2>1, <2>2, <2>4, LedgerFacts DEF Answers, Unread
    <3>2. a.session \notin Owed(s, x)
      BY <1>13, <2>1, <3>1
    <3> QED BY <1>1, <3>1, <3>2, SessionFacts DEF Good
  <2> QED BY <1>6, <2>3, <2>4, QueueFarewell
<1>17. Box(s)'
  <2>1. Timers(s)'
    BY <1>2, SessionFacts DEF Timers
  <2>2. Failing(s)'
    <3>1. ~broken'[s] /\ Due(s)' = {}
      BY <1>0, <1>2, LedgerFacts DEF Failing, Due, ToSet
    <3> QED BY <1>2, <3>1 DEF Failing
  <2> QED BY <1>2, <2>1, <2>2 DEF Box
<1>18. ASSUME NEW x \in Service, x # s PROVE Box(x)'
  <2>1. Timers(x) /\ Failing(x) /\ \A h : Dozes(x, h)' <=> Dozes(x, h)
    BY <1>3, <1>18, LedgerFacts DEF Dozes
  <2>2. ASSUME up'[x], NEW a \in Answers(x)' PROVE Good(x, a)'
    <3>0. up[x]
      BY <1>3, <1>18, <2>2
    <3>1. CASE a \in ToSet(Farewell(s, x, Owed(s, x)))
      <4>1. a.type = "error" /\ a.source = s
        BY <1>9, <3>1
      <4>2. CASE a.session = 0
        BY <1>2, <4>1, <4>2 DEF Good
      <4>3. CASE a.session \in Owed(s, x)
        <5>1. /\ watching_session[x][a.session] = s /\ answers[x][a.session] = 0 /\ a.session \notin Due(x)
              /\ a.session \in Sessions
          BY <1>6, <1>13, <3>0, <4>3
        <5>2. answers'[x][a.session] = 1
          BY <1>8, <3>0, <4>3, <5>1
        <5> QED BY <1>3, <1>18, <4>1, <5>1, <5>2 DEF Good
      <4> QED BY <1>9, <3>1, <4>2, <4>3
    <3>2. CASE a \in Answers(x)
      <4>1. Good(x, a) /\ a.session \notin Owed(s, x)
        BY <1>13, <3>0, <3>2, LedgerFacts
      <4>2. a.session \in Sessions => answers'[x][a.session] = answers[x][a.session]
        BY <1>8, <4>1
      <4>3. CASE a.session = 0 /\ a.type = "error" /\ a.source \in Service /\ ~up[a.source]
        <5>1. ~up'[a.source]
          BY <1>1, <1>3, <4>3
        <5> QED BY <4>3, <5>1 DEF Good
      <4>4. CASE /\ a.session \in Sessions /\ a.source \in Service
                 /\ watching_session[x][a.session] = a.source
                 /\ answers[x][a.session] = 1 /\ a.session \notin Due(x)
        BY <1>3, <1>18, <4>2, <4>4 DEF Good
      <4>5. CASE /\ a.session \in Sessions /\ a.source = None /\ a.type = "response"
                 /\ a.session \notin timer[x] /\ Dozes(x, a.session)
        BY <1>3, <1>18, <2>1, <4>5 DEF Good
      <4> QED BY <4>1, <4>3, <4>4, <4>5 DEF Good
    <3> QED BY <1>12, <2>2, <3>1, <3>2
  <2>3. Timers(x)'
    <3>1. \A h : Timed(x, h) => Timed(x, h)'
      <4>1. \A h : Alarm(h) \in Unread(x) => Alarm(h) \in Unread(x)'
        BY <1>7
      <4> QED BY <1>3, <1>18, <4>1 DEF Timed, Alarm
    <3> QED BY <1>3, <1>18, <2>1, <3>1 DEF Timers
  <2>4. Failing(x)'
    BY <1>0, <1>3, <1>18, <2>1 DEF Failing
  <2> QED BY <2>2, <2>3, <2>4 DEF Box
<1>19. ASSUME NEW x \in Service, NEW k \in Sessions PROVE Cared(x, k)'
  <2>1. CASE x = s
    BY <1>2, <2>1 DEF Cared
  <2>2. CASE x # s
    <3>1. PICK w \in Service \cup {None} : w = watching_session[x][k]
      BY LedgerFacts
    <3>2. watching_session'[x][k] = w
      BY <1>3, <2>2, <3>1
    <3> SUFFICES ASSUME w \in Service, w # None PROVE Cared(x, k)'
      BY <3>1, <3>2 DEF Cared
    <3>3. up[x] /\ Cared(x, k)
      BY <3>1, LedgerFacts DEF Gone
    <3>4. Reply(x, k, w) => Reply(x, k, w)'
      BY <1>12 DEF Reply
    <3>5. Token(x, k, w) => Token(x, k, w)' \/ Reply(x, k, w)'
      <4>1. CASE w # s
        BY <1>3, <1>11, <4>1 DEF Token, Owes
      <4>2. CASE w = s /\ Asked(x, k, s)
        BY <1>11, <4>2 DEF Token
      <4>3. CASE w = s /\ k \in Owed(s, x)
        BY <1>10, <3>3, <4>3 DEF Reply
      <4> QED BY <1>5, <4>1, <4>2, <4>3
    <3>6. <<x, k>> \in forgotten \/ Token(x, k, w) \/ Reply(x, k, w) \/ k \in Due(x)
      BY <3>1, <3>3 DEF Cared
    <3>7. <<x, k>> \in forgotten' \/ Token(x, k, w)' \/ Reply(x, k, w)' \/ k \in Due(x)'
      BY <1>0, <1>3, <2>2, <3>4, <3>5, <3>6
    <3> QED BY <3>2, <3>7 DEF Cared
  <2> QED BY <2>1, <2>2
<1>20. ASSUME NEW x \in Service, NEW k \in Sessions, NEW z \in Service PROVE Duty(x, k, z)'
  <2>1. Duty(x, k, z) /\ OneDuty(x, k, z)
    BY LedgerFacts DEF Duty, OneDuty
  <2>2. CASE z = s
    <3>1. OneDuty(x, k, z)'
      BY <1>2, <2>2, SessionFacts DEF OneDuty, Owes
    <3> QED BY <1>2, <2>2, <3>1 DEF Duty, OneDuty
  <2>3. CASE z # s
    <3>1. /\ \A v \in Co : Owes(z, v, x, k)' <=> Owes(z, v, x, k)
          /\ unresponse'[z] = unresponse[z]
      BY <1>3, <2>3 DEF Owes
    <3>2. OneDuty(x, k, z)' /\ (Token(x, k, z)' => Token(x, k, z))
      BY <1>11, <2>1, <3>1 DEF Token, OneDuty
    <3>3. ASSUME up'[x], up'[z], Token(x, k, z)'
          PROVE  watching_session'[x][k] = z /\ answers'[x][k] = 0 /\ k \notin Due(x)'
      <4>1. x # s /\ up[x] /\ up[z]
        BY <1>2, <1>3, <2>3, <3>3
      <4>2. watching_session[x][k] = z /\ answers[x][k] = 0 /\ k \notin Due(x)
        BY <2>1, <3>2, <3>3, <4>1 DEF Duty, OneDuty
      <4>3. k \notin Owed(s, x)
        BY <1>13, <2>3, <4>1, <4>2
      <4> QED BY <1>3, <1>8, <4>1, <4>2, <4>3
    <3> QED BY <3>2, <3>3 DEF Duty, OneDuty
  <2> QED BY <2>2, <2>3
<1>21. ASSUME NEW x \in Service PROVE LedgerAt(x)'
  BY <1>14, <1>15, <1>16, <1>17, <1>18, <1>19, <1>20 DEF LedgerAt
<1> QED BY <1>21 DEF LedgerInv

-----------------------------------------------------------------------------
(***************************************************************************)
(* The ledger holds from the start, and every step keeps it.               *)
(***************************************************************************)
LEMMA LedgerInit == ASSUME Numbered, Init PROVE LedgerInv
<1>0. PICK main \in Co : /\ state = [s \in Service |-> [c \in Co |-> IF c = main THEN "ready" ELSE "free"]]
                         /\ session_id_coroutine = [s \in Service |-> [k \in Sessions |-> IF k = 1 THEN main ELSE None]]
  <2>1. (CHOOSE c \in Co : TRUE) \in Co
    BY DEF Numbered, SessionAssumption
  <2> QED BY <2>1 DEF Init
<1>1. SUFFICES ASSUME NEW s \in Service PROVE LedgerAt(s)
  BY DEF LedgerInv
<1>2. /\ up[s] /\ mail[s] = <<>> /\ timer[s] = {1} /\ last[s] = 1 /\ unresponse[s] = {}
      /\ watching_session[s] = [k \in Sessions |-> None] /\ error_queue[s] = <<>>
      /\ answers[s] = [k \in Sessions |-> 0] /\ forgotten = {} /\ ~broken[s]
      /\ \A x \in Service : mail[x] = <<>> /\ unresponse[x] = {}
                            /\ session_coroutine_id[x] = [c \in Co |-> None]
  BY DEF Init
<1>3. \A x \in Service : Unread(x) = {} /\ Answers(x) = {}
  BY <1>2 DEF Unread, Answers, ToSet
<1>4. Due(s) = {}
  BY <1>2 DEF Due, ToSet
<1>5. 1 \in Sessions /\ session_id_coroutine[s][1] = main /\ state[s][main] = "ready"
  <2>1. 1 \in Sessions
    BY DEF Sessions, Numbered, SessionAssumption
  <2> QED BY <1>0, <2>1
<1>6. Timers(s)
  <2>1. Dozes(s, 1)
    BY <1>5 DEF Dozes
  <2>2. \A k \in Sessions : session_id_coroutine[s][k] # Break
    BY <1>0, SessionFacts
  <2>3. \A c \in Co : state[s][c] # "sleep"
    BY <1>0
  <2> QED BY <1>2, <2>1, <2>2, <2>3 DEF Timers
<1>7. Failing(s)
  BY <1>2, <1>4 DEF Failing
<1>8. Box(s) /\ QueueOK(mail[s])
  BY <1>2, <1>3, <1>6, <1>7 DEF Box, QueueOK
<1>9. Count(s) /\ Gone(s)
  BY <1>2 DEF Count, Gone
<1>10. \A k \in Sessions, d \in Service : Duty(s, k, d) /\ Cared(s, k)
  <2> SUFFICES ASSUME NEW k \in Sessions, NEW d \in Service PROVE Duty(s, k, d) /\ Cared(s, k)
    OBVIOUS
  <2>1. ~Asked(s, k, d) /\ \A c \in Co : ~Owes(d, c, s, k)
    BY <1>2, <1>3, SessionFacts DEF Asked, Owes
  <2>2. ~Token(s, k, d)
    BY <1>2, <2>1 DEF Token
  <2> QED BY <1>2, <2>1, <2>2 DEF Duty, OneDuty, Cared
<1> QED BY <1>8, <1>9, <1>10 DEF LedgerAt

LEMMA LedgerStep ==
    ASSUME Numbered, Patient, TableInv, TableInv', LedgerInv, [Next]_vars
    PROVE  LedgerInv'
<1>1. CASE UNCHANGED vars
  <2>1. UNCHANGED <<mail, state, up, timer, last, session_id_coroutine, watching_session, on, error_queue, answers,
                    session_coroutine_id, session_coroutine_address, unresponse, forgotten, broken>>
    BY <1>1 DEF vars, context, threads, duties, pending, history
  <2>2. \A x \in Service : last'[x] >= last[x]
    <3>1. \A x \in Service : last[x] \in Nat
      BY LedgerFacts, SessionFacts
    <3> QED BY <2>1, <3>1
  <2> QED BY <2>1, <2>2, SameMail, StillLedger
<1>2. ASSUME NEW s \in Service, Scheduler(s) PROVE LedgerInv'
  <2>1. CASE DispatchWakeup(s)
    BY <2>1, WakeupLedger, StillStep
  <2>2. CASE Drained(s) \/ StartFork(s) \/ MessageDone(s)
    BY <2>2, StillStep
  <2> QED BY <1>2, <2>1, <2>2, ResponseLedger, RequestLedger, RefuseLedger, ErrorLedger, ErrorQueueLedger
          DEF Scheduler
<1>3. ASSUME NEW s \in Service, Runs(s) PROVE LedgerInv'
  <2>0. PICK c \in Co :
          \/ Sleep(s, c) \/ Wait(s, c) \/ Ret(s, c) \/ Response(s, c)
          \/ Finish(s, c) \/ Fail(s, c) \/ Exit(s, c)
          \/ \E d \in Service : Call(s, c, d) \/ Send(s, c, d)
          \/ \E r \in unresponse[s] : Respond(s, c, r)
          \/ \E v \in Co : \/ Wakeup(s, c, v) \/ Fork(s, c, v) \/ Timeout(s, c, v)
                           \/ KillForked(s, c, v) \/ Kill(s, c, v)
    BY <1>3 DEF Runs
  <2>1. CASE Sleep(s, c) \/ Wait(s, c)
    BY <2>1, BeginStep
  <2>2. CASE Ret(s, c) \/ Response(s, c) \/ Finish(s, c)
    BY <2>2, RetLedger, ClosureLedger, FinishLedger
  <2>3. CASE Fail(s, c) \/ Exit(s, c)
    BY <2>3, FailLedger, ExitLedger
  <2>4. ASSUME NEW d \in Service, Call(s, c, d) PROVE LedgerInv'
    <3>1. CASE up[d]
      BY <2>4, <3>1, BeginStep
    <3>2. CASE ~up[d]
      BY <2>4, <3>2, StillStep
    <3> QED BY <3>1, <3>2
  <2>5. ASSUME NEW d \in Service, Send(s, c, d) PROVE LedgerInv'
    BY <2>5, StillStep
  <2>6. ASSUME NEW r \in unresponse[s], Respond(s, c, r) PROVE LedgerInv'
    BY <2>6, RespondLedger
  <2>7. ASSUME NEW v \in Co, Wakeup(s, c, v) \/ Fork(s, c, v) PROVE LedgerInv'
    BY <2>7, StillStep
  <2>8. ASSUME NEW v \in Co, Timeout(s, c, v) PROVE LedgerInv'
    BY <2>8, BeginStep
  <2>9. \A v \in Co : ~KillForked(s, c, v) /\ ~Kill(s, c, v)
    BY DEF Patient, KillForked, Kill, Does
  <2> QED BY <2>0, <2>1, <2>2, <2>3, <2>4, <2>5, <2>6, <2>7, <2>8, <2>9
<1>4. ASSUME NEW s \in Service, DropMessage(s) PROVE LedgerInv'
  BY <1>4, DropLedger
<1>5. ASSUME NEW s \in Service, NEW k \in timer[s], Expire(s, k) PROVE LedgerInv'
  BY <1>5, ExpireLedger
<1> QED BY <1>1, <1>2, <1>3, <1>4, <1>5 DEF Next

\* Services that do not kill their coroutines (lualib/skynet.lua): a request is
\* answered once at most, no call waits for an answer that cannot come, a message
\* is done when all it led to is done, and no timeout or response is unexpected.
THEOREM LedgerKept ==
    ASSUME Numbered, Patient PROVE Spec => [](AnsweredOnce /\ NoOrphan /\ Drain /\ Expected /\ BreakCleared)
<1>1. Init => TableInv /\ LedgerInv
  BY TableInit, LedgerInit
<1>2. TableInv /\ LedgerInv /\ [Next]_vars => (TableInv /\ LedgerInv)'
  BY TableStep, LedgerStep
<1>3. TableInv /\ LedgerInv => AnsweredOnce /\ NoOrphan /\ Drain /\ Expected /\ BreakCleared
  BY LedgerImplies
<1> QED BY <1>1, <1>2, <1>3, PTL DEF Spec
====
