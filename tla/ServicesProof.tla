---------------------------- MODULE ServicesProof ----------------------------
(***************************************************************************)
(* Proofs about the services that nodes share, composed in MCServices: the *)
(* names of another node that are cached here (ClusterName), and the       *)
(* sender for it under reloads of the configuration (ClusterNode).         *)
(***************************************************************************)
EXTENDS MCServices, SequenceTheorems, TLAPS

-----------------------------------------------------------------------------
(***************************************************************************)
(* The name of a service for other nodes (clusterd.lua, clusteragent.lua). *)
(***************************************************************************)
Service == Registered \cup {None}
Answer == {"addr"} \X Asker \X Service

NameTypes ==
    /\ register_name \in [Name -> Service]
    /\ name_cache \in [Name -> Service]
    /\ inquery \in [Name -> Seq(Asker)]
    /\ name \in [Asker -> Name \cup {None}]
    /\ name_pc \in [Asker -> {"idle", "query", "wait", "found"}]
    /\ up \in Seq(Asker)
    /\ down \in Seq({<<"namechange">>} \cup Answer)

\* A query is on its way, there or back, for the first coroutine in the line of a
\* name, and for nobody else.
IsAnswer(i) == down[i] \in Answer
Queries ==
    /\ \A i \in 1 .. Len(up) : /\ name_pc[up[i]] = "query"
                               /\ \A j \in 1 .. Len(up) : j # i => up[j] # up[i]
    /\ \A i \in 1 .. Len(down) : IsAnswer(i) =>
          /\ name_pc[down[i][2]] = "query"
          /\ \A j \in 1 .. Len(down) : j # i /\ IsAnswer(j) => down[j][2] # down[i][2]
          /\ \A j \in 1 .. Len(up) : up[j] # down[i][2]
    /\ \A t \in Asker : name_pc[t] = "query" =>
          name[t] \in Name /\ inquery[name[t]] # <<>> /\ inquery[name[t]][1] = t
    /\ \A n \in Name : \A k \in 1 .. Len(inquery[n]) : /\ name_pc[inquery[n][k]] \in {"query", "wait"}
                                                       /\ name[inquery[n][k]] = n

\* What is cached, and what an answer says, is what is registered, unless a
\* change is still to be told.
NoChange(i) == \A j \in i + 1 .. Len(down) : down[j] # <<"namechange">>
Current ==
    /\ NoChange(0) => \A n \in Name : name_cache[n] \in {None, register_name[n]}
    /\ \A i \in 1 .. Len(down) : IsAnswer(i) /\ NoChange(i) =>
          down[i][3] \in {None, register_name[name[down[i][2]]]}

NameInv == NameTypes /\ Queries /\ Current

LEMMA NameConstants == None \notin Registered /\ Service = Registered \cup {None}
  BY AgentAssumption DEF Agent!ClusterNameAssumption, Service

LEMMA NoChangeIsNoAnswer == <<"namechange">> \notin Answer
<1> SUFFICES ASSUME <<"namechange">> \in Answer PROVE FALSE
  OBVIOUS
<1> QED
  BY DEF Answer

\* A query is sent, and its answer comes back after all that was sent before.
LEMMA AppendDown ==
  ASSUME NameTypes, NEW m \in {<<"namechange">>} \cup Answer, down' = Append(down, m)
  PROVE  /\ Len(down) \in Nat /\ Len(down') = Len(down) + 1 /\ down'[Len(down) + 1] = m
         /\ \A i \in 1 .. Len(down) : down'[i] = down[i]
         /\ \A i \in 1 .. Len(down') : i \in 1 .. Len(down) \/ i = Len(down) + 1
         /\ down' \in Seq({<<"namechange">>} \cup Answer)
  BY DEF NameTypes

LEMMA TailOf ==
  ASSUME NEW S, NEW s \in Seq(S), s # <<>>
  PROVE  /\ Len(s) \in Nat /\ Len(s) > 0 /\ Tail(s) \in Seq(S)
         /\ Len(Tail(s)) = Len(s) - 1
         /\ \A k \in 1 .. Len(Tail(s)) : Tail(s)[k] = s[k + 1] /\ k + 1 \in 2 .. Len(s)
         /\ \A k \in 1 .. Len(s) : s[k] \in S
         /\ Head(s) = s[1] /\ 1 \in 1 .. Len(s)
<1>1. Len(s) \in Nat /\ Len(s) > 0 /\ \A k \in 1 .. Len(s) : s[k] \in S
  BY ElementOfSeq
<1>2. /\ Tail(s) \in Seq(S) /\ Len(Tail(s)) = Len(s) - 1
      /\ \A k \in 1 .. Len(Tail(s)) : Tail(s)[k] = s[k + 1]
  BY <1>1
<1>3. \A k \in 1 .. Len(Tail(s)) : k + 1 \in 2 .. Len(s)
  BY <1>1, <1>2
<1>4. Head(s) = s[1] /\ 1 \in 1 .. Len(s)
  BY <1>1
<1> QED
  BY <1>1, <1>2, <1>3, <1>4

LEMMA RegisterStep ==
  ASSUME NameInv, NEW s \in Registered, NEW n \in Name, Agent!Register(s, n)
  PROVE  NameInv'
<1>1. NameTypes /\ Queries /\ Current
  BY DEF NameInv
<1>2. /\ register_name[n] = None
      /\ register_name' = [m \in Name |-> IF m = n THEN s
                                          ELSE IF m \in Agent!Old(s) THEN None ELSE register_name[m]]
      /\ down' = IF Agent!Old(s) = {} THEN down ELSE Append(down, <<"namechange">>)
      /\ UNCHANGED <<name_cache, inquery, name, name_pc, up>>
  BY DEF Agent!Register, Agent!agent
<1>3. \A m \in Agent!Old(s) : m \in Name /\ register_name[m] = s
  BY DEF Agent!Old
<1>4. register_name' \in [Name -> Service] /\ register_name \in [Name -> Service]
  BY <1>1, <1>2 DEF Service, NameTypes
<1>5. s # None
  BY NameConstants
<1>6. CASE Agent!Old(s) = {}
  <2>1. down' = down
    BY <1>2, <1>6
  <2>2. \A m \in Name : register_name[m] = register_name'[m] \/ register_name[m] = None
    BY <1>2, <1>6
  <2>3. NameTypes' /\ Queries'
    BY <1>1, <1>2, <1>4, <2>1 DEF NameTypes, Queries, IsAnswer
  <2>4. NoChange(0) => \A m \in Name : name_cache[m] \in {None, register_name'[m]}
    BY <1>1, <2>2 DEF Current
  <2>5. ASSUME NEW i \in 1 .. Len(down), IsAnswer(i), NoChange(i)
        PROVE  down[i][3] \in {None, register_name'[name[down[i][2]]]}
    <3>1. down[i][2] \in Asker
      BY <2>5 DEF IsAnswer, Answer
    <3>2. name[down[i][2]] \in Name
      BY <1>1, <2>5, <3>1 DEF Queries
    <3> QED
      BY <1>1, <2>2, <2>5, <3>2 DEF Current
  <2>6. Current'
    <3>1. ASSUME NEW i \in Nat PROVE (NoChange(i)' <=> NoChange(i)) /\ (IsAnswer(i)' <=> IsAnswer(i))
      BY <2>1 DEF NoChange, IsAnswer
    <3>2. Len(down) \in Nat
      BY <1>1 DEF NameTypes
    <3> QED
      BY <1>2, <2>1, <2>4, <2>5, <3>1, <3>2 DEF Current
  <2> QED
    BY <2>3, <2>6 DEF NameInv
<1>7. CASE Agent!Old(s) # {}
  <2>1. down' = Append(down, <<"namechange">>)
    BY <1>2, <1>7
  <2> DEFINE q == Len(down)
  <2>2. /\ q \in Nat /\ Len(down') = q + 1 /\ down'[q + 1] = <<"namechange">>
        /\ \A i \in 1 .. q : down'[i] = down[i]
        /\ \A i \in 1 .. Len(down') : i \in 1 .. q \/ i = q + 1
        /\ down' \in Seq({<<"namechange">>} \cup Answer)
    BY <1>1, <2>1, AppendDown
  <2> HIDE DEF q
  <2>3. NameTypes'
    BY <1>1, <1>2, <1>4, <2>2 DEF NameTypes
  <2>4. \A i \in 1 .. Len(down') : down'[i] \in Answer => i \in 1 .. q /\ down[i] = down'[i]
    BY <2>2, NoChangeIsNoAnswer
  <2>5. Queries'
    <3>1. ASSUME NEW i \in 1 .. Len(down'), down'[i] \in Answer
          PROVE  /\ name_pc[down'[i][2]] = "query"
                 /\ \A j \in 1 .. Len(down') : j # i /\ down'[j] \in Answer => down'[j][2] # down'[i][2]
                 /\ \A j \in 1 .. Len(up) : up[j] # down'[i][2]
      BY <1>1, <2>4, <3>1 DEF Queries, IsAnswer, q
    <3> QED
      BY <1>1, <1>2, <3>1 DEF Queries, IsAnswer
  <2>6. ASSUME NEW i \in Nat, i < q + 1 PROVE ~ (\A j \in i + 1 .. Len(down') : down'[j] # <<"namechange">>)
    <3>1. q + 1 \in i + 1 .. Len(down')
      BY <2>2, <2>6
    <3> QED
      BY <2>2, <3>1
  <2>7. Current'
    <3>1. ~ (\A j \in 0 + 1 .. Len(down') : down'[j] # <<"namechange">>)
      BY <2>2, <2>6
    <3>2. \A i \in 1 .. Len(down') : down'[i] \in Answer =>
             ~ (\A j \in i + 1 .. Len(down') : down'[j] # <<"namechange">>)
      BY <2>2, <2>4, <2>6
    <3> QED
      BY <3>1, <3>2 DEF Current, NoChange, IsAnswer
  <2> QED
    BY <2>3, <2>5, <2>7 DEF NameInv
<1> QED
  BY <1>6, <1>7

LEMMA QueryNameStep ==
  ASSUME NameInv, Agent!QueryName
  PROVE  NameInv'
<1>1. NameTypes /\ Queries /\ Current
  BY DEF NameInv
<1> DEFINE t == up[1]
           v == register_name[name[t]]
           q == Len(down)
<1>2. /\ up # <<>> /\ up' = Tail(up)
      /\ UNCHANGED <<register_name, name_cache, inquery, name, name_pc>>
  BY DEF Agent!QueryName, Agent!agent
<1>3. /\ Len(up) \in Nat /\ Len(up) > 0 /\ up' \in Seq(Asker) /\ Len(up') = Len(up) - 1
      /\ \A k \in 1 .. Len(up') : up'[k] = up[k + 1] /\ k + 1 \in 2 .. Len(up)
      /\ \A k \in 1 .. Len(up) : up[k] \in Asker
      /\ Head(up) = t /\ 1 \in 1 .. Len(up)
  BY <1>1, <1>2, TailOf DEF NameTypes
<1>4. down' = Append(down, <<"addr", t, v>>)
  BY <1>3 DEF Agent!QueryName
<1>5. /\ t \in Asker /\ name_pc[t] = "query" /\ name[t] \in Name
      /\ \A j \in 2 .. Len(up) : up[j] # t
  BY <1>1, <1>3 DEF Queries
<1>6. v \in Service /\ <<"addr", t, v>> \in Answer
  BY <1>1, <1>5 DEF NameTypes, Answer
<1> HIDE DEF v
<1>7. /\ q \in Nat /\ Len(down') = q + 1 /\ down'[q + 1] = <<"addr", t, v>>
      /\ \A i \in 1 .. q : down'[i] = down[i]
      /\ \A i \in 1 .. Len(down') : i \in 1 .. q \/ i = q + 1
      /\ down' \in Seq({<<"namechange">>} \cup Answer)
  BY <1>1, <1>4, <1>6, AppendDown
<1>8. NameTypes'
  BY <1>1, <1>2, <1>3, <1>7 DEF NameTypes
<1>9. \A i \in 1 .. q : IsAnswer(i) => down[i][2] # t
  BY <1>1, <1>3 DEF Queries
<1>10. /\ down'[q + 1][2] = t /\ down'[q + 1][3] = v /\ down'[q + 1] # <<"namechange">>
  BY <1>6, <1>7, NoChangeIsNoAnswer
<1> HIDE DEF q, t
<1>11. Queries'
  <2>1. ASSUME NEW i \in 1 .. Len(up')
        PROVE  name_pc[up'[i]] = "query" /\ \A j \in 1 .. Len(up') : j # i => up'[j] # up'[i]
    <3>1. up'[i] = up[i + 1] /\ i + 1 \in 1 .. Len(up)
      BY <1>3
    <3>2. \A j \in 1 .. Len(up') : j # i => up'[j] = up[j + 1] /\ j + 1 \in 1 .. Len(up) /\ j + 1 # i + 1
      BY <1>3
    <3> QED
      BY <1>1, <3>1, <3>2 DEF Queries
  <2>2. ASSUME NEW i \in 1 .. Len(down'), down'[i] \in Answer
        PROVE  /\ name_pc[down'[i][2]] = "query"
               /\ \A j \in 1 .. Len(down') : j # i /\ down'[j] \in Answer => down'[j][2] # down'[i][2]
               /\ \A j \in 1 .. Len(up') : up'[j] # down'[i][2]
    <3>1. CASE i \in 1 .. q
      <4>1. IsAnswer(i) /\ down'[i] = down[i] /\ i \in 1 .. Len(down)
        BY <1>7, <2>2, <3>1 DEF IsAnswer, q
      <4>2. \A j \in 1 .. Len(up') : up'[j] = up[j + 1] /\ j + 1 \in 1 .. Len(up)
        BY <1>3
      <4>3. \A j \in 1 .. Len(down') : j # i /\ down'[j] \in Answer => down'[j][2] # down'[i][2]
        BY <1>1, <1>7, <1>9, <1>10, <3>1, <4>1 DEF Queries, IsAnswer, q
      <4> QED
        BY <1>1, <4>1, <4>2, <4>3 DEF Queries
    <3>2. CASE i = q + 1
      <4>1. \A j \in 1 .. Len(up') : up'[j] # t
        BY <1>3, <1>5
      <4>2. \A j \in 1 .. Len(down') : j # i /\ down'[j] \in Answer => down'[j][2] # t
        BY <1>7, <1>9, <3>2 DEF IsAnswer
      <4> QED
        BY <1>5, <1>10, <3>2, <4>1, <4>2
    <3> QED
      BY <1>7, <3>1, <3>2
  <2> QED
    BY <1>1, <1>2, <2>1, <2>2 DEF Queries, IsAnswer
<1>12. \A i \in 0 .. q : (\A j \in i + 1 .. Len(down') : down'[j] # <<"namechange">>) => NoChange(i)
  <2> SUFFICES ASSUME NEW i \in 0 .. q, NEW j \in i + 1 .. q,
                      \A k \in i + 1 .. Len(down') : down'[k] # <<"namechange">>
               PROVE  down[j] # <<"namechange">>
    BY DEF NoChange, q
  <2>1. j \in i + 1 .. Len(down') /\ j \in 1 .. q
    BY <1>7
  <2> QED
    BY <1>7, <2>1
<1>13. Current'
  <2>1. ASSUME \A j \in 0 + 1 .. Len(down') : down'[j] # <<"namechange">>
        PROVE  \A n \in Name : name_cache[n] \in {None, register_name[n]}
    <3>1. NoChange(0)
      <4>1. 0 \in 0 .. q
        BY <1>7
      <4> QED
        BY <1>12, <2>1, <4>1
    <3> QED
      BY <1>1, <3>1 DEF Current
  <2>2. ASSUME NEW i \in 1 .. Len(down'), down'[i] \in Answer,
               \A j \in i + 1 .. Len(down') : down'[j] # <<"namechange">>
        PROVE  down'[i][3] \in {None, register_name[name[down'[i][2]]]}
    <3>1. CASE i \in 1 .. q
      <4>1. IsAnswer(i) /\ down'[i] = down[i] /\ i \in 1 .. Len(down)
        BY <1>7, <2>2, <3>1 DEF IsAnswer, q
      <4>2. NoChange(i)
        <5>1. i \in 0 .. q
          BY <1>7, <3>1
        <5> QED
          BY <1>12, <2>2, <5>1
      <4> QED
        BY <1>1, <4>1, <4>2 DEF Current
    <3>2. CASE i = q + 1
      BY <1>10, <3>2 DEF v
    <3> QED
      BY <1>7, <3>1, <3>2
  <2> QED
    BY <1>2, <2>1, <2>2 DEF Current, NoChange, IsAnswer
<1> QED
  BY <1>8, <1>11, <1>13 DEF NameInv

\* A request for a name that is not cached.
LEMMA NameAskStep ==
  ASSUME NameInv, NEW t \in Asker, NEW n \in Name, Agent!Ask(t, n)
  PROVE  NameInv'
<1>1. NameTypes /\ Queries /\ Current
  BY DEF NameInv
<1>2. /\ name_pc[t] = "idle" /\ UNCHANGED <<register_name, name_cache, down>>
  BY DEF Agent!Ask
<1>3. CASE name_cache[n] # None
  <2>1. UNCHANGED <<name, inquery, name_pc, up>>
    BY <1>3 DEF Agent!Ask
  <2>2. NameTypes' /\ Queries'
    BY <1>1, <1>2, <2>1 DEF NameTypes, Queries, IsAnswer
  <2>3. Current'
    BY <1>1, <1>2, <2>1 DEF Current, NoChange, IsAnswer
  <2> QED
    BY <2>2, <2>3 DEF NameInv
<1>4. CASE name_cache[n] = None
  <2>1. /\ name' = [name EXCEPT ![t] = n]
        /\ inquery' = [inquery EXCEPT ![n] = Append(@, t)]
        /\ name_pc' = [name_pc EXCEPT ![t] = IF inquery[n] = <<>> THEN "query" ELSE "wait"]
        /\ up' = IF inquery[n] = <<>> THEN Append(up, t) ELSE up
    BY <1>4 DEF Agent!Ask
  <2>2. NameTypes'
    <3>1. Append(inquery[n], t) \in Seq(Asker) /\ Append(up, t) \in Seq(Asker)
      BY <1>1 DEF NameTypes
    <3> QED
      BY <1>1, <1>2, <2>1, <3>1 DEF NameTypes
  <2>3. /\ name'[t] = n /\ \A u \in Asker : u # t => name'[u] = name[u] /\ name_pc'[u] = name_pc[u]
        /\ \A m \in Name : m # n => inquery'[m] = inquery[m]
        /\ inquery'[n] = Append(inquery[n], t) /\ inquery[n] \in Seq(Asker)
        /\ name_pc'[t] = IF inquery[n] = <<>> THEN "query" ELSE "wait"
    BY <1>1, <2>1 DEF NameTypes
  <2>4. /\ \A i \in 1 .. Len(up) : up[i] \in Asker /\ up[i] # t
        /\ \A i \in 1 .. Len(down) : IsAnswer(i) => down[i][2] \in Asker /\ down[i][2] # t
    <3>1. \A i \in 1 .. Len(up) : up[i] \in Asker
      BY <1>1, ElementOfSeq DEF NameTypes
    <3>2. \A i \in 1 .. Len(down) : IsAnswer(i) => down[i][2] \in Asker
      BY DEF IsAnswer, Answer
    <3> QED
      BY <1>1, <1>2, <3>1, <3>2 DEF Queries
  <2>5. ASSUME NEW m \in Name, NEW k \in 1 .. Len(inquery[m])
        PROVE  inquery[m][k] \in Asker /\ inquery[m][k] # t
    <3>1. inquery[m] \in Seq(Asker)
      BY <1>1 DEF NameTypes
    <3>2. inquery[m][k] \in Asker
      BY <3>1, ElementOfSeq
    <3> QED
      BY <1>1, <1>2, <3>2 DEF Queries
  <2>6. Queries'
    <3>1. ASSUME NEW i \in 1 .. Len(up')
          PROVE  /\ name_pc'[up'[i]] = "query"
                 /\ \A j \in 1 .. Len(up') : j # i => up'[j] # up'[i]
                 /\ \A j \in 1 .. Len(down) : IsAnswer(j) => up'[i] # down[j][2]
      <4>1. CASE inquery[n] = <<>>
        <5>1. /\ Len(up) \in Nat /\ Len(up') = Len(up) + 1 /\ up'[Len(up) + 1] = t
              /\ \A k \in 1 .. Len(up) : up'[k] = up[k]
          BY <1>1, <2>1, <4>1 DEF NameTypes
        <5>2. \A k \in 1 .. Len(up') : k \in 1 .. Len(up) \/ k = Len(up) + 1
          BY <5>1
        <5>3. name_pc'[t] = "query"
          BY <2>3, <4>1
        <5>4. CASE i \in 1 .. Len(up)
          BY <1>1, <2>3, <2>4, <5>1, <5>2, <5>4 DEF Queries
        <5>5. CASE i = Len(up) + 1
          BY <2>4, <5>1, <5>2, <5>3, <5>5
        <5> QED
          BY <5>2, <5>4, <5>5
      <4>2. CASE inquery[n] # <<>>
        BY <1>1, <2>1, <2>3, <2>4, <4>2 DEF Queries
      <4> QED
        BY <4>1, <4>2
    <3>2. ASSUME NEW i \in 1 .. Len(down), IsAnswer(i)
          PROVE  /\ name_pc'[down[i][2]] = "query"
                 /\ \A j \in 1 .. Len(down) : j # i /\ IsAnswer(j) => down[j][2] # down[i][2]
      BY <1>1, <2>3, <2>4, <3>2 DEF Queries
    <3>3. /\ Len(inquery[n]) \in Nat /\ Len(inquery'[n]) = Len(inquery[n]) + 1
          /\ inquery'[n][Len(inquery[n]) + 1] = t /\ inquery'[n] # <<>>
          /\ \A k \in 1 .. Len(inquery[n]) : inquery'[n][k] = inquery[n][k]
          /\ inquery[n] = <<>> => inquery'[n][1] = t
          /\ inquery[n] # <<>> => inquery'[n][1] = inquery[n][1]
      <4>1. /\ Len(inquery[n]) \in Nat /\ Len(inquery'[n]) = Len(inquery[n]) + 1
            /\ inquery'[n][Len(inquery[n]) + 1] = t
            /\ \A k \in 1 .. Len(inquery[n]) : inquery'[n][k] = inquery[n][k]
        BY <2>3
      <4>2. inquery'[n] # <<>>
        BY <4>1
      <4>3. inquery[n] = <<>> => Len(inquery[n]) = 0
        OBVIOUS
      <4>4. inquery[n] # <<>> => 1 \in 1 .. Len(inquery[n])
        BY <2>3
      <4> QED
        BY <4>1, <4>2, <4>3, <4>4
    <3>4. ASSUME NEW u \in Asker, name_pc'[u] = "query"
          PROVE  name'[u] \in Name /\ inquery'[name'[u]] # <<>> /\ inquery'[name'[u]][1] = u
      <4>1. CASE u = t
        BY <2>3, <3>3, <3>4, <4>1
      <4>2. CASE u # t
        <5>1. name[u] \in Name /\ inquery[name[u]] # <<>> /\ inquery[name[u]][1] = u /\ name'[u] = name[u]
          BY <1>1, <2>3, <3>4, <4>2 DEF Queries
        <5> QED
          BY <2>3, <3>3, <5>1
      <4> QED
        BY <4>1, <4>2
    <3>5. ASSUME NEW m \in Name, NEW k \in 1 .. Len(inquery'[m])
          PROVE  /\ name_pc'[inquery'[m][k]] \in {"query", "wait"}
                 /\ name'[inquery'[m][k]] = m
      <4>1. CASE m = n /\ k = Len(inquery[n]) + 1
        BY <2>3, <3>3, <4>1
      <4>2. CASE ~ (m = n /\ k = Len(inquery[n]) + 1)
        <5>1. k \in 1 .. Len(inquery[m]) /\ inquery'[m][k] = inquery[m][k]
          <6>1. CASE m = n
            BY <3>3, <4>2, <6>1
          <6>2. CASE m # n
            BY <2>3, <6>2
          <6> QED
            BY <6>1, <6>2
        <5>2. inquery[m][k] \in Asker /\ inquery[m][k] # t
          BY <2>5, <5>1
        <5>3. name_pc[inquery[m][k]] \in {"query", "wait"} /\ name[inquery[m][k]] = m
          BY <1>1, <5>1 DEF Queries
        <5> QED
          BY <2>3, <5>1, <5>2, <5>3
      <4> QED
        BY <4>1, <4>2
    <3> QED
      BY <1>2, <3>1, <3>2, <3>4, <3>5 DEF Queries, IsAnswer
  <2>7. Current'
    <3>1. ASSUME NEW i \in 1 .. Len(down), IsAnswer(i)
          PROVE  name'[down[i][2]] = name[down[i][2]]
      BY <2>3, <2>4, <3>1
    <3>2. ASSUME NEW i \in Nat PROVE (NoChange(i)' <=> NoChange(i)) /\ (IsAnswer(i)' <=> IsAnswer(i))
      BY <1>2 DEF NoChange, IsAnswer
    <3>3. Len(down) \in Nat
      BY <1>1 DEF NameTypes
    <3> QED
      BY <1>1, <1>2, <3>1, <3>2, <3>3 DEF Current
  <2> QED
    BY <2>2, <2>6, <2>7 DEF NameInv
<1> QED
  BY <1>3, <1>4

LEMMA NameReplyStep ==
  ASSUME NameInv, NEW t \in Asker, Agent!Reply(t)
  PROVE  NameInv'
<1>1. NameTypes /\ Queries /\ Current
  BY DEF NameInv
<1>2. /\ name_pc[t] = "found" /\ name_pc' = [name_pc EXCEPT ![t] = "idle"]
      /\ name' = [name EXCEPT ![t] = None]
      /\ UNCHANGED <<register_name, name_cache, inquery, up, down>>
  BY DEF Agent!Reply
<1>3. NameTypes'
  BY <1>1, <1>2 DEF NameTypes
<1>4. /\ name_pc'[t] = "idle"
      /\ \A u \in Asker : u # t => name'[u] = name[u] /\ name_pc'[u] = name_pc[u]
  BY <1>1, <1>2 DEF NameTypes
<1>5. /\ \A i \in 1 .. Len(up) : up[i] \in Asker /\ up[i] # t
      /\ \A i \in 1 .. Len(down) : IsAnswer(i) => down[i][2] \in Asker /\ down[i][2] # t
  <2>1. \A i \in 1 .. Len(up) : up[i] \in Asker
    BY <1>1, ElementOfSeq DEF NameTypes
  <2>2. \A i \in 1 .. Len(down) : IsAnswer(i) => down[i][2] \in Asker
    BY DEF IsAnswer, Answer
  <2> QED
    BY <1>1, <1>2, <2>1, <2>2 DEF Queries
<1>6. ASSUME NEW m \in Name, NEW k \in 1 .. Len(inquery[m])
      PROVE  inquery[m][k] \in Asker /\ inquery[m][k] # t
  <2>1. inquery[m] \in Seq(Asker)
    BY <1>1 DEF NameTypes
  <2>2. inquery[m][k] \in Asker
    BY <2>1, ElementOfSeq
  <2> QED
    BY <1>1, <1>2, <2>2 DEF Queries
<1>7. Queries'
  <2>1. \A i \in 1 .. Len(up) : /\ name_pc'[up[i]] = "query"
                                /\ \A j \in 1 .. Len(up) : j # i => up[j] # up[i]
    BY <1>1, <1>4, <1>5 DEF Queries
  <2>2. \A i \in 1 .. Len(down) : IsAnswer(i) =>
          /\ name_pc'[down[i][2]] = "query"
          /\ \A j \in 1 .. Len(down) : j # i /\ IsAnswer(j) => down[j][2] # down[i][2]
          /\ \A j \in 1 .. Len(up) : up[j] # down[i][2]
    BY <1>1, <1>4, <1>5 DEF Queries
  <2>3. \A u \in Asker : name_pc'[u] = "query" =>
          name'[u] \in Name /\ inquery[name'[u]] # <<>> /\ inquery[name'[u]][1] = u
    BY <1>1, <1>4 DEF Queries
  <2>4. \A m \in Name : \A k \in 1 .. Len(inquery[m]) :
          name_pc'[inquery[m][k]] \in {"query", "wait"} /\ name'[inquery[m][k]] = m
    BY <1>1, <1>4, <1>6 DEF Queries
  <2> QED
    BY <1>2, <2>1, <2>2, <2>3, <2>4 DEF Queries, IsAnswer
<1>8. Current'
  <2>1. ASSUME NEW i \in 1 .. Len(down), IsAnswer(i)
        PROVE  name'[down[i][2]] = name[down[i][2]]
    BY <1>4, <1>5, <2>1
  <2>2. ASSUME NEW i \in Nat PROVE (NoChange(i)' <=> NoChange(i)) /\ (IsAnswer(i)' <=> IsAnswer(i))
    BY <1>2 DEF NoChange, IsAnswer
  <2>3. Len(down) \in Nat
    BY <1>1 DEF NameTypes
  <2> QED
    BY <1>1, <1>2, <2>1, <2>2, <2>3 DEF Current
<1> QED
  BY <1>3, <1>7, <1>8 DEF NameInv

\* The agent is told of a change: it forgets all names.
LEMMA NameChangeStep ==
  ASSUME NameInv, down # <<>>, down' = Tail(down), down[1] \notin Answer,
         name_cache' = [n \in Name |-> None],
         UNCHANGED <<register_name, inquery, name, name_pc, up>>
  PROVE  NameInv'
<1>1. NameTypes /\ Queries /\ Current
  BY DEF NameInv
<1>2. /\ Len(down) \in Nat /\ Len(down) > 0 /\ down' \in Seq({<<"namechange">>} \cup Answer)
      /\ Len(down') = Len(down) - 1
      /\ \A k \in 1 .. Len(down') : down'[k] = down[k + 1] /\ k + 1 \in 2 .. Len(down)
  BY <1>1, TailOf DEF NameTypes
<1>3. NameTypes'
  BY <1>1, <1>2 DEF NameTypes, Service
<1>4. ASSUME NEW i \in 1 .. Len(down'), down'[i] \in Answer
      PROVE  IsAnswer(i + 1) /\ down'[i] = down[i + 1] /\ i + 1 \in 1 .. Len(down)
  BY <1>2, <1>4 DEF IsAnswer
<1>5. Queries'
  <2>1. ASSUME NEW i \in 1 .. Len(down'), down'[i] \in Answer
        PROVE  /\ name_pc[down'[i][2]] = "query"
               /\ \A j \in 1 .. Len(down') : j # i /\ down'[j] \in Answer => down'[j][2] # down'[i][2]
               /\ \A j \in 1 .. Len(up) : up[j] # down'[i][2]
    <3>1. IsAnswer(i + 1) /\ down'[i] = down[i + 1] /\ i + 1 \in 1 .. Len(down)
      BY <1>4, <2>1
    <3>2. ASSUME NEW j \in 1 .. Len(down'), j # i, down'[j] \in Answer
          PROVE  down'[j][2] # down'[i][2]
      <4>1. IsAnswer(j + 1) /\ down'[j] = down[j + 1] /\ j + 1 \in 1 .. Len(down) /\ j + 1 # i + 1
        BY <1>4, <3>2
      <4> QED
        BY <1>1, <3>1, <4>1 DEF Queries
    <3> QED
      BY <1>1, <3>1, <3>2 DEF Queries
  <2> QED
    BY <1>1, <2>1 DEF Queries, IsAnswer
<1>6. Current'
  <2>1. \A n \in Name : name_cache'[n] = None
    OBVIOUS
  <2>2. ASSUME NEW i \in 1 .. Len(down'), down'[i] \in Answer,
               \A j \in i + 1 .. Len(down') : down'[j] # <<"namechange">>
        PROVE  down'[i][3] \in {None, register_name[name[down'[i][2]]]}
    <3>1. IsAnswer(i + 1) /\ down'[i] = down[i + 1] /\ i + 1 \in 1 .. Len(down)
      BY <1>4, <2>2
    <3>2. ASSUME NEW j \in i + 1 + 1 .. Len(down) PROVE down[j] # <<"namechange">>
      <4>1. j - 1 \in i + 1 .. Len(down') /\ j - 1 \in 1 .. Len(down') /\ j - 1 + 1 = j
        BY <1>2
      <4> QED
        BY <1>2, <2>2, <4>1
    <3>3. NoChange(i + 1)
      BY <3>2 DEF NoChange
    <3> QED
      BY <1>1, <3>1, <3>3 DEF Current
  <2> QED
    BY <2>1, <2>2 DEF Current, NoChange, IsAnswer
<1> QED
  BY <1>3, <1>5, <1>6 DEF NameInv

\* The agent gets an answer: all who look for the name go on.
LEMMA FoundStep ==
  ASSUME NameInv, down # <<>>, down' = Tail(down), down[1] \in Answer,
         Agent!Found(down[1][2], down[1][3]), UNCHANGED <<register_name, up>>
  PROVE  NameInv'
<1>1. NameTypes /\ Queries /\ Current
  BY DEF NameInv
<1> DEFINE t == down[1][2]
           a == down[1][3]
           n == name[t]
           woken == Agent!ToSet(inquery[n])
<1>2. /\ Len(down) \in Nat /\ Len(down) > 0 /\ down' \in Seq({<<"namechange">>} \cup Answer)
      /\ Len(down') = Len(down) - 1
      /\ \A k \in 1 .. Len(down') : down'[k] = down[k + 1] /\ k + 1 \in 2 .. Len(down)
      /\ 1 \in 1 .. Len(down)
  BY <1>1, TailOf DEF NameTypes
<1>3. t \in Asker /\ a \in Service
  BY DEF Answer
<1>4. /\ name_pc[t] = "query" /\ n \in Name /\ inquery[n] # <<>> /\ inquery[n][1] = t
      /\ \A j \in 2 .. Len(down) : IsAnswer(j) => down[j][2] # t
      /\ \A j \in 1 .. Len(up) : up[j] # t
  BY <1>1, <1>2, <1>3 DEF Queries, IsAnswer
<1>5. /\ name_cache' = [name_cache EXCEPT ![n] = a] \/ name_cache' = name_cache
      /\ name_pc' = [u \in Asker |-> IF u \in woken THEN "found" ELSE name_pc[u]]
      /\ inquery' = [inquery EXCEPT ![n] = <<>>]
      /\ UNCHANGED name
  BY DEF Agent!Found
<1>6. inquery[n] \in Seq(Asker)
  BY <1>1, <1>4 DEF NameTypes
<1>7. \A u \in woken : \E k \in 1 .. Len(inquery[n]) : u = inquery[n][k]
  BY <1>6 DEF Agent!ToSet
<1>8. \A k \in 1 .. Len(inquery[n]) : inquery[n][k] \in woken
  BY <1>6 DEF Agent!ToSet
<1>9. 1 \in 1 .. Len(inquery[n])
  BY <1>4, <1>6
<1> HIDE DEF woken
<1>10. \A u \in Asker : name_pc[u] = "query" /\ u # t => name[u] # n /\ u \notin woken
  <2> SUFFICES ASSUME NEW u \in Asker, name_pc[u] = "query", u # t
               PROVE  name[u] # n /\ u \notin woken
    OBVIOUS
  <2>1. name[u] # n
    BY <1>1, <1>4 DEF Queries
  <2>2. \A k \in 1 .. Len(inquery[n]) : name[inquery[n][k]] = n
    BY <1>1, <1>4 DEF Queries
  <2> QED
    BY <1>7, <2>1, <2>2
<1>11. t \in woken
  BY <1>4, <1>8, <1>9
<1> HIDE DEF n, t, a
<1>12. NameTypes'
  <2>1. name_cache' \in [Name -> Service]
    BY <1>1, <1>3, <1>5 DEF NameTypes
  <2>2. inquery' \in [Name -> Seq(Asker)]
    <3>1. <<>> \in Seq(Asker)
      OBVIOUS
    <3> QED
      BY <1>1, <1>5, <3>1 DEF NameTypes
  <2>3. name_pc' \in [Asker -> {"idle", "query", "wait", "found"}]
    BY <1>1, <1>5 DEF NameTypes
  <2> QED
    BY <1>1, <1>2, <1>5, <2>1, <2>2, <2>3 DEF NameTypes
<1>13. ASSUME NEW i \in 1 .. Len(down'), down'[i] \in Answer
       PROVE  /\ IsAnswer(i + 1) /\ down'[i] = down[i + 1] /\ i + 1 \in 1 .. Len(down)
              /\ down'[i][2] \in Asker /\ down'[i][2] # t
  <2>1. IsAnswer(i + 1) /\ down'[i] = down[i + 1] /\ i + 1 \in 2 .. Len(down) /\ i + 1 \in 1 .. Len(down)
    BY <1>2, <1>13 DEF IsAnswer
  <2>2. down'[i][2] \in Asker
    BY <1>13 DEF Answer
  <2> QED
    BY <1>4, <2>1, <2>2
<1>14. Queries'
  <2>1. ASSUME NEW i \in 1 .. Len(up)
        PROVE  name_pc'[up[i]] = "query" /\ \A j \in 1 .. Len(up) : j # i => up[j] # up[i]
    <3>1. up[i] \in Asker /\ name_pc[up[i]] = "query"
      BY <1>1, ElementOfSeq DEF NameTypes, Queries
    <3>2. up[i] # t
      BY <1>4
    <3> QED
      BY <1>1, <1>5, <1>10, <3>1, <3>2 DEF Queries
  <2>2. ASSUME NEW i \in 1 .. Len(down'), down'[i] \in Answer
        PROVE  /\ name_pc'[down'[i][2]] = "query"
               /\ \A j \in 1 .. Len(down') : j # i /\ down'[j] \in Answer => down'[j][2] # down'[i][2]
               /\ \A j \in 1 .. Len(up) : up[j] # down'[i][2]
    <3>1. /\ IsAnswer(i + 1) /\ down'[i] = down[i + 1] /\ i + 1 \in 1 .. Len(down)
          /\ down'[i][2] \in Asker /\ down'[i][2] # t
      BY <1>13, <2>2
    <3>2. name_pc[down'[i][2]] = "query" /\ \A j \in 1 .. Len(up) : up[j] # down'[i][2]
      BY <1>1, <3>1 DEF Queries
    <3>3. name_pc'[down'[i][2]] = "query"
      BY <1>5, <1>10, <3>1, <3>2
    <3>4. ASSUME NEW j \in 1 .. Len(down'), j # i, down'[j] \in Answer
          PROVE  down'[j][2] # down'[i][2]
      <4>1. IsAnswer(j + 1) /\ down'[j] = down[j + 1] /\ j + 1 \in 1 .. Len(down) /\ j + 1 # i + 1
        BY <1>13, <3>4
      <4> QED
        BY <1>1, <3>1, <4>1 DEF Queries
    <3> QED
      BY <3>2, <3>3, <3>4
  <2>3. ASSUME NEW u \in Asker, name_pc'[u] = "query"
        PROVE  name[u] \in Name /\ inquery'[name[u]] # <<>> /\ inquery'[name[u]][1] = u
    <3>1. name_pc[u] = "query" /\ u \notin woken
      BY <1>5, <2>3
    <3>2. u # t
      BY <1>11, <3>1
    <3>3. name[u] \in Name /\ name[u] # n /\ inquery[name[u]] # <<>> /\ inquery[name[u]][1] = u
      BY <1>1, <1>10, <3>1, <3>2 DEF Queries
    <3> QED
      BY <1>1, <1>5, <3>3 DEF NameTypes
  <2>4. ASSUME NEW m \in Name, NEW k \in 1 .. Len(inquery'[m])
        PROVE  name_pc'[inquery'[m][k]] \in {"query", "wait"} /\ name[inquery'[m][k]] = m
    <3>1. CASE m = n
      <4>1. inquery'[m] = <<>>
        BY <1>1, <1>5, <3>1 DEF NameTypes
      <4> QED
        BY <4>1
    <3>2. CASE m # n
      <4>1. inquery'[m] = inquery[m] /\ inquery[m] \in Seq(Asker) /\ k \in 1 .. Len(inquery[m])
        BY <1>1, <1>5, <3>2 DEF NameTypes
      <4>2. /\ inquery[m][k] \in Asker /\ name_pc[inquery[m][k]] \in {"query", "wait"}
            /\ name[inquery[m][k]] = m
        BY <1>1, <4>1, ElementOfSeq DEF Queries
      <4>3. \A l \in 1 .. Len(inquery[n]) : name[inquery[n][l]] = n
        BY <1>1, <1>4 DEF Queries
      <4>4. inquery[m][k] \notin woken
        BY <1>7, <3>2, <4>2, <4>3
      <4> QED
        BY <1>5, <4>1, <4>2, <4>4
    <3> QED
      BY <3>1, <3>2
  <2> QED
    BY <1>5, <2>1, <2>2, <2>3, <2>4 DEF Queries, IsAnswer
<1>15. ASSUME NEW i \in 0 .. Len(down'), \A j \in i + 1 .. Len(down') : down'[j] # <<"namechange">>
       PROVE  NoChange(i + 1)
  <2>1. ASSUME NEW j \in i + 1 + 1 .. Len(down) PROVE down[j] # <<"namechange">>
    <3>1. j - 1 \in i + 1 .. Len(down') /\ j - 1 \in 1 .. Len(down') /\ j - 1 + 1 = j
      BY <1>2
    <3> QED
      BY <1>2, <1>15, <3>1
  <2> QED
    BY <2>1 DEF NoChange
<1>16. Current'
  <2>1. ASSUME \A j \in 0 + 1 .. Len(down') : down'[j] # <<"namechange">>, NEW m \in Name
        PROVE  name_cache'[m] \in {None, register_name[m]}
    <3>1. 0 \in 0 .. Len(down')
      BY <1>2
    <3>2. NoChange(0 + 1)
      BY <1>15, <2>1, <3>1
    <3>3. a \in {None, register_name[n]}
      BY <1>1, <1>2, <3>2 DEF Current, IsAnswer, a, n, t
    <3>4. down[1] # <<"namechange">>
      BY NoChangeIsNoAnswer
    <3>5. \A j \in 0 + 1 .. Len(down) : j = 1 \/ j \in 0 + 1 + 1 .. Len(down)
      BY <1>2
    <3>6. NoChange(0)
      BY <3>2, <3>4, <3>5 DEF NoChange
    <3> QED
      BY <1>1, <1>5, <3>3, <3>6 DEF Current, NameTypes
  <2>2. ASSUME NEW i \in 1 .. Len(down'), down'[i] \in Answer,
               \A j \in i + 1 .. Len(down') : down'[j] # <<"namechange">>
        PROVE  down'[i][3] \in {None, register_name[name[down'[i][2]]]}
    <3>1. IsAnswer(i + 1) /\ down'[i] = down[i + 1] /\ i + 1 \in 1 .. Len(down) /\ i \in 0 .. Len(down')
      BY <1>2, <1>13, <2>2
    <3>2. NoChange(i + 1)
      BY <1>15, <2>2, <3>1
    <3> QED
      BY <1>1, <3>1, <3>2 DEF Current
  <2> QED
    BY <1>5, <2>1, <2>2 DEF Current, NoChange, IsAnswer
<1> QED
  BY <1>12, <1>14, <1>16 DEF NameInv

LEMMA NameStep ==
  NameInv /\ [ServicesNext]_services => NameInv'
<1> SUFFICES ASSUME NameInv, [ServicesNext]_services PROVE NameInv'
  OBVIOUS
<1>1. CASE UNCHANGED name_vars
  <2>1. NameTypes' /\ Queries'
    BY <1>1 DEF NameInv, name_vars, NameTypes, Queries, IsAnswer
  <2>2. Current'
    BY <1>1 DEF NameInv, name_vars, Current, IsAnswer, NoChange
  <2> QED
    BY <2>1, <2>2 DEF NameInv
<1>2. CASE Agent!Handle
  <2>1. /\ down # <<>> /\ down' = Tail(down) /\ UNCHANGED <<register_name, up>>
        /\ down[1] \in {<<"namechange">>} \cup Answer /\ Head(down) = down[1]
    BY <1>2, TailOf DEF Agent!Handle, NameInv, NameTypes
  <2>2. CASE down[1] \in Answer
    <3>1. Head(down)[1] = "addr"
      BY <2>1, <2>2 DEF Answer
    <3>2. Agent!Found(down[1][2], down[1][3])
      BY <1>2, <2>1, <3>1 DEF Agent!Handle
    <3> QED
      BY <2>1, <2>2, <3>2, FoundStep
  <2>3. CASE down[1] \notin Answer
    <3>1. Head(down)[1] # "addr"
      <4>1. down[1] = <<"namechange">>
        BY <2>1, <2>3
      <4> QED
        BY <2>1, <4>1
    <3>2. Agent!NameChange
      BY <1>2, <3>1 DEF Agent!Handle
    <3>3. /\ name_cache' = [n \in Name |-> None]
          /\ UNCHANGED <<inquery, name, name_pc>>
      BY <3>2 DEF Agent!NameChange
    <3> QED
      BY <2>1, <2>3, <3>3, NameChangeStep
  <2> QED
    BY <2>2, <2>3
<1>3. CASE Agent!Next
  BY <1>2, <1>3, RegisterStep, QueryNameStep, NameAskStep, NameReplyStep DEF Agent!Next
<1>4. UNCHANGED name_vars \/ Agent!Next
  BY DEF ServicesNext, In, services
<1> QED
  BY <1>1, <1>3, <1>4

LEMMA NameInit == ServicesInit => NameInv
<1> SUFFICES ASSUME Agent!Init PROVE NameInv
  BY DEF ServicesInit
<1>1. /\ register_name = [n \in Name |-> None] /\ name_cache = [n \in Name |-> None]
      /\ inquery = [n \in Name |-> <<>>] /\ name = [t \in Asker |-> None]
      /\ name_pc = [t \in Asker |-> "idle"] /\ up = <<>> /\ down = <<>>
  BY DEF Agent!Init
<1>2. 1 .. Len(<<>>) = {}
  OBVIOUS
<1>3. NameTypes
  BY <1>1 DEF NameTypes, Service
<1>4. Queries
  <2>1. \A t \in Asker : name_pc[t] # "query"
    BY <1>1
  <2>2. \A n \in Name : 1 .. Len(inquery[n]) = {}
    BY <1>1
  <2> QED
    BY <1>1, <1>2, <2>1, <2>2 DEF Queries
<1>5. Current
  <2>1. \A n \in Name : name_cache[n] = None
    BY <1>1
  <2> QED
    BY <1>1, <1>2, <2>1 DEF Current
<1> QED
  BY <1>3, <1>4, <1>5 DEF NameInv

-----------------------------------------------------------------------------
(***************************************************************************)
(* The sender for a node (clusterd.lua).                                   *)
(***************************************************************************)
Thread == Request \cup Fork
Addresses == {Absent, NoAddress} \cup Address

NodeTypes ==
    /\ node_address \in Addresses
    /\ node_sender \in BOOLEAN /\ node_channel \in BOOLEAN /\ connecting \in BOOLEAN
    /\ at \in Addresses /\ namequery \in Thread \cup {None}
    /\ waiters \in Seq(Thread) /\ wake \in Seq(Thread) /\ forked \in Seq(Thread)
    /\ node_pc \in [Thread -> {"idle", "open", "waiting", "name", "reach", "newservice",
                               "changenode", "opened", "failed"}]
    /\ address \in [Thread -> Addresses]

\* Whoever waits or is to open a sender runs again, and one opens at a time.
Within(s, t) == \E k \in 1 .. Len(s) : s[k] = t
Opens(t) == node_pc[t] \in {"name", "reach", "newservice", "changenode", "opened", "failed"}
Places ==
    /\ \A t \in Thread :
          /\ node_pc[t] = "waiting" => (connecting /\ Within(waiters, t)) \/ Within(wake, t)
          /\ node_pc[t] = "open" => Within(wake, t) \/ Within(forked, t)
          /\ node_pc[t] \in {"opened", "failed"} => wake # <<>> /\ wake[1] = t
    /\ connecting <=> \E t \in Thread : Opens(t)
    /\ \A t, u \in Thread : Opens(t) /\ Opens(u) => t = u

\* A name that has been given an address keeps one, maybe another.
Known ==
    /\ node_channel => node_sender /\ node_address # Absent
    /\ \A t \in Thread :
          /\ address[t] # Absent => node_address # Absent
          /\ node_pc[t] \in {"newservice", "changenode"} => address[t] # Absent

\* The sender goes to the configured address, or some coroutine is to look at it.
Reached ==
    /\ ~ connecting /\ node_channel => at = node_address \/ \E t \in Thread : node_pc[t] = "open"
    /\ \A t \in Thread : node_pc[t] \in {"opened", "failed"} /\ node_channel =>
          at = address[t] \/ node_address # address[t]

NodeInv == NodeTypes /\ Places /\ Known /\ Reached

LEMMA NodeConstants ==
  /\ Sender!Thread = Thread /\ Absent # NoAddress /\ Absent \notin Address
  /\ NoAddress \notin Address /\ None \notin Thread
  BY SenderAssumption DEF Sender!ClusterAssumption, Sender!Thread, Thread

LEMMA WithinLists ==
  ASSUME NEW t \in Thread
  PROVE  /\ ~ Within(<<>>, t) /\ Within(<<t>>, t)
         /\ \A s \in Seq(Thread) : s # <<>> /\ Within(s, t) => t = s[1] \/ Within(Tail(s), t)
         /\ \A s \in Seq(Thread), u \in Thread : Within(s, t) \/ t = u => Within(Append(s, u), t)
         /\ \A s, r \in Seq(Thread) : Within(s, t) \/ Within(r, t) => Within(s \o r, t)
<1>1. ~ Within(<<>>, t) /\ Within(<<t>>, t)
  <2>1. Len(<<t>>) = 1 /\ <<t>>[1] = t /\ 1 \in 1 .. 1
    OBVIOUS
  <2> QED
    BY <2>1 DEF Within
<1>2. ASSUME NEW s \in Seq(Thread), s # <<>>, Within(s, t), t # s[1]
      PROVE  Within(Tail(s), t)
  <2>1. PICK k \in 1 .. Len(s) : s[k] = t
    BY <1>2 DEF Within
  <2>2. /\ Len(s) \in Nat /\ Len(s) > 0 /\ Len(Tail(s)) = Len(s) - 1
        /\ \A i \in 1 .. Len(Tail(s)) : Tail(s)[i] = s[i + 1]
    BY <1>2, TailOf
  <2>3. k - 1 \in 1 .. Len(Tail(s)) /\ k - 1 + 1 = k
    BY <1>2, <2>1, <2>2
  <2> QED
    BY <2>1, <2>2, <2>3 DEF Within
<1>3. ASSUME NEW s \in Seq(Thread), NEW u \in Thread, Within(s, t) \/ t = u
      PROVE  Within(Append(s, u), t)
  <2>1. /\ Len(s) \in Nat /\ Len(Append(s, u)) = Len(s) + 1 /\ Append(s, u)[Len(s) + 1] = u
        /\ \A k \in 1 .. Len(s) : Append(s, u)[k] = s[k]
    OBVIOUS
  <2> QED
    BY <1>3, <2>1 DEF Within
<1>4. ASSUME NEW s \in Seq(Thread), NEW r \in Seq(Thread), Within(s, t) \/ Within(r, t)
      PROVE  Within(s \o r, t)
  <2>1. /\ Len(s) \in Nat /\ Len(r) \in Nat /\ Len(s \o r) = Len(s) + Len(r)
        /\ \A k \in 1 .. Len(s) : (s \o r)[k] = s[k]
        /\ \A k \in 1 .. Len(r) : (s \o r)[Len(s) + k] = r[k]
    OBVIOUS
  <2>2. /\ \A k \in 1 .. Len(s) : k \in 1 .. Len(s \o r)
        /\ \A k \in 1 .. Len(r) : Len(s) + k \in 1 .. Len(s \o r)
    BY <2>1
  <2> QED
    BY <1>4, <2>1, <2>2 DEF Within
<1> QED
  BY <1>1, <1>2, <1>3, <1>4

\* When all is quiet, whoever waits is in the list of the one that opens.
LEMMA WhenQuiet ==
  ASSUME NodeInv, wake = <<>>, NEW t \in Thread
  PROVE  /\ node_pc[t] \notin {"opened", "failed"}
         /\ node_pc[t] = "open" => Within(forked, t)
         /\ forked = <<>> => node_pc[t] # "open"
         /\ node_pc[t] = "waiting" => connecting /\ Within(waiters, t)
  BY WithinLists DEF NodeInv, Places

\* A coroutine that runs is the first in the queue of those that are woken.
LEMMA WhoRuns ==
  ASSUME NodeInv, NEW t \in Thread, NEW p, Sender!Runs(t, p)
  PROVE  /\ wake # <<>> /\ wake[1] = t /\ node_pc[t] = p /\ Tail(wake) \in Seq(Thread)
         /\ \A u \in Thread : u # t => /\ node_pc[u] \notin {"opened", "failed"}
                                       /\ Within(wake, u) => Within(Tail(wake), u)
<1>1. wake # <<>> /\ wake \in Seq(Thread) /\ Head(wake) = t /\ node_pc[t] = p
  BY DEF Sender!Runs, NodeInv, NodeTypes
<1>2. wake[1] = t /\ Tail(wake) \in Seq(Thread)
  BY <1>1, TailOf
<1> QED
  BY <1>1, <1>2, WithinLists DEF NodeInv, Places

LEMMA NodeAskStep ==
  ASSUME NodeInv, NEW t \in Thread, Sender!Ask(t)
  PROVE  NodeInv'
<1>1. NodeTypes /\ Places /\ Known /\ Reached
  BY DEF NodeInv
<1>2. /\ wake = <<>> /\ forked = <<>> /\ node_pc[t] = "idle" /\ wake' = <<t>>
      /\ node_pc' = [node_pc EXCEPT ![t] = "open"] /\ ~ node_channel
      /\ UNCHANGED <<node_address, node_sender, node_channel, at, connecting, waiters, namequery,
                     address, forked>>
  BY DEF Sender!Ask, Sender!Quiet, Sender!Goto, Sender!config, Sender!sender, Sender!opening
<1>3. NodeTypes'
  BY <1>1, <1>2 DEF NodeTypes
<1>4. node_pc'[t] = "open" /\ \A u \in Thread : u # t => node_pc'[u] = node_pc[u]
  BY <1>1, <1>2 DEF NodeTypes
<1>5. \A u \in Thread : (node_pc'[u] \in {"name", "reach", "newservice", "changenode", "opened", "failed"})
                          <=> Opens(u)
  BY <1>2, <1>4 DEF Opens
<1>6. Places'
  <2>1. ASSUME NEW u \in Thread
        PROVE  /\ node_pc'[u] = "waiting" => (connecting /\ Within(waiters, u)) \/ Within(wake', u)
               /\ node_pc'[u] = "open" => Within(wake', u) \/ Within(forked, u)
               /\ node_pc'[u] \notin {"opened", "failed"}
    <3>1. CASE u = t
      BY <1>2, <1>4, <3>1, WithinLists
    <3>2. CASE u # t
      BY <1>2, <1>4, <3>2, WhenQuiet
    <3> QED
      BY <3>1, <3>2
  <2> QED
    BY <1>1, <1>2, <1>5, <2>1 DEF Places, Opens
<1>7. Known' /\ Reached'
  BY <1>1, <1>2, <1>4 DEF Known, Reached
<1> QED
  BY <1>3, <1>6, <1>7 DEF NodeInv

LEMMA RunForkStep ==
  ASSUME NodeInv, Sender!RunFork
  PROVE  NodeInv'
<1>1. NodeTypes /\ Places /\ Known /\ Reached
  BY DEF NodeInv
<1>2. /\ wake = <<>> /\ forked # <<>> /\ wake' = <<Head(forked)>> /\ forked' = Tail(forked)
      /\ UNCHANGED <<node_address, node_sender, node_channel, at, connecting, waiters, namequery,
                     node_pc, address>>
  BY DEF Sender!RunFork, Sender!config, Sender!sender, Sender!opening
<1>3. Head(forked) = forked[1] /\ forked[1] \in Thread /\ Tail(forked) \in Seq(Thread)
  BY <1>1, <1>2, TailOf DEF NodeTypes
<1>4. NodeTypes'
  BY <1>1, <1>2, <1>3 DEF NodeTypes
<1>5. Places'
  <2>1. ASSUME NEW u \in Thread
        PROVE  /\ node_pc[u] = "waiting" => connecting /\ Within(waiters, u)
               /\ node_pc[u] = "open" => Within(wake', u) \/ Within(forked', u)
               /\ node_pc[u] \notin {"opened", "failed"}
    <3>1. node_pc[u] = "open" => u = forked[1] \/ Within(Tail(forked), u)
      BY <1>1, <1>2, WhenQuiet, WithinLists DEF NodeTypes
    <3> QED
      BY <1>2, <1>3, <3>1, WhenQuiet, WithinLists
  <2> QED
    BY <1>1, <1>2, <2>1 DEF Places, Opens
<1>6. Known' /\ Reached'
  BY <1>1, <1>2 DEF Known, Reached
<1> QED
  BY <1>4, <1>5, <1>6 DEF NodeInv

\* A coroutine comes to open the sender, or waits for the one that does.
LEMMA OpenStep ==
  ASSUME NodeInv, NEW t \in Thread, Sender!Open(t)
  PROVE  NodeInv'
<1>1. NodeTypes /\ Places /\ Known /\ Reached
  BY DEF NodeInv
<1>2. /\ Sender!Runs(t, "open")
      /\ UNCHANGED <<node_address, node_sender, node_channel, at, forked>>
  BY DEF Sender!Open, Sender!config, Sender!sender
<1>3. /\ wake # <<>> /\ wake[1] = t /\ node_pc[t] = "open" /\ Tail(wake) \in Seq(Thread)
      /\ \A u \in Thread : u # t => /\ node_pc[u] \notin {"opened", "failed"}
                                    /\ Within(wake, u) => Within(Tail(wake), u)
  BY <1>2, WhoRuns
<1>4. CASE connecting
  <2>1. /\ waiters' = Append(waiters, t) /\ node_pc' = [node_pc EXCEPT ![t] = "waiting"]
        /\ wake' = Tail(wake) /\ UNCHANGED <<connecting, namequery, address>>
    BY <1>4 DEF Sender!Open, Sender!Goto, Sender!Waits
  <2>2. NodeTypes'
    BY <1>1, <1>2, <1>3, <2>1 DEF NodeTypes
  <2>3. node_pc'[t] = "waiting" /\ \A u \in Thread : u # t => node_pc'[u] = node_pc[u]
    BY <1>1, <2>1 DEF NodeTypes
  <2>4. Places'
    <3>1. ASSUME NEW u \in Thread
          PROVE  /\ node_pc'[u] = "waiting" => Within(waiters', u) \/ Within(wake', u)
                 /\ node_pc'[u] = "open" => Within(wake', u) \/ Within(forked, u)
                 /\ node_pc'[u] \notin {"opened", "failed"}
      <4>1. Within(waiters, u) \/ u = t => Within(waiters', u)
        BY <1>1, <2>1, WithinLists DEF NodeTypes
      <4>2. CASE u = t
        BY <2>3, <4>1, <4>2
      <4>3. CASE u # t
        BY <1>1, <1>3, <2>1, <2>3, <4>1, <4>3 DEF Places
      <4> QED
        BY <4>2, <4>3
    <3>2. \A u \in Thread : (node_pc'[u] \in {"name", "reach", "newservice", "changenode", "opened", "failed"})
                              <=> Opens(u)
      BY <1>3, <2>3 DEF Opens
    <3> QED
      BY <1>1, <1>2, <1>4, <2>1, <3>1, <3>2 DEF Places, Opens
  <2>5. Known' /\ Reached'
    BY <1>1, <1>2, <1>4, <2>1, <2>3 DEF Known, Reached
  <2> QED
    BY <2>2, <2>4, <2>5 DEF NodeInv
<1>5. CASE ~ connecting
  <2>1. /\ connecting' = TRUE /\ waiters' = <<>>
        /\ address' = [address EXCEPT ![t] = node_address]
    BY <1>5 DEF Sender!Open
  <2>2. /\ \/ node_pc' = [node_pc EXCEPT ![t] = "name"] /\ wake' = Tail(wake) /\ namequery' = t
           \/ node_pc' = [node_pc EXCEPT ![t] = "reach"] /\ wake' = wake /\ namequery' = namequery
    BY <1>5 DEF Sender!Open, Sender!Goto, Sender!Waits
  <2>3. node_pc'[t] \in {"name", "reach"} /\ \A u \in Thread : u # t => node_pc'[u] = node_pc[u]
    BY <1>1, <2>2 DEF NodeTypes
  <2>4. NodeTypes'
    <3>1. node_pc' \in [Thread -> {"idle", "open", "waiting", "name", "reach", "newservice",
                                   "changenode", "opened", "failed"}]
      BY <1>1, <2>2 DEF NodeTypes
    <3>2. wake' \in Seq(Thread) /\ namequery' \in Thread \cup {None} /\ waiters' \in Seq(Thread)
      <4>1. wake \in Seq(Thread) /\ namequery \in Thread \cup {None} /\ <<>> \in Seq(Thread)
        BY <1>1 DEF NodeTypes
      <4> QED
        BY <1>3, <2>1, <2>2, <4>1
    <3> QED
      BY <1>1, <1>2, <2>1, <3>1, <3>2 DEF NodeTypes
  <2>5. \A u \in Thread : ~ Opens(u)
    BY <1>1, <1>5 DEF Places
  <2>6. Places'
    <3>1. ASSUME NEW u \in Thread
          PROVE  /\ node_pc'[u] = "waiting" => Within(wake', u)
                 /\ node_pc'[u] = "open" => Within(wake', u) \/ Within(forked, u)
                 /\ node_pc'[u] \notin {"opened", "failed"}
      <4>1. CASE u = t
        BY <2>3, <4>1
      <4>2. CASE u # t
        <5>1. Within(wake, u) => Within(wake', u)
          BY <1>3, <2>2, <4>2
        <5> QED
          BY <1>1, <1>3, <1>5, <2>3, <4>2, <5>1 DEF Places
      <4> QED
        BY <4>1, <4>2
    <3>2. \A u \in Thread : (node_pc'[u] \in {"name", "reach", "newservice", "changenode", "opened", "failed"})
                              <=> u = t
      BY <2>3, <2>5 DEF Opens
    <3> QED
      BY <1>2, <2>1, <3>1, <3>2 DEF Places, Opens
  <2>7. /\ address'[t] = node_address /\ \A u \in Thread : u # t => address'[u] = address[u]
    BY <1>1, <2>1 DEF NodeTypes
  <2>8. Known'
    BY <1>1, <1>2, <2>3, <2>7 DEF Known
  <2>9. Reached'
    BY <1>3, <2>1, <2>3 DEF Reached
  <2> QED
    BY <2>4, <2>6, <2>8, <2>9 DEF NodeInv
<1> QED
  BY <1>4, <1>5

\* The coroutine that opens gets from one place to the next.
LEMMA OpenerMoves ==
  ASSUME NodeInv, NEW t \in Thread, Opens(t),
         NEW p \in {"reach", "newservice", "changenode", "opened", "failed"},
         node_pc' = [node_pc EXCEPT ![t] = p], UNCHANGED <<connecting, waiters, forked>>,
         \A u \in Thread : u # t /\ Within(wake, u) => Within(wake', u),
         p \in {"opened", "failed"} => wake' # <<>> /\ wake'[1] = t
  PROVE  /\ Places' /\ connecting
         /\ node_pc' \in [Thread -> {"idle", "open", "waiting", "name", "reach", "newservice",
                                     "changenode", "opened", "failed"}]
         /\ node_pc'[t] = p /\ \A u \in Thread : u # t => node_pc'[u] = node_pc[u] /\ ~ Opens(u)
<1>1. NodeTypes /\ Places
  BY DEF NodeInv
<1>2. node_pc'[t] = p /\ \A u \in Thread : u # t => node_pc'[u] = node_pc[u] /\ ~ Opens(u)
  BY <1>1 DEF NodeTypes, Places
<1>3. node_pc' \in [Thread -> {"idle", "open", "waiting", "name", "reach", "newservice",
                               "changenode", "opened", "failed"}]
  BY <1>1 DEF NodeTypes
<1>4. connecting
  BY <1>1 DEF Places
<1>5. ASSUME NEW u \in Thread
      PROVE  /\ node_pc'[u] = "waiting" => Within(waiters, u) \/ Within(wake', u)
             /\ node_pc'[u] = "open" => Within(wake', u) \/ Within(forked, u)
             /\ node_pc'[u] \in {"opened", "failed"} => wake' # <<>> /\ wake'[1] = u
             /\ (node_pc'[u] \in {"name", "reach", "newservice", "changenode", "opened", "failed"})
                  <=> u = t
  <2>1. CASE u = t
    BY <1>2, <2>1
  <2>2. CASE u # t
    BY <1>1, <1>2, <2>2 DEF Places, Opens
  <2> QED
    BY <2>1, <2>2
<1>6. Places'
  BY <1>4, <1>5 DEF Places, Opens
<1> QED
  BY <1>2, <1>3, <1>4, <1>6

LEMMA NamedStep ==
  ASSUME NodeInv, NEW t \in Thread, Sender!Named(t)
  PROVE  NodeInv'
<1>1. NodeTypes /\ Places /\ Known /\ Reached
  BY DEF NodeInv
<1>2. /\ node_pc[t] = "name" /\ node_pc' = [node_pc EXCEPT ![t] = "reach"]
      /\ address' = [address EXCEPT ![t] = node_address]
      /\ UNCHANGED <<node_address, node_sender, node_channel, at, connecting, waiters, namequery,
                     wake, forked>>
  BY DEF Sender!Named, Sender!Runs, Sender!Goto, Sender!config, Sender!sender, Sender!opening
<1>3. /\ Places' /\ connecting
      /\ node_pc' \in [Thread -> {"idle", "open", "waiting", "name", "reach", "newservice",
                                  "changenode", "opened", "failed"}]
      /\ node_pc'[t] = "reach" /\ \A u \in Thread : u # t => node_pc'[u] = node_pc[u] /\ ~ Opens(u)
  BY <1>2, OpenerMoves DEF Opens
<1>4. address'[t] = node_address /\ \A u \in Thread : u # t => address'[u] = address[u]
  BY <1>1, <1>2 DEF NodeTypes
<1>5. NodeTypes'
  BY <1>1, <1>2, <1>3 DEF NodeTypes
<1>6. Known'
  BY <1>1, <1>2, <1>3, <1>4 DEF Known
<1>7. Reached'
  BY <1>2, <1>3 DEF Reached, Opens
<1> QED
  BY <1>3, <1>5, <1>6, <1>7 DEF NodeInv

LEMMA ReachStep ==
  ASSUME NodeInv, NEW t \in Thread, Sender!Reach(t)
  PROVE  NodeInv'
<1>1. NodeTypes /\ Places /\ Known /\ Reached
  BY DEF NodeInv
<1>2. /\ Sender!Runs(t, "reach")
      /\ UNCHANGED <<node_address, node_sender, node_channel, at, connecting, waiters, namequery,
                     address, forked>>
  BY DEF Sender!Reach, Sender!config, Sender!sender, Sender!opening
<1>3. /\ wake # <<>> /\ wake[1] = t /\ node_pc[t] = "reach" /\ Tail(wake) \in Seq(Thread)
      /\ \A u \in Thread : u # t => (Within(wake, u) => Within(Tail(wake), u))
  BY <1>2, WhoRuns
<1>4. PICK p \in {"newservice", "changenode", "opened", "failed"} :
        /\ node_pc' = [node_pc EXCEPT ![t] = p]
        /\ p \in {"newservice", "changenode"} => wake' = Tail(wake) /\ address[t] \in Address \cup {NoAddress}
        /\ p = "opened" => wake' = wake /\ address[t] = NoAddress /\ ~ node_sender
        /\ p = "failed" => wake' = wake /\ address[t] \notin Address \cup {NoAddress}
  BY DEF Sender!Reach, Sender!Goto, Sender!Waits
<1>5. \A u \in Thread : u # t /\ Within(wake, u) => Within(wake', u)
  BY <1>3, <1>4
<1>6. wake' \in Seq(Thread)
  BY <1>1, <1>3, <1>4 DEF NodeTypes
<1>7. /\ Places' /\ connecting
      /\ node_pc' \in [Thread -> {"idle", "open", "waiting", "name", "reach", "newservice",
                                  "changenode", "opened", "failed"}]
      /\ node_pc'[t] = p /\ \A u \in Thread : u # t => node_pc'[u] = node_pc[u] /\ ~ Opens(u)
  <2>1. Opens(t)
    BY <1>3 DEF Opens
  <2>2. p \in {"opened", "failed"} => wake' # <<>> /\ wake'[1] = t
    BY <1>3, <1>4
  <2> QED
    BY <1>2, <1>4, <1>5, <2>1, <2>2, OpenerMoves
<1>8. NodeTypes'
  BY <1>1, <1>2, <1>6, <1>7 DEF NodeTypes
<1>9. Known'
  <2>1. p \in {"newservice", "changenode"} => address[t] # Absent
    BY <1>4, NodeConstants
  <2> QED
    BY <1>1, <1>2, <1>7, <2>1 DEF Known
<1>10. Reached'
  <2>1. address[t] \in {Absent, NoAddress} \cup Address
    BY <1>1 DEF NodeTypes, Addresses
  <2>2. p \in {"opened", "failed"} /\ node_channel => node_address # address[t]
    BY <1>1, <1>4, <2>1 DEF Known
  <2> QED
    BY <1>2, <1>7, <2>2 DEF Reached, Opens
<1> QED
  BY <1>7, <1>8, <1>9, <1>10 DEF NodeInv

LEMMA NewServiceStep ==
  ASSUME NodeInv, NEW t \in Thread, Sender!NewService(t)
  PROVE  NodeInv'
<1>1. NodeTypes /\ Places /\ Known /\ Reached
  BY DEF NodeInv
<1>2. /\ node_pc[t] = "newservice" /\ node_pc' = [node_pc EXCEPT ![t] = "changenode"]
      /\ node_sender' = TRUE /\ at' = (IF node_sender THEN at ELSE address[t])
      /\ UNCHANGED <<node_address, node_channel, connecting, waiters, namequery,
                     address, wake, forked>>
  BY DEF Sender!NewService, Sender!Goto, Sender!config, Sender!opening
<1>3. /\ Places' /\ connecting
      /\ node_pc' \in [Thread -> {"idle", "open", "waiting", "name", "reach", "newservice",
                                  "changenode", "opened", "failed"}]
      /\ node_pc'[t] = "changenode" /\ \A u \in Thread : u # t => node_pc'[u] = node_pc[u] /\ ~ Opens(u)
  BY <1>2, OpenerMoves DEF Opens
<1>4. NodeTypes'
  BY <1>1, <1>2, <1>3 DEF NodeTypes
<1>5. Known'
  BY <1>1, <1>2, <1>3 DEF Known
<1>6. Reached'
  BY <1>2, <1>3 DEF Reached, Opens
<1> QED
  BY <1>3, <1>4, <1>5, <1>6 DEF NodeInv

LEMMA ChangeNodeStep ==
  ASSUME NodeInv, NEW t \in Thread, Sender!ChangeNode(t)
  PROVE  NodeInv'
<1>1. NodeTypes /\ Places /\ Known /\ Reached
  BY DEF NodeInv
<1>2. /\ wake = <<>> /\ node_pc[t] = "changenode" /\ node_sender /\ at' = address[t] /\ wake' = <<t>>
      /\ UNCHANGED <<node_address, node_sender, connecting, waiters, namequery, address, forked>>
  BY DEF Sender!ChangeNode, Sender!Quiet, Sender!config
<1>3. /\ node_pc' = [node_pc EXCEPT ![t] = "opened"] \/ node_pc' = [node_pc EXCEPT ![t] = "failed"]
      /\ node_channel' \in BOOLEAN
  BY <1>1 DEF Sender!ChangeNode, Sender!Goto, NodeTypes
<1>4. PICK p \in {"opened", "failed"} : node_pc' = [node_pc EXCEPT ![t] = p]
  BY <1>3
<1>5. /\ Places' /\ connecting
      /\ node_pc' \in [Thread -> {"idle", "open", "waiting", "name", "reach", "newservice",
                                  "changenode", "opened", "failed"}]
      /\ node_pc'[t] = p /\ \A u \in Thread : u # t => node_pc'[u] = node_pc[u] /\ ~ Opens(u)
  <2>1. Opens(t) /\ wake' # <<>> /\ wake'[1] = t
    BY <1>2 DEF Opens
  <2>2. \A u \in Thread : u # t /\ Within(wake, u) => Within(wake', u)
    BY <1>2, WithinLists
  <2> QED
    BY <1>2, <1>4, <2>1, <2>2, OpenerMoves
<1>6. NodeTypes'
  BY <1>1, <1>2, <1>3, <1>5 DEF NodeTypes
<1>7. Known'
  BY <1>1, <1>2, <1>5 DEF Known
<1>8. Reached'
  BY <1>2, <1>5 DEF Reached, Opens
<1> QED
  BY <1>5, <1>6, <1>7, <1>8 DEF NodeInv

\* The coroutine that has opened the sender wakes the others, or opens it again.
LEMMA FinishStep ==
  ASSUME NodeInv, NEW t \in Thread, Sender!Finish(t)
  PROVE  NodeInv'
<1>1. NodeTypes /\ Places /\ Known /\ Reached
  BY DEF NodeInv
<1> DEFINE rest == Tail(wake) \o waiters
<1>2. /\ Sender!Runs(t, node_pc[t]) /\ node_pc[t] \in {"opened", "failed"}
      /\ connecting' = FALSE /\ waiters' = <<>> /\ namequery' = None
      /\ address' = [address EXCEPT ![t] = Absent]
      /\ UNCHANGED <<node_address, node_sender, node_channel, at, forked>>
  BY DEF Sender!Finish, Sender!config, Sender!sender
<1>3. \/ /\ node_address # address[t]
         /\ node_pc' = [node_pc EXCEPT ![t] = "open"] /\ wake' = <<t>> \o rest
      \/ /\ node_address = address[t]
         /\ node_pc' = [node_pc EXCEPT ![t] = "idle"] /\ wake' = rest
  BY DEF Sender!Finish, Sender!Goto
<1>4. /\ Tail(wake) \in Seq(Thread)
      /\ \A u \in Thread : u # t => (Within(wake, u) => Within(Tail(wake), u))
  BY <1>2, WhoRuns
<1>5. waiters \in Seq(Thread) /\ rest \in Seq(Thread) /\ <<t>> \in Seq(Thread)
      /\ <<t>> \o rest \in Seq(Thread)
  BY <1>1, <1>4 DEF NodeTypes
<1>6. ASSUME NEW u \in Thread, Within(Tail(wake), u) \/ Within(waiters, u)
      PROVE  Within(wake', u)
  <2>1. Within(rest, u)
    BY <1>4, <1>5, <1>6, WithinLists
  <2>2. Within(<<t>> \o rest, u)
    BY <1>5, <2>1, WithinLists
  <2> HIDE DEF rest
  <2> QED
    BY <1>3, <2>1, <2>2
<1>7. node_pc'[t] = "open" => Within(wake', t)
  <2>1. Within(<<t>> \o rest, t)
    BY <1>5, WithinLists
  <2> HIDE DEF rest
  <2> QED
    BY <1>1, <1>3, <2>1 DEF NodeTypes
<1> HIDE DEF rest
<1>8. /\ node_pc'[t] \in {"open", "idle"}
      /\ \A u \in Thread : u # t => node_pc'[u] = node_pc[u] /\ ~ Opens(u)
  BY <1>1, <1>2, <1>3 DEF NodeTypes, Places, Opens
<1>9. NodeTypes'
  <2>1. node_pc' \in [Thread -> {"idle", "open", "waiting", "name", "reach", "newservice",
                                 "changenode", "opened", "failed"}]
    BY <1>1, <1>3 DEF NodeTypes
  <2>2. wake' \in Seq(Thread) /\ waiters' \in Seq(Thread)
    <3>1. <<>> \in Seq(Thread)
      OBVIOUS
    <3> QED
      BY <1>2, <1>3, <1>5, <3>1
  <2>3. address' \in [Thread -> Addresses]
    BY <1>1, <1>2 DEF NodeTypes, Addresses
  <2> QED
    BY <1>1, <1>2, <2>1, <2>2, <2>3 DEF NodeTypes
<1>10. Places'
  <2>1. ASSUME NEW u \in Thread
        PROVE  /\ node_pc'[u] = "waiting" => Within(wake', u)
               /\ node_pc'[u] = "open" => Within(wake', u) \/ Within(forked, u)
               /\ node_pc'[u] \notin {"name", "reach", "newservice", "changenode", "opened", "failed"}
    <3>1. CASE u = t
      BY <1>7, <1>8, <3>1
    <3>2. CASE u # t
      BY <1>1, <1>4, <1>6, <1>8, <3>2 DEF Places, Opens
    <3> QED
      BY <3>1, <3>2
  <2> QED
    BY <1>2, <2>1 DEF Places, Opens
<1>11. /\ address'[t] = Absent /\ \A u \in Thread : u # t => address'[u] = address[u]
  BY <1>1, <1>2 DEF NodeTypes
<1>12. Known'
  BY <1>1, <1>2, <1>8, <1>11 DEF Known
<1>13. Reached'
  <2>1. node_channel => at = node_address \/ node_pc'[t] = "open"
    <3>1. CASE node_address # address[t]
      BY <1>1, <1>3, <3>1 DEF NodeTypes
    <3>2. CASE node_address = address[t]
      BY <1>1, <1>2, <3>2 DEF Reached
    <3> QED
      BY <3>1, <3>2
  <2> QED
    BY <1>2, <1>8, <2>1 DEF Reached, Opens
<1> QED
  BY <1>9, <1>10, <1>12, <1>13 DEF NodeInv

LEMMA WokenStep ==
  ASSUME NodeInv, NEW t \in Thread, Sender!Woken(t)
  PROVE  NodeInv'
<1>1. NodeTypes /\ Places /\ Known /\ Reached
  BY DEF NodeInv
<1>2. /\ Sender!Runs(t, "waiting") /\ wake' = Tail(wake)
      /\ UNCHANGED <<node_address, node_sender, node_channel, at, connecting, namequery, address,
                     forked>>
      /\ \/ connecting /\ waiters' = Append(waiters, t) /\ node_pc' = node_pc
         \/ ~ connecting /\ waiters' = waiters /\ node_pc' = [node_pc EXCEPT ![t] = "idle"]
  BY DEF Sender!Woken, Sender!Waits, Sender!Goto, Sender!config, Sender!sender
<1>3. /\ node_pc[t] = "waiting" /\ Tail(wake) \in Seq(Thread)
      /\ \A u \in Thread : u # t => /\ node_pc[u] \notin {"opened", "failed"}
                                    /\ Within(wake, u) => Within(Tail(wake), u)
  BY <1>2, WhoRuns
<1>4. /\ (node_pc'[t] = "waiting" /\ connecting) \/ node_pc'[t] = "idle"
      /\ \A u \in Thread : u # t => node_pc'[u] = node_pc[u]
  BY <1>1, <1>2, <1>3 DEF NodeTypes
<1>5. NodeTypes'
  <2>1. waiters \in Seq(Thread) /\ Append(waiters, t) \in Seq(Thread)
    BY <1>1 DEF NodeTypes
  <2>2. waiters' \in Seq(Thread) /\ wake' \in Seq(Thread)
    BY <1>2, <1>3, <2>1
  <2>3. node_pc' \in [Thread -> {"idle", "open", "waiting", "name", "reach", "newservice",
                                 "changenode", "opened", "failed"}]
    BY <1>1, <1>2 DEF NodeTypes
  <2> QED
    BY <1>1, <1>2, <2>2, <2>3 DEF NodeTypes
<1>6. Places'
  <2>1. ASSUME NEW u \in Thread
        PROVE  /\ node_pc'[u] = "waiting" => (connecting /\ Within(waiters', u)) \/ Within(wake', u)
               /\ node_pc'[u] = "open" => Within(wake', u) \/ Within(forked, u)
               /\ node_pc'[u] \notin {"opened", "failed"}
               /\ (node_pc'[u] \in {"name", "reach", "newservice", "changenode", "opened", "failed"})
                    <=> Opens(u)
    <3>1. connecting /\ (Within(waiters, u) \/ u = t) => Within(waiters', u)
      <4>1. waiters \in Seq(Thread)
        BY <1>1 DEF NodeTypes
      <4>2. Within(waiters, u) \/ u = t => Within(Append(waiters, t), u)
        BY <4>1, WithinLists
      <4> QED
        BY <1>2, <4>2
    <3>2. ~ connecting /\ Within(waiters, u) => Within(waiters', u)
      BY <1>2
    <3>3. CASE u = t
      BY <1>3, <1>4, <3>1, <3>3 DEF Opens
    <3>4. CASE u # t
      BY <1>1, <1>2, <1>3, <1>4, <3>1, <3>2, <3>4 DEF Places, Opens
    <3> QED
      BY <3>3, <3>4
  <2> QED
    BY <1>1, <1>2, <2>1 DEF Places, Opens
<1>7. Known'
  BY <1>1, <1>2, <1>4 DEF Known
<1>8. Reached'
  BY <1>1, <1>2, <1>3, <1>4 DEF Reached
<1> QED
  BY <1>5, <1>6, <1>7, <1>8 DEF NodeInv

\* The configuration is read again, with another address for the node or not.
LEMMA ResumeTypes ==
  ASSUME NodeTypes, wake = <<>>, Sender!Resume \/ UNCHANGED wake
  PROVE  wake' \in Seq(Thread)
<1>1. CASE UNCHANGED wake
  BY <1>1 DEF NodeTypes
<1>2. CASE Sender!Resume
  <2>1. CASE Sender!Awaited
    <3>1. namequery \in Thread
      BY <2>1 DEF Sender!Awaited, NodeTypes
    <3> QED
      BY <1>2, <2>1, <3>1 DEF Sender!Resume
  <2>2. CASE ~ Sender!Awaited
    BY <1>2, <2>2 DEF Sender!Resume
  <2> QED
    BY <2>1, <2>2
<1> QED
  BY <1>1, <1>2

LEMMA ReloadStep ==
  ASSUME NodeInv, NEW a \in {NoAddress} \cup Address, Sender!Reload(a)
  PROVE  NodeInv'
<1>1. NodeTypes /\ Places /\ Known /\ Reached
  BY DEF NodeInv
<1>2. /\ wake = <<>> /\ forked = <<>> /\ node_address' = a
      /\ Sender!Resume \/ UNCHANGED wake
      /\ UNCHANGED <<node_sender, at, connecting, waiters, namequery, address>>
  BY DEF Sender!Reload, Sender!Quiet, Sender!opening
<1>3. wake' \in Seq(Thread)
  BY <1>1, <1>2, ResumeTypes
<1>4. a # Absent /\ a \in Addresses
  BY NodeConstants DEF Addresses
<1>5. CASE a # node_address /\ node_sender
  <2>1. PICK f \in Fork : /\ node_pc[f] = "idle" /\ node_channel' = FALSE /\ forked' = <<f>>
                          /\ node_pc' = [node_pc EXCEPT ![f] = "open"]
    BY <1>5 DEF Sender!Reload, Sender!Goto
  <2>2. f \in Thread
    BY DEF Thread
  <2>3. node_pc'[f] = "open" /\ \A u \in Thread : u # f => node_pc'[u] = node_pc[u]
    BY <1>1, <2>1, <2>2 DEF NodeTypes
  <2>4. NodeTypes'
    <3>1. node_pc' \in [Thread -> {"idle", "open", "waiting", "name", "reach", "newservice",
                                   "changenode", "opened", "failed"}]
      BY <1>1, <2>1 DEF NodeTypes
    <3>2. forked' \in Seq(Thread)
      BY <2>1, <2>2
    <3> QED
      BY <1>1, <1>2, <1>3, <1>4, <2>1, <3>1, <3>2 DEF NodeTypes
  <2>5. Places'
    <3>1. ASSUME NEW u \in Thread
          PROVE  /\ node_pc'[u] = "waiting" => connecting /\ Within(waiters, u)
                 /\ node_pc'[u] = "open" => Within(forked', u)
                 /\ node_pc'[u] \notin {"opened", "failed"}
                 /\ (node_pc'[u] \in {"name", "reach", "newservice", "changenode", "opened", "failed"})
                      <=> Opens(u)
      <4>1. CASE u = f
        BY <2>1, <2>2, <2>3, <4>1, WithinLists DEF Opens
      <4>2. CASE u # f
        BY <1>2, <2>3, <4>2, WhenQuiet DEF Opens
      <4> QED
        BY <4>1, <4>2
    <3> QED
      BY <1>1, <1>2, <3>1 DEF Places, Opens
  <2>6. Known' /\ Reached'
    BY <1>1, <1>2, <1>4, <2>1, <2>2, <2>3 DEF Known, Reached
  <2> QED
    BY <2>4, <2>5, <2>6 DEF NodeInv
<1>6. CASE ~ (a # node_address /\ node_sender)
  <2>1. UNCHANGED <<node_channel, forked, node_pc>>
    BY <1>6 DEF Sender!Reload
  <2>2. NodeTypes'
    BY <1>1, <1>2, <1>3, <1>4, <2>1 DEF NodeTypes
  <2>3. Places'
    <3>1. ASSUME NEW u \in Thread
          PROVE  /\ node_pc[u] = "waiting" => connecting /\ Within(waiters, u)
                 /\ node_pc[u] \notin {"open", "opened", "failed"}
      BY <1>2, WhenQuiet
    <3> QED
      BY <1>1, <1>2, <2>1, <3>1 DEF Places, Opens
  <2>4. Known'
    BY <1>1, <1>2, <1>4, <2>1 DEF Known
  <2>5. Reached'
    <3>1. \A u \in Thread : node_pc[u] \notin {"opened", "failed"}
      BY <1>2, WhenQuiet
    <3>2. node_channel => a = node_address
      BY <1>1, <1>6 DEF Known
    <3> QED
      BY <1>1, <1>2, <2>1, <3>1, <3>2 DEF Reached
  <2> QED
    BY <2>2, <2>3, <2>4, <2>5 DEF NodeInv
<1> QED
  BY <1>5, <1>6

LEMMA NoWaitingStep ==
  ASSUME NodeInv, NEW b \in BOOLEAN, Sender!NoWaiting(b)
  PROVE  NodeInv'
<1>1. NodeTypes /\ Places /\ Known /\ Reached
  BY DEF NodeInv
<1>2. /\ wake = <<>> /\ forked = <<>>
      /\ Sender!Resume \/ UNCHANGED wake
      /\ UNCHANGED <<node_address, node_sender, node_channel, at, connecting, waiters, namequery,
                     node_pc, address, forked>>
  BY DEF Sender!NoWaiting, Sender!Quiet, Sender!sender, Sender!opening
<1>3. NodeTypes'
  BY <1>1, <1>2, ResumeTypes DEF NodeTypes
<1>4. Places'
  <2>1. ASSUME NEW u \in Thread
        PROVE  /\ node_pc[u] = "waiting" => connecting /\ Within(waiters, u)
               /\ node_pc[u] \notin {"open", "opened", "failed"}
    BY <1>2, WhenQuiet
  <2> QED
    BY <1>1, <1>2, <2>1 DEF Places, Opens
<1>5. Known' /\ Reached'
  BY <1>1, <1>2 DEF Known, Reached
<1> QED
  BY <1>3, <1>4, <1>5 DEF NodeInv

LEMMA NodeStep ==
  NodeInv /\ [ServicesNext]_services => NodeInv'
<1> SUFFICES ASSUME NodeInv, [ServicesNext]_services PROVE NodeInv'
  OBVIOUS
<1>1. CASE UNCHANGED node_vars
  BY <1>1 DEF node_vars, NodeInv, NodeTypes, Places, Opens, Known, Reached
<1>2. ASSUME NEW t \in Thread, Sender!Step(t) \/ Sender!Ask(t)
      PROVE  NodeInv'
  BY <1>2, OpenStep, NamedStep, ReachStep, NewServiceStep, ChangeNodeStep, FinishStep, WokenStep,
     NodeAskStep DEF Sender!Step
<1>3. CASE Sender!Next
  BY <1>2, <1>3, RunForkStep, ReloadStep, NoWaitingStep, NodeConstants DEF Sender!Next
<1>4. UNCHANGED node_vars \/ Sender!Next
  BY DEF ServicesNext, In, services
<1> QED
  BY <1>1, <1>3, <1>4

LEMMA NodeInit == ServicesInit => NodeInv
<1> SUFFICES ASSUME Sender!Init PROVE NodeInv
  BY DEF ServicesInit
<1>1. /\ node_address \in {Absent, NoAddress} \cup Address
      /\ node_sender = FALSE /\ node_channel = FALSE /\ at = Absent
      /\ connecting = FALSE /\ waiters = <<>> /\ namequery = None
      /\ node_pc = [t \in Thread |-> "idle"] /\ address = [t \in Thread |-> Absent]
      /\ wake = <<>> /\ forked = <<>>
  BY NodeConstants DEF Sender!Init
<1>2. \A t \in Thread : node_pc[t] = "idle" /\ address[t] = Absent
  BY <1>1
<1>3. NodeTypes
  <2>1. <<>> \in Seq(Thread)
    OBVIOUS
  <2> QED
    BY <1>1, <2>1 DEF NodeTypes, Addresses
<1>4. Places /\ Known /\ Reached
  BY <1>1, <1>2 DEF Places, Opens, Known, Reached
<1> QED
  BY <1>3, <1>4 DEF NodeInv

\* What a node has cached of another one is what is configured or registered,
\* once it has settled: the address the sender goes to, after every reload of the
\* configuration, and the names of its services, when no change is to be told.
THEOREM CachesCurrent == ServicesSpec => []CachedIsCurrent
<1>1. NodeInv /\ NameInv => CachedIsCurrent
  <2> SUFFICES ASSUME NodeInv, NameInv PROVE CachedIsCurrent
    OBVIOUS
  <2>1. Sender!TypeOK
    <3>1. ASSUME connecting
          PROVE  \E t \in Thread : {u \in Thread : Sender!Opens(u)} = {t}
      <4>1. PICK t \in Thread : Opens(t)
        BY <3>1 DEF NodeInv, Places
      <4>2. {u \in Thread : Sender!Opens(u)} = {t}
        BY <4>1 DEF NodeInv, Places, Opens, Sender!Opens
      <4> QED
        BY <4>2
    <3>2. ASSUME NEW t \in Thread, node_pc[t] = "waiting"
          PROVE  (connecting /\ Sender!Contains(waiters, t)) \/ Sender!Contains(wake, t)
      BY <3>2 DEF NodeInv, Places, Within, Sender!Contains
    <3> QED
      BY <3>1, <3>2, NodeConstants DEF Sender!TypeOK, NodeInv, Known
  <2>2. Sender!SenderCurrent
    <3> SUFFICES ASSUME wake = <<>>, forked = <<>>, ~ connecting, node_channel
                 PROVE  at = node_address
      BY DEF Sender!SenderCurrent, Sender!Settled, Sender!Quiet
    <3> QED
      BY WhenQuiet DEF NodeInv, Reached
  <2>3. Agent!CacheCurrent
    <3>1. DOMAIN down = 1 .. Len(down)
      BY DEF NameInv, NameTypes
    <3> QED
      BY <3>1 DEF Agent!CacheCurrent, NameInv, Current, NoChange
  <2> QED
    BY <2>1, <2>2, <2>3 DEF CachedIsCurrent
<1> QED
  BY <1>1, NodeInit, NodeStep, NameInit, NameStep, PTL DEF ServicesSpec
=============================================================================
