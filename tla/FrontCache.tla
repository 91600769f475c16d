------------------------------- MODULE FrontCache ------------------------------
\* The cache that each service keeps in front of the service meiru/cached
\* (lualib/meiru/server/cached.lua): values with a deadline in a map and in a
\* priority queue, and calls of meiru/cached, which yield.
EXTENDS Integers, Sequences, FiniteSets, SequencesExt, FiniteSetsExt

CONSTANTS
    Client,             \* coroutines of the service
    Key, Value,
    Timeout,            \* the timeouts of set
    Lifetime,           \* how long meiru/cached keeps what has no timeout
    kMCacheInterval, MaxCount,
    MaxTime, MaxCalls,  \* bounds on the clock and on the calls
    None

FrontCacheAssumption ==
    /\ Timeout \subseteq Nat /\ None \notin Value /\ kMCacheInterval \in Nat /\ MaxCount \in Nat

VARIABLES
    now, calls,
    _caches, _queue,    \* the cached tables by key, and by deadline
    pc, op,             \* where a coroutine is, what it was called for
    requests,           \* the queue of meiru/cached
    cached,             \* what meiru/cached holds
    last, read          \* ghosts: the last value set and when, the last read

local == <<_caches, _queue>>
threads == <<pc, op>>
ghosts == <<last, read>>
vars == <<now, calls, local, threads, requests, cached, ghosts>>

\* The comparison is b.deadline - a.deadline: the latest deadline comes first.
Later(a, b) == a.deadline > b.deadline
PQ == INSTANCE PriorityQueue WITH Before <- Later

Nothing == [val |-> None, deadline |-> 0]
NoRead == [val |-> None, late |-> FALSE, right |-> TRUE]
Call == [do : {"get", "set"}, key : Key, val : Value, timeout : Timeout]

Init ==
    /\ now = 1 /\ calls = 0
    /\ _caches = [k \in Key |-> None] /\ _queue = PQ!Empty
    /\ pc = [c \in Client |-> "idle"] /\ op = [c \in Client |-> None]
    /\ requests = <<>> /\ cached = [k \in Key |-> Nothing]
    /\ last = [k \in Key |-> [val |-> None, at |-> 0]] /\ read = NoRead

Goto(c, p) == pc' = [pc EXCEPT ![c] = p]

------------------------------------------------------------------------------
\* get_data and set_data.

Fresh(k) == _caches[k] # None /\ now <= _caches[k].deadline

\* The loop of set_data: tables go while the first one is late or there are too
\* many, and their keys with them.
Trim(c, q) ==
    LET trim[n \in 0 .. PQ!count(q)] ==
            IF n = 0 THEN <<c, q>>
            ELSE LET r == trim[n - 1]
                     first == PQ!peek(r[2])
                 IN IF PQ!count(r[2]) > 0 /\ (now > first.deadline \/ PQ!count(r[2]) > MaxCount)
                    THEN <<[r[1] EXCEPT ![first.key] = None], PQ!poll(r[2])>> ELSE r
    IN trim[PQ!count(q)]

\* Tables differ, also when they hold the same.
Number == Min((1 .. MaxCalls + 1) \ {e.n : e \in DOMAIN _queue.map})
Table(k, v, timeout) ==
    [key |-> k, val |-> v, n |-> Number,
     deadline |-> now + (IF timeout = 0 \/ timeout > kMCacheInterval THEN kMCacheInterval ELSE timeout)]

SetData(k, v, timeout) ==
    LET t == Table(k, v, timeout)
        r == Trim([_caches EXCEPT ![k] = t], _queue)
    IN _caches' = r[1] /\ _queue' = PQ!offer(r[2], t)

\* get_data of what is late.
Expire(k) ==
    IF _caches[k] = None THEN UNCHANGED local
    ELSE /\ _caches' = [_caches EXCEPT ![k] = None]
         /\ _queue' = IF PQ!In(_queue, _caches[k]) THEN PQ!remove(_queue, _caches[k]) ELSE _queue

Returns(k, v, deadline) ==
    read' = [val |-> v, late |-> v # None /\ now > deadline,
             right |-> v = last[k].val \/ now <= last[k].at + kMCacheInterval]

------------------------------------------------------------------------------
\* The calls.

Ask(c, call) == requests' = Append(requests, [who |-> c, call |-> call])

\* cmds.set: what is short is kept here only.
Set(c, call) ==
    /\ pc[c] = "idle" /\ calls < MaxCalls /\ calls' = calls + 1 /\ call.do = "set"
    /\ SetData(call.key, call.val, call.timeout)
    /\ last' = [last EXCEPT ![call.key] = [val |-> call.val, at |-> now]]
    /\ IF call.timeout # 0 /\ call.timeout < kMCacheInterval
       THEN UNCHANGED <<requests, threads>>
       ELSE Ask(c, call) /\ Goto(c, "call") /\ op' = [op EXCEPT ![c] = call]
    /\ UNCHANGED <<now, cached, read>>

\* cmds.get, from here or from meiru/cached.
Get(c, call) ==
    /\ pc[c] = "idle" /\ calls < MaxCalls /\ calls' = calls + 1 /\ call.do = "get"
    /\ IF Fresh(call.key)
       THEN /\ Returns(call.key, _caches[call.key].val, _caches[call.key].deadline)
            /\ UNCHANGED <<local, requests, threads>>
       ELSE /\ Expire(call.key) /\ UNCHANGED read
            /\ Ask(c, call) /\ Goto(c, "call") /\ op' = [op EXCEPT ![c] = call]
    /\ UNCHANGED <<now, cached, last>>

\* meiru/cached, which is modelled in Cache, answers in order, and the coroutine
\* goes on with what it has got.
Kept(k) == cached[k].val # None /\ now < cached[k].deadline
Answer ==
    /\ requests # <<>> /\ requests' = Tail(requests)
    /\ LET c == Head(requests).who
           call == Head(requests).call
           k == call.key
       IN /\ Goto(c, "idle") /\ op' = [op EXCEPT ![c] = None]
          /\ IF call.do = "set"
             THEN /\ cached' = [cached EXCEPT ![k] =
                        [val |-> call.val, deadline |-> now + (IF call.timeout = 0 THEN Lifetime ELSE call.timeout)]]
                  /\ UNCHANGED <<local, read>>
             ELSE /\ UNCHANGED cached
                  /\ IF Kept(k)
                     THEN /\ SetData(k, cached[k].val, cached[k].deadline - now)
                          /\ Returns(k, cached[k].val, cached[k].deadline)
                     ELSE UNCHANGED local /\ Returns(k, None, 0)
    /\ UNCHANGED <<now, calls, last>>

\* A call is answered within the second.
Tick ==
    /\ requests = <<>> /\ now < MaxTime /\ now' = now + 1
    /\ UNCHANGED <<calls, local, threads, requests, cached, ghosts>>

Next ==
    \/ \E c \in Client, call \in Call : Set(c, call) \/ Get(c, call)
    \/ Answer \/ Tick
Spec == Init /\ [][Next]_vars

------------------------------------------------------------------------------
\* Properties.

\* The map and the queue agree: nothing is cached that the queue would never
\* let go, the queue knows the place of each table, and it has a bound.
TypeOK ==
    /\ \A k \in Key : _caches[k] # None => _caches[k].key = k /\ PQ!In(_queue, _caches[k])
    /\ \A i \in DOMAIN _queue.array : PQ!In(_queue, _queue.array[i]) /\ _queue.map[_queue.array[i]] = i - 1
    /\ PQ!count(_queue) <= MaxCount + 1

\* What is read is at most kMCacheInterval behind what was set last, also when a
\* get that was on its way brings an older value.
BoundedlyStale == read.right
================================================================================
