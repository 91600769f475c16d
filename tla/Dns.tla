----------------------------------- MODULE Dns -----------------------------------
\* The resolver of a service (lualib/skynet/dns.lua): requests in flight under
\* transaction numbers, answers that are lost, late or repeated, time-outs, the
\* cache, and the socket that is given up when nobody asks.
EXTENDS Integers, FiniteSets, FiniteSetsExt

CONSTANTS
    Request, Name,
    MaxTid,                         \* 65535
    TIMEOUT, RETIRE,                \* in ticks
    MaxTime

DnsAssumption == {MaxTid, TIMEOUT, RETIRE, MaxTime} \subseteq Nat \ {0}

NoReq == 0
DnsRequests == Request \subseteq Nat \ {NoReq}

VARIABLES
    now,
    next_tid, request_pool,         \* of each tid its request
    req,                            \* of each request: state, name, tid, start, timer, heard
    cache,                          \* of each name "none", "fresh", or "stale" beyond its ttl
    fd, retire, alive,              \* the socket is open; last use; ticks the checks are due at
    net                             \* answers under way: tid, name, ok

socket == <<fd, retire, alive>>
vars == <<now, next_tid, request_pool, req, cache, socket, net>>

Init ==
    /\ now = 1 /\ next_tid = 1 /\ request_pool = [t \in 1..MaxTid |-> NoReq]
    /\ req = [r \in Request |-> [state |-> "new", name |-> "", tid |-> 0, start |-> 0, timer |-> FALSE, heard |-> FALSE]]
    /\ cache = [n \in Name |-> "none"] /\ fd = FALSE /\ retire = 0 /\ alive = {} /\ net = {}

------------------------------------------------------------------------------

gen_tid ==
    IF request_pool[next_tid] = NoReq THEN next_tid
    ELSE Min({t \in 1..MaxTid : request_pool[t] = NoReq})

\* touch_server, with connect_server.
touch_server ==
    /\ retire' = now /\ fd' = TRUE
    /\ alive' = IF fd THEN alive ELSE alive \cup {now + 2 * RETIRE}

\* Requests are alike: they begin in order.
InOrder(r) == \A s \in Request : s < r => req[s].state # "new"

\* dns.resolve of a name that is not in the cache: the question is sent and the
\* answer, if one comes, is about it.
Resolve(r, n) ==
    /\ req[r].state = "new" /\ InOrder(r) /\ cache[n] # "fresh"
    /\ \E t \in 1..MaxTid : request_pool[t] = NoReq
    /\ LET t == gen_tid
       IN /\ next_tid' = IF t + 1 > MaxTid THEN 1 ELSE t + 1
          /\ request_pool' = [request_pool EXCEPT ![t] = r]
          /\ req' = [req EXCEPT ![r] = [state |-> "wait", name |-> n, tid |-> t, start |-> now, timer |-> TRUE, heard |-> FALSE]]
          /\ \E a \in {{}, {TRUE}, {FALSE}} : net' = net \cup {[tid |-> t, name |-> n, ok |-> k] : k \in a}
    /\ touch_server
    /\ UNCHANGED <<now, cache>>
ResolveCached(r, n) ==
    /\ req[r].state = "new" /\ InOrder(r) /\ cache[n] = "fresh"
    /\ req' = [req EXCEPT ![r].state = "found", ![r].name = n]
    /\ UNCHANGED <<now, next_tid, request_pool, cache, socket, net>>
\* The server cannot be reached: the number is used up.
ResolveFails(r, n) ==
    /\ req[r].state = "new" /\ InOrder(r) /\ cache[n] # "fresh" /\ ~fd
    /\ \E t \in 1..MaxTid : request_pool[t] = NoReq
    /\ next_tid' = (IF gen_tid + 1 > MaxTid THEN 1 ELSE gen_tid + 1) /\ retire' = now
    /\ req' = [req EXCEPT ![r].state = "none", ![r].name = n, ![r].heard = TRUE]
    /\ UNCHANGED <<now, request_pool, cache, fd, alive, net>>

\* resolve, for a packet that may come again.
Receive(p) ==
    /\ fd /\ p \in net /\ \E again \in BOOLEAN : net' = IF again THEN net ELSE net \ {p}
    /\ cache' = IF p.ok THEN [cache EXCEPT ![p.name] = "fresh"] ELSE cache
    /\ LET r == request_pool[p.tid]
       IN IF r = NoReq THEN UNCHANGED <<request_pool, req>>
          ELSE /\ request_pool' = [request_pool EXCEPT ![p.tid] = NoReq]
               /\ req' = [req EXCEPT ![r].state = IF cache'[req[r].name] # "none" THEN "found" ELSE "none",
                                     ![r].heard = TRUE]
    /\ UNCHANGED <<now, next_tid, socket>>

\* The thread of suspend that sleeps: whatever is in the pool under the number
\* of r is woken.
Timeout(r) ==
    /\ req[r].timer /\ now >= req[r].start + TIMEOUT
    /\ LET q == request_pool[req[r].tid]
       IN /\ req' = [s \in Request |->
                    [req[s] EXCEPT !.timer = IF s = r THEN FALSE ELSE @,
                                   !.state = IF s # q THEN @ ELSE IF cache[req[s].name] # "none" THEN "found" ELSE "none"]]
          /\ request_pool' = [request_pool EXCEPT ![req[r].tid] = NoReq]
    /\ UNCHANGED <<now, next_tid, cache, socket, net>>

check_alive ==
    \E t \in alive :
        /\ t <= now
        /\ IF now > retire + RETIRE THEN fd' = FALSE /\ alive' = alive \ {t}
           ELSE alive' = (alive \ {t}) \cup {now + 2 * RETIRE} /\ fd' = fd
        /\ UNCHANGED retire
CheckAlive == check_alive /\ UNCHANGED <<now, next_tid, request_pool, req, cache, net>>

\* An answer expires; the cache is weak, what nobody holds is forgotten.
Forget(n) ==
    /\ \E c \in {"none", "stale"} : /\ cache[n] # "none" /\ c # cache[n]
                                   /\ cache' = [cache EXCEPT ![n] = c]
    /\ UNCHANGED <<now, next_tid, request_pool, req, socket, net>>

\* Time waits for timers that are due.
Tick ==
    /\ now < MaxTime /\ \A r \in Request : req[r].timer => now < req[r].start + TIMEOUT
    /\ \A t \in alive : now < t
    /\ now' = now + 1 /\ UNCHANGED <<next_tid, request_pool, req, cache, socket, net>>

Next ==
    \/ \E r \in Request : Timeout(r) \/ \E n \in Name : Resolve(r, n) \/ ResolveCached(r, n) \/ ResolveFails(r, n)
    \/ \E p \in net : Receive(p)
    \/ \E n \in Name : Forget(n)
    \/ CheckAlive \/ Tick
Spec == Init /\ [][Next]_vars
------------------------------------------------------------------------------
\* Properties.

\* The pool holds the requests that wait, each under its own number.
PoolOfWaiting ==
    /\ \A r \in Request : req[r].state = "wait" => request_pool[req[r].tid] = r
    /\ \A t \in 1..MaxTid : request_pool[t] # NoReq =>
            req[request_pool[t]].state = "wait" /\ req[request_pool[t]].tid = t

\* A request ends without a packet for it only after TIMEOUT.
NotBeforeTimeout ==
    \A r \in Request : req[r].state \in {"found", "none"} /\ req[r].tid # 0 /\ ~req[r].heard =>
        now >= req[r].start + TIMEOUT

\* The socket is open as long as an answer is waited for, and is looked after.
OpenWhileWaiting ==
    /\ \A r \in Request : req[r].state = "wait" /\ now < req[r].start + TIMEOUT => fd
    /\ fd => alive # {}

==================================================================================
