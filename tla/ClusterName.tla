------------------------------ MODULE ClusterName ------------------------------
\* Names of services for other nodes: command.register and queryname of
\* service/clusterd.lua, and the cache of names in service/clusteragent.lua,
\* whose coroutines ask clusterd once and wait for each other.
EXTENDS Integers, Sequences, FiniteSets, SequencesExt

CONSTANTS
    Request,        \* coroutines of the agent, each of which handles a request
    Name, Service,  \* names, and the services that register
    MaxRegister,    \* bound on the registrations
    MaxAsks,        \* bound on the requests
    None

ClusterNameAssumption ==
    None \notin Service /\ MaxRegister \in Nat /\ MaxAsks \in Nat

VARIABLES
    register_name,  \* clusterd: the service of a name
    cache, table,   \* the agent's register_name, and how often it was made anew
    inquery,        \* inquery_name: the coroutine that asks, and those that wait
    self, name,     \* the table a coroutine looks at, and for which name
    pc, got,        \* where a coroutine is, what it has found
    up, down,       \* queries for clusterd, and what clusterd has sent
    absent,         \* whose name was not registered at some time since the query
    registers, asks

agent == <<cache, table, inquery, self, name, pc, got>>
vars == <<register_name, agent, up, down, absent, registers, asks>>

Init ==
    /\ register_name = [n \in Name |-> None]
    /\ cache = [n \in Name |-> None] /\ table = 0
    /\ inquery = [n \in Name |-> <<>>]
    /\ self = [t \in Request |-> 0] /\ name = [t \in Request |-> None]
    /\ pc = [t \in Request |-> "idle"] /\ got = [t \in Request |-> None]
    /\ up = <<>> /\ down = <<>> /\ absent = [t \in Request |-> FALSE]
    /\ registers = 0 /\ asks = 0

------------------------------------------------------------------------------
\* clusterd.

Old(s) == {n \in Name : register_name[n] = s}

\* A service registers one name: the last it had goes, and the agents are told.
Register(s, n) ==
    /\ registers < MaxRegister /\ registers' = registers + 1
    /\ register_name[n] = None
    /\ register_name' = [m \in Name |-> IF m = n THEN s
                                        ELSE IF m \in Old(s) THEN None ELSE register_name[m]]
    /\ down' = IF Old(s) = {} THEN down ELSE Append(down, <<"namechange">>)
    /\ absent' = [t \in Request |-> absent[t] \/ name[t] \in Old(s)]
    /\ UNCHANGED <<agent, up, asks>>
QueryName ==
    /\ up # <<>> /\ up' = Tail(up)
    /\ down' = Append(down, <<"addr", Head(up), register_name[name[Head(up)]]>>)
    /\ UNCHANGED <<register_name, agent, absent, registers, asks>>

------------------------------------------------------------------------------
\* The agent.

\* A request for a name: from the cache, behind one that asks, or it asks.
Ask(t, n) ==
    /\ pc[t] = "idle" /\ asks < MaxAsks /\ asks' = asks + 1
    /\ absent' = [absent EXCEPT ![t] = \/ register_name[n] = None
                                      \/ /\ inquery[n] # <<>>
                                         /\ absent[Head(inquery[n])]]
    /\ IF cache[n] # None
       THEN got' = [got EXCEPT ![t] = cache[n]] /\ UNCHANGED <<name, self, inquery, pc, up>>
       ELSE /\ name' = [name EXCEPT ![t] = n] /\ self' = [self EXCEPT ![t] = table]
            /\ inquery' = [inquery EXCEPT ![n] = Append(@, t)]
            /\ got' = [got EXCEPT ![t] = None]
            /\ pc' = [pc EXCEPT ![t] = IF inquery[n] = <<>> THEN "query" ELSE "wait"]
            /\ up' = IF inquery[n] = <<>> THEN Append(up, t) ELSE up
    /\ UNCHANGED <<register_name, cache, table, down, registers>>

\* The answer is for the one who asked and for those who look at its table.
Found(t, a) ==
    LET n == name[t]
        woken == ToSet(inquery[n])
    IN /\ got' = [u \in Request |-> IF u \notin woken THEN got[u]
                                    ELSE IF u = t \/ self[u] = self[t] THEN a ELSE None]
       /\ cache' = IF self[t] = table THEN [cache EXCEPT ![n] = a] ELSE cache
       /\ pc' = [u \in Request |-> IF u \in woken THEN "found" ELSE pc[u]]
       /\ inquery' = [inquery EXCEPT ![n] = <<>>]
       /\ UNCHANGED <<table, self, name>>
NameChange ==
    /\ cache' = [n \in Name |-> None] /\ table' = table + 1
    /\ UNCHANGED <<inquery, self, name, pc, got>>
Handle ==
    /\ down # <<>> /\ down' = Tail(down)
    /\ IF Head(down)[1] = "addr" THEN Found(Head(down)[2], Head(down)[3]) ELSE NameChange
    /\ UNCHANGED <<register_name, up, absent, registers, asks>>
Reply(t) ==
    /\ pc[t] = "found" /\ pc' = [pc EXCEPT ![t] = "idle"]
    /\ got' = [got EXCEPT ![t] = None] /\ name' = [name EXCEPT ![t] = None]
    /\ self' = [self EXCEPT ![t] = 0]
    /\ UNCHANGED <<register_name, cache, table, inquery, up, down, absent, registers, asks>>

Next ==
    \/ \E s \in Service, n \in Name : Register(s, n)
    \/ QueryName \/ Handle
    \/ \E t \in Request : Reply(t) \/ \E n \in Name : Ask(t, n)
Fairness == WF_vars(QueryName) /\ WF_vars(Handle) /\ \A t \in Request : WF_vars(Reply(t))
Spec == Init /\ [][Next]_vars
FairSpec == Spec /\ Fairness

------------------------------------------------------------------------------
\* Properties.

\* What an agent has cached is what is registered, until it is told of a change.
CacheCurrent ==
    (\A i \in DOMAIN down : down[i] # <<"namechange">>) =>
        \A n \in Name : cache[n] \in {None, register_name[n]}

\* Every request for a name is answered.
AsksEnd == \A t \in Request : pc[t] # "idle" ~> pc[t] = "idle"

\* A name that is registered from before the query until after it is found.
RegisteredFound ==
    \A t \in Request : pc[t] = "found" /\ ~absent[t] => got[t] # None
==============================================================================
