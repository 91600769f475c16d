----------------------------- MODULE UniqueService -----------------------------
\* Services that are to be there once (service/service_mgr.lua), the launcher
\* that makes them (service/launcher.lua), and what becomes of them: they come
\* up, fail, leave or are killed.  The init of a service may need others.
EXTENDS Integers, SequencesExt

CONSTANTS
    Client,             \* services that ask for a name
    Name, Needs,        \* names, and the names that the init of each asks for
    Inst,               \* the services that can be launched, 1 .. n
    MaxAsks,            \* bound on the calls of clients
    MaxEnds,            \* bound on the services that fail, leave or are killed
    None

UniqueServiceAssumption ==
    /\ Needs \in [Name -> SUBSET Name] /\ MaxAsks \in Nat /\ MaxEnds \in Nat
    /\ Inst \subseteq Nat \ {0} /\ None \notin Client \cup Inst \cup {0, -1}

VARIABLES
    service,            \* service_mgr: of each name nil, a table, a handle or an error
    waitfor,            \* ... the coroutines in the table, and the one that launches
    launcher,           \* the message queue of the launcher
    instance,           \* ... and who waits for a service to come up
    state, is, needs,   \* what an instance does, its name, what its init waits for
    pc, op, answer,     \* a call of service_mgr, what it asks, what it is answered
    asks, ends

mgr == <<service, waitfor>>
insts == <<state, is, needs>>
calls == <<pc, op, answer>>
vars == <<mgr, launcher, instance, insts, calls, asks, ends>>

\* Who calls service_mgr: a client, or the init of a service.
Caller == Client \cup Inst
Failed == -1
Table == 0

Init ==
    /\ service = [n \in Name |-> None] /\ waitfor = [n \in Name |-> [co |-> <<>>, launch |-> None]]
    /\ launcher = <<>> /\ instance = [i \in Inst |-> None]
    /\ state = [i \in Inst |-> "free"] /\ is = [i \in Inst |-> None]
    /\ needs = [i \in Inst |-> {}]
    /\ pc = [c \in Caller |-> "idle"] /\ op = [c \in Caller |-> None]
    /\ answer = [c \in Caller |-> None] /\ asks = 0 /\ ends = 0

IsHandle(v) == v \in Inst

------------------------------------------------------------------------------
\* service_mgr.

\* Mutant: a second coroutine launches as well.
WaitforToo(c, do, n) ==
    /\ op' = [op EXCEPT ![c] = n]
    /\ IF IsHandle(service[n]) \/ service[n] = Failed
       THEN /\ answer' = [answer EXCEPT ![c] = service[n]]
            /\ UNCHANGED <<mgr, launcher, pc>>
       ELSE /\ service' = [service EXCEPT ![n] = Table]
            /\ UNCHANGED answer
            /\ IF do = "LAUNCH"
               THEN /\ waitfor' = [waitfor EXCEPT ![n].launch = c]
                    /\ launcher' = Append(launcher, [do |-> "LAUNCH", who |-> c])
                    /\ pc' = [pc EXCEPT ![c] = "launch"]
               ELSE /\ waitfor' = [waitfor EXCEPT ![n].co = Append(@, c)]
                    /\ pc' = [pc EXCEPT ![c] = "wait"] /\ UNCHANGED launcher

\* waitfor: the answer is known, or this coroutine launches, or it waits.
Waitfor(c, do, n) ==
    /\ op' = [op EXCEPT ![c] = n]
    /\ IF IsHandle(service[n]) \/ service[n] = Failed
       THEN /\ answer' = [answer EXCEPT ![c] = service[n]]
            /\ UNCHANGED <<mgr, launcher, pc>>
       ELSE /\ service' = [service EXCEPT ![n] = Table]
            /\ UNCHANGED answer
            /\ IF do = "LAUNCH" /\ waitfor[n].launch = None
               THEN /\ waitfor' = [waitfor EXCEPT ![n].launch = c]
                    /\ launcher' = Append(launcher, [do |-> "LAUNCH", who |-> c])
                    /\ pc' = [pc EXCEPT ![c] = "launch"]
               ELSE /\ waitfor' = [waitfor EXCEPT ![n].co = Append(@, c)]
                    /\ pc' = [pc EXCEPT ![c] = "wait"] /\ UNCHANGED launcher

\* The rest of request, with the answer of the launcher: nil (the service has
\* left in its init) leaves the name unknown, and those who wait get an error.
Request(c, r) ==
    LET n == op[c]
        woken == ToSet(waitfor[n].co)
    IN /\ service' = [service EXCEPT ![n] = r]
       /\ waitfor' = [waitfor EXCEPT ![n] = [co |-> <<>>, launch |-> None]]
       /\ answer' = [d \in Caller |-> IF d = c \/ d \in woken THEN r ELSE answer[d]]
       /\ pc' = [d \in Caller |-> IF d = c \/ d \in woken THEN "idle" ELSE pc[d]]

\* A client calls uniqueservice or queryservice.
Ask(c, do, n) ==
    /\ c \in Client /\ pc[c] = "idle" /\ asks < MaxAsks /\ asks' = asks + 1
    /\ Waitfor(c, do, n)
    /\ UNCHANGED <<instance, insts, ends>>

------------------------------------------------------------------------------
\* The launcher handles a message; who waited for the service is answered.

\* LAUNCH: the service is made, and comes up by itself, or cannot be made.
Launch ==
    /\ launcher # <<>> /\ Head(launcher).do = "LAUNCH" /\ launcher' = Tail(launcher)
    /\ LET c == Head(launcher).who
       IN \/ \E i \in Inst :
                /\ state[i] = "free" /\ \A j \in Inst : state[j] = "free" => i <= j
                /\ state' = [state EXCEPT ![i] = "init"]
                /\ is' = [is EXCEPT ![i] = op[c]] /\ needs' = [needs EXCEPT ![i] = Needs[op[c]]]
                /\ instance' = [instance EXCEPT ![i] = c]
                /\ UNCHANGED <<mgr, calls, ends>>
          \/ /\ ends < MaxEnds /\ ends' = ends + 1 /\ Request(c, Failed)
             /\ UNCHANGED <<insts, instance, op>>
    /\ UNCHANGED asks

\* LAUNCHOK, ERROR and REMOVE of a service that somebody waits for.
Confirm ==
    /\ launcher # <<>> /\ Head(launcher).do # "LAUNCH" /\ launcher' = Tail(launcher)
    /\ LET m == Head(launcher)
           c == instance[m.who]
       IN IF c # None
          THEN /\ instance' = [instance EXCEPT ![m.who] = None]
               /\ Request(c, IF m.do = "LAUNCHOK" THEN m.who
                             ELSE IF m.do = "REMOVE" THEN None ELSE Failed)
          ELSE UNCHANGED <<instance, mgr, pc, answer>>
    /\ UNCHANGED <<insts, op, asks, ends>>

------------------------------------------------------------------------------
\* An instance.

Tell(m, i) == launcher' = Append(launcher, [do |-> m, who |-> i])

\* Its init asks for what it needs, one after the other, and is then done.
InitNeeds(i, n) ==
    /\ state[i] = "init" /\ pc[i] = "idle" /\ n \in needs[i]
    /\ needs' = [needs EXCEPT ![i] = @ \ {n}]
    /\ Waitfor(i, "LAUNCH", n)
    /\ UNCHANGED <<instance, state, is, asks, ends>>
InitDone(i) ==
    /\ state[i] = "init" /\ pc[i] = "idle" /\ needs[i] = {}
    /\ state' = [state EXCEPT ![i] = "running"] /\ Tell("LAUNCHOK", i)
    /\ UNCHANGED <<mgr, instance, is, needs, calls, asks, ends>>

\* It fails in its init, leaves, or is killed; the launcher is told first.
End(i, m) ==
    /\ state[i] \in {"init", "running"} /\ ends < MaxEnds /\ ends' = ends + 1
    /\ m = "ERROR" => state[i] = "init"
    /\ state' = [state EXCEPT ![i] = "dead"] /\ Tell(m, i)
    /\ UNCHANGED <<mgr, instance, is, needs, calls, asks>>

Next ==
    \/ \E c \in Client, n \in Name, do \in {"LAUNCH", "QUERY"} : Ask(c, do, n)
    \/ Launch \/ Confirm
    \/ \E i \in Inst : \/ InitDone(i) \/ \E n \in Name : InitNeeds(i, n)
                       \/ \E m \in {"ERROR", "REMOVE", "KILLED"} : End(i, m)
Step(i) == InitDone(i) \/ \E n \in Name : InitNeeds(i, n)
Spec == Init /\ [][Next]_vars
FairSpec == Spec /\ WF_vars(Launch) /\ WF_vars(Confirm) /\ \A i \in Inst : WF_vars(Step(i))

------------------------------------------------------------------------------
\* Properties.

TypeOK ==
    /\ \A n \in Name : service[n] \in Inst \cup {None, Table, Failed}
    /\ \A n \in Name : service[n] = Table <=> waitfor[n].launch # None \/ waitfor[n].co # <<>>

\* A name has at most one service that is up or coming up.
Unique ==
    \A i, j \in Inst : state[i] \in {"init", "running"} /\ state[j] \in {"init", "running"}
        /\ is[i] = is[j] => i = j

\* All who are told a service for a name are told the same.
SameService ==
    \A c, d \in Client : op[c] = op[d] /\ IsHandle(answer[c]) /\ IsHandle(answer[d])
        /\ pc[c] = "idle" /\ pc[d] = "idle" => answer[c] = answer[d]

================================================================================
