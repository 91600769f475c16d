------------------------------ MODULE ClusterNode ------------------------------
\* service/clusterd.lua for one node name: the sender that requests find or make,
\* the configuration that is reloaded under them, and service/clustersender.lua
\* as far as its address goes.  Coroutines run one at a time; those that are
\* woken run next, in order, and then those that are forked (lualib/skynet.lua).
EXTENDS Integers, Sequences, FiniteSets, SequencesExt

CONSTANTS
    Request,        \* coroutines of command.sender
    Fork,           \* coroutines that a reload forks
    Address,        \* addresses the name may have
    MaxReloads,     \* bound on the reloads
    Absent, Down, None  \* no address, the address `false`, nobody

ClusterAssumption ==
    /\ Address \cap {Absent, Down} = {} /\ Absent # Down
    /\ Request \cap Fork = {} /\ None \notin Request \cup Fork /\ MaxReloads \in Nat

VARIABLES
    node_address, nowaiting, \* the configuration
    node_sender, node_channel, \* a sender has been made, and is cached
    at,             \* the address the sender goes to
    connecting,     \* connecting[key] is set,
    waiters, namequery, \* its coroutines, and the one that waits for the address
    pc, address,    \* where a coroutine is; its local `address`
    wake, forked,   \* coroutines that run next
    reloads

config == <<node_address, nowaiting>>
sender == <<node_sender, node_channel, at>>
opening == <<connecting, waiters, namequery>>
vars == <<config, sender, opening, pc, address, wake, forked, reloads>>

Thread == Request \cup Fork

Init ==
    /\ node_address \in {Absent, Down} \cup Address /\ nowaiting \in BOOLEAN
    /\ node_sender = FALSE /\ node_channel = FALSE /\ at = Absent
    /\ connecting = FALSE /\ waiters = <<>> /\ namequery = None
    /\ pc = [t \in Thread |-> "idle"] /\ address = [t \in Thread |-> Absent]
    /\ wake = <<>> /\ forked = <<>> /\ reloads = 0

Quiet == wake = <<>> /\ forked = <<>>
Goto(t, p) == pc' = [pc EXCEPT ![t] = p]

------------------------------------------------------------------------------
\* command.sender: open_channel, unless a sender is cached.
Ask(t) ==
    /\ Quiet /\ t \in Request /\ pc[t] = "idle"
    /\ ~node_channel /\ Goto(t, "open") /\ wake' = <<t>>
    /\ UNCHANGED <<config, sender, opening, address, forked, reloads>>

RunFork ==
    /\ wake = <<>> /\ forked # <<>>
    /\ wake' = <<Head(forked)>> /\ forked' = Tail(forked)
    /\ UNCHANGED <<config, sender, opening, pc, address, reloads>>

Runs(t, p) == wake # <<>> /\ Head(wake) = t /\ pc[t] = p
Waits == wake' = Tail(wake)

\* open_channel: one coroutine opens, which may wait for the address, and the
\* others wait for it.
Open(t) ==
    /\ Runs(t, "open")
    /\ IF connecting
       THEN /\ waiters' = Append(waiters, t) /\ Goto(t, "waiting") /\ Waits
            /\ UNCHANGED <<connecting, namequery, address>>
       ELSE /\ connecting' = TRUE /\ waiters' = <<>>
            /\ address' = [address EXCEPT ![t] = node_address]
            /\ IF node_address = Absent /\ ~nowaiting
               THEN namequery' = t /\ Goto(t, "name") /\ Waits
               ELSE Goto(t, "reach") /\ UNCHANGED <<namequery, wake>>
    /\ UNCHANGED <<config, sender, forked, reloads>>
Named(t) ==
    /\ Runs(t, "name") /\ Goto(t, "reach")
    /\ address' = [address EXCEPT ![t] = node_address]
    /\ UNCHANGED <<config, sender, opening, wake, forked, reloads>>

\* The sender is made, or told to change its address, or turned off.
Reach(t) ==
    /\ Runs(t, "reach")
    /\ IF address[t] \in Address
       THEN Goto(t, IF node_sender THEN "changenode" ELSE "newservice") /\ Waits
       ELSE IF address[t] = Down /\ node_sender THEN Goto(t, "changenode") /\ Waits
       ELSE Goto(t, IF address[t] = Down THEN "opened" ELSE "failed") /\ UNCHANGED wake
    /\ UNCHANGED <<config, sender, opening, address, forked, reloads>>
NewService(t) ==
    /\ Quiet /\ pc[t] = "newservice"
    /\ node_sender' = TRUE
    /\ at' = IF node_sender THEN at ELSE address[t]
    /\ Goto(t, "changenode")
    /\ UNCHANGED <<config, node_channel, opening, address, wake, forked, reloads>>

\* changenode in the sender, whose connect may fail, and its answer.
ChangeNode(t) ==
    /\ Quiet /\ pc[t] = "changenode" /\ node_sender
    /\ at' = address[t]
    /\ \E ok \in (IF address[t] = Down THEN {TRUE} ELSE BOOLEAN) :
        /\ Goto(t, IF ok THEN "opened" ELSE "failed")
        /\ node_channel' = (node_channel \/ (ok /\ address[t] # Down))
    /\ wake' = <<t>>
    /\ UNCHANGED <<config, node_sender, connecting, waiters, namequery, address,
                   forked, reloads>>

\* Mutant: the address is not looked at again.
FinishOnce(t) ==
    /\ pc[t] \in {"opened", "failed"} /\ Runs(t, pc[t])
    /\ connecting' = FALSE /\ waiters' = <<>> /\ namequery' = None
    /\ wake' = Tail(wake) \o waiters /\ Goto(t, "idle")
    /\ address' = [address EXCEPT ![t] = Absent]
    /\ UNCHANGED <<config, sender, forked, reloads>>

\* Mutant: those who wait are not woken when it has failed.
FinishQuiet(t) ==
    /\ pc[t] \in {"opened", "failed"} /\ Runs(t, pc[t])
    /\ connecting' = FALSE /\ waiters' = <<>> /\ namequery' = None
    /\ LET rest == Tail(wake) \o (IF pc[t] = "failed" THEN <<>> ELSE waiters)
       IN IF node_address # address[t]
          THEN Goto(t, "open") /\ wake' = <<t>> \o rest
          ELSE Goto(t, "idle") /\ wake' = rest
    /\ address' = [address EXCEPT ![t] = Absent]
    /\ UNCHANGED <<config, sender, forked, reloads>>

\* The others are woken; an address that has changed meanwhile is opened next.
Finish(t) ==
    /\ pc[t] \in {"opened", "failed"} /\ Runs(t, pc[t])
    /\ connecting' = FALSE /\ waiters' = <<>> /\ namequery' = None
    /\ LET rest == Tail(wake) \o waiters
       IN IF node_address # address[t]
          THEN Goto(t, "open") /\ wake' = <<t>> \o rest
          ELSE Goto(t, "idle") /\ wake' = rest
    /\ address' = [address EXCEPT ![t] = Absent]
    /\ UNCHANGED <<config, sender, forked, reloads>>

\* A coroutine that waited goes on, or waits again.
Woken(t) ==
    /\ Runs(t, "waiting") /\ Waits
    /\ IF connecting THEN waiters' = Append(waiters, t) /\ UNCHANGED <<pc>>
       ELSE Goto(t, "idle") /\ UNCHANGED waiters
    /\ UNCHANGED <<config, sender, connecting, namequery, address, forked, reloads>>

------------------------------------------------------------------------------
\* loadconfig.
Awaited == connecting /\ namequery # None /\ pc[namequery] = "name"
Resume == wake' = IF Awaited THEN <<namequery>> ELSE <<>>

\* A new address: the cached sender is forgotten and opened again.
Reload(a) ==
    /\ Quiet /\ reloads < MaxReloads /\ reloads' = reloads + 1
    /\ node_address' = a
    /\ IF a # node_address /\ node_sender
       THEN \E t \in Fork : /\ pc[t] = "idle"
                            /\ node_channel' = FALSE
                            /\ forked' = <<t>> /\ Goto(t, "open")
       ELSE UNCHANGED <<node_channel, forked, pc>>
    /\ IF nowaiting THEN UNCHANGED wake ELSE Resume
    /\ UNCHANGED <<nowaiting, node_sender, at, opening, address>>
NoWaiting(b) ==
    /\ Quiet /\ reloads < MaxReloads /\ reloads' = reloads + 1
    /\ nowaiting' = b
    /\ IF b THEN Resume ELSE UNCHANGED wake
    /\ UNCHANGED <<node_address, sender, opening, pc, address, forked>>

------------------------------------------------------------------------------
Step(t) ==
    \/ Open(t) \/ Named(t) \/ Reach(t) \/ NewService(t) \/ ChangeNode(t) \/ Finish(t) \/ Woken(t)
Next ==
    \/ \E t \in Thread : Step(t) \/ Ask(t)
    \/ RunFork
    \/ \E a \in {Down} \cup Address : Reload(a)
    \/ \E b \in BOOLEAN : NoWaiting(b)

Fairness == WF_vars(RunFork) /\ \A t \in Thread : WF_vars(Step(t))
Spec == Init /\ [][Next]_vars
FairSpec == Spec /\ Fairness

------------------------------------------------------------------------------
\* Properties.

Settled == Quiet /\ ~connecting

Opens(t) == pc[t] \in {"name", "reach", "newservice", "changenode", "opened", "failed"}

\* One coroutine at a time opens, and the others are in its list.
TypeOK ==
    /\ node_channel => node_sender
    /\ connecting => \E t \in Thread : {u \in Thread : Opens(u)} = {t}
    /\ \A t \in Thread : pc[t] = "waiting" =>
          (connecting /\ Contains(waiters, t)) \/ Contains(wake, t)

\* Once everything has settled, the cached sender goes to the configured address.
SenderCurrent == Settled /\ node_channel => at = node_address

\* A request that finds no address configured waits for it; every other ends.
Answered ==
    \A t \in Request :
        pc[t] # "idle" ~> pc[t] = "idle" \/ (node_address = Absent /\ ~nowaiting)
==============================================================================
