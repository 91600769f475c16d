-------------------------------- MODULE Serverd --------------------------------
\* The front of the web server (service/meiru/serverd.lua): connections are
\* given to agents by address, counted, limited and blacklisted, and the agents
\* (service/meiru/agentd.lua) tell when one has been handled.
EXTENDS Integers, Sequences

CONSTANTS
    IP, Slaves,             \* addresses, and the number of agents
    kMCountPerIpPerSecond, kMCountPerIpPerMinute, MaxDelta,
    SecondsPerMinute,
    Kicks,                  \* are kick and the blacklist commands used?
    MaxTime, MaxVisits,     \* bounds on the clock and on the connections
    None

Counts == [visit : Nat, finish : Nat, mvisit : Nat, mfinish : Nat, second : Nat, minute : Nat,
           second_anchor : Nat, minute_anchor : Nat]

ServerdAssumption ==
    /\ Slaves \in Nat \ {0} /\ SecondsPerMinute \in Nat \ {0}
    /\ kMCountPerIpPerSecond \in Nat /\ kMCountPerIpPerMinute \in Nat /\ MaxDelta \in Int
    /\ None \notin Counts /\ None \notin 1 .. Slaves

VARIABLES
    now, visits,
    _clientsmap,            \* the client of an address
    _ip2slave, _balanceIdx, \* the agent of an address, and whose turn it is
    _blacklists,
    open, handled,          \* connections at the agents, and finish on its way
    entered, refused        \* ghosts: let in in this second, and sent away

slaves == <<_ip2slave, _balanceIdx>>
agents == <<open, handled>>
vars == <<now, visits, _clientsmap, slaves, _blacklists, agents, entered, refused>>

Zero == [ip \in IP |-> 0]
Init ==
    /\ now = 0 /\ visits = 0
    /\ _clientsmap = [ip \in IP |-> None] /\ _blacklists = {}
    /\ _ip2slave = [ip \in IP |-> None] /\ _balanceIdx = 1
    /\ open = [ip \in IP |-> <<>>] /\ handled = Zero /\ entered = Zero /\ refused = Zero

------------------------------------------------------------------------------
\* Client:ctor and get_slave.
New == [visit |-> 0, finish |-> 0, mvisit |-> 0, mfinish |-> 0, second |-> 0, minute |-> 0,
        second_anchor |-> now, minute_anchor |-> now \div SecondsPerMinute]
Client(ip) == IF _clientsmap[ip] = None THEN New ELSE _clientsmap[ip]

GetSlave(ip) ==
    IF _ip2slave[ip] = None
    THEN /\ _ip2slave' = [_ip2slave EXCEPT ![ip] = _balanceIdx]
         /\ _balanceIdx' = (_balanceIdx % Slaves) + 1
    ELSE UNCHANGED slaves

\* Client:is_invalid, in three parts: the client after each, and whether it
\* passes.  The anchors stay where they are.
CheckSecond(c) ==
    IF c.second_anchor # now THEN <<TRUE, [c EXCEPT !.second = 0]>>
    ELSE IF c.second > kMCountPerIpPerSecond THEN <<FALSE, c>>
    ELSE <<TRUE, [c EXCEPT !.second = @ + 1]>>
CheckMinute(c) ==
    IF c.minute_anchor # now \div SecondsPerMinute
    THEN <<TRUE, [c EXCEPT !.minute = 0, !.mvisit = 0, !.mfinish = 0]>>
    ELSE IF c.minute > kMCountPerIpPerMinute THEN <<FALSE, c>>
    ELSE <<TRUE, [c EXCEPT !.minute = @ + 1]>>
CheckDelta(c) == <<c.mvisit - c.mfinish <= MaxDelta, c>>
IsInvalid(c) ==
    LET second == CheckSecond(c)
        minute == CheckMinute(second[2])
    IN IF ~second[1] THEN second ELSE IF ~minute[1] THEN minute ELSE CheckDelta(minute[2])

\* client_enter: refused connections are counted as visits too.
Enter(ip) ==
    /\ visits < MaxVisits /\ visits' = visits + 1
    /\ GetSlave(ip)
    /\ LET check == IF ip \in _blacklists THEN <<FALSE, Client(ip)>> ELSE IsInvalid(Client(ip))
       IN /\ _clientsmap' = [_clientsmap EXCEPT ![ip] =
                [check[2] EXCEPT !.visit = @ + 1, !.mvisit = @ + 1]]
          /\ IF check[1]
             THEN /\ open' = [open EXCEPT ![ip] = Append(@, _ip2slave'[ip])]
                  /\ entered' = [entered EXCEPT ![ip] = @ + 1] /\ UNCHANGED <<_blacklists, refused>>
             ELSE /\ _blacklists' = _blacklists \cup {ip}
                  /\ refused' = [refused EXCEPT ![ip] = @ + 1] /\ UNCHANGED <<open, entered>>
    /\ UNCHANGED <<now, handled>>

\* The agent has handled a connection; its finish arrives at the client that
\* the address has then.
Handled(ip) ==
    /\ open[ip] # <<>> /\ open' = [open EXCEPT ![ip] = Tail(@)]
    /\ handled' = [handled EXCEPT ![ip] = @ + 1]
    /\ UNCHANGED <<now, visits, _clientsmap, slaves, _blacklists, entered, refused>>
\* Mutant: the finish of a blacklisted address is not counted.
FinishAllowed(ip) ==
    /\ handled[ip] > 0 /\ handled' = [handled EXCEPT ![ip] = @ - 1]
    /\ GetSlave(ip)
    /\ _clientsmap' = [_clientsmap EXCEPT ![ip] =
           IF ip \in _blacklists THEN @ ELSE [Client(ip) EXCEPT !.finish = @ + 1, !.mfinish = @ + 1]]
    /\ UNCHANGED <<now, visits, _blacklists, open, entered, refused>>

Finish(ip) ==
    /\ handled[ip] > 0 /\ handled' = [handled EXCEPT ![ip] = @ - 1]
    /\ GetSlave(ip)
    /\ _clientsmap' = [_clientsmap EXCEPT ![ip] =
           [Client(ip) EXCEPT !.finish = @ + 1, !.mfinish = @ + 1]]
    /\ UNCHANGED <<now, visits, _blacklists, open, entered, refused>>

\* command.kick, add_blacklist and remove_blacklist.
Kick(ip) ==
    /\ Kicks /\ _clientsmap[ip] # None
    /\ _clientsmap' = [_clientsmap EXCEPT ![ip] = None] /\ _blacklists' = _blacklists \cup {ip}
    /\ entered' = [entered EXCEPT ![ip] = 0]
    /\ UNCHANGED <<now, visits, slaves, agents, refused>>
AddBlacklist(ip) ==
    /\ Kicks /\ _blacklists' = _blacklists \cup {ip}
    /\ UNCHANGED <<now, visits, _clientsmap, slaves, agents, entered, refused>>
RemoveBlacklist(ip) ==
    /\ Kicks /\ _blacklists' = _blacklists \ {ip}
    /\ UNCHANGED <<now, visits, _clientsmap, slaves, agents, entered, refused>>

Tick ==
    /\ now < MaxTime /\ now' = now + 1 /\ entered' = Zero
    /\ UNCHANGED <<visits, _clientsmap, slaves, _blacklists, agents, refused>>

Next ==
    \/ Tick
    \/ \E ip \in IP : \/ Enter(ip) \/ Handled(ip) \/ Finish(ip)
                      \/ Kick(ip) \/ AddBlacklist(ip) \/ RemoveBlacklist(ip)
Spec == Init /\ [][Next]_vars

------------------------------------------------------------------------------
\* Properties.

\* All connections of an address are at one agent, whatever is kicked meanwhile.
OneSlave == \A ip \in IP : \A i \in DOMAIN open[ip] : open[ip][i] = _ip2slave[ip]

\* In the first second of a client one connection too many is let in, no more.
FirstSecond ==
    \A ip \in IP : _clientsmap[ip] # None /\ _clientsmap[ip].second_anchor = now =>
        entered[ip] <= kMCountPerIpPerSecond + 1

\* What has been counted as visited and not as finished is at an agent, on its
\* way back, or has been refused.
Accounts ==
    \A ip \in IP : _clientsmap[ip] # None =>
        _clientsmap[ip].visit - _clientsmap[ip].finish = Len(open[ip]) + handled[ip] + refused[ip]

\* An address is let in a limited number of times a second.
PerSecond == \A ip \in IP : entered[ip] <= kMCountPerIpPerSecond + 1
================================================================================
