------------------------------- MODULE Multicast -------------------------------
\* service/multicastd.lua on the process that owns a channel and on the others,
\* with lualib/skynet/multicast.lua in the clients and the reference counts of
\* lua-multicast.c.  Messages between two services arrive in order.
EXTENDS Integers, Sequences, FiniteSets, SequencesExt, FiniteSetsExt

CONSTANTS
    Node, Owner,    \* processes, and the one whose multicastd made the channel
    Client, Home,   \* services that use it, and the process of each
    MaxOps, MaxPub, \* bounds on subscriptions, and so on, and on messages published
    None

MulticastAssumption ==
    /\ Owner \in Node /\ Home \in [Client -> Node]
    /\ MaxOps \in Nat /\ MaxPub \in Nat

VARIABLES
    channel,        \* channel[c] of a multicastd: None, or its subscribers there
    channel_n,      \* and how many it has counted
    channel_remote, \* the processes that have subscribed at the owner
    subscribe,      \* __subscribe of a client: "no", "asked", "yes"
    inbox,          \* messages from one service to another
    ref,            \* references of the package of a message in a process
    due,            \* who is to get a message and has not got it yet
    deleted,        \* the channel has been deleted by a client
    ops, pubs       \* operations and messages so far

daemon == <<channel, channel_n, channel_remote>>
vars == <<daemon, subscribe, inbox, ref, due, deleted, ops, pubs>>

Service == Node \cup Client
Message == 1 .. MaxPub

Init ==
    /\ channel = [n \in Node |-> IF n = Owner THEN {} ELSE None]
    /\ channel_n = [n \in Node |-> 0] /\ channel_remote = {}
    /\ subscribe = [c \in Client |-> "no"]
    /\ inbox = [l \in Service \X Service |-> <<>>]
    /\ ref = [p \in Message \X Node |-> 0] /\ due = [k \in Message |-> {}]
    /\ deleted = FALSE /\ ops = 0 /\ pubs = 0

------------------------------------------------------------------------------
\* Messages: received from one service, sent to some.

Arrives(a, b, m) == inbox[<<a, b>>] # <<>> /\ Head(inbox[<<a, b>>]) = m
After(a, b, to, m) ==
    inbox' = [l \in DOMAIN inbox |->
        LET rest == IF l = <<a, b>> THEN Tail(inbox[l]) ELSE inbox[l]
        IN IF l[1] = b /\ l[2] \in to THEN Append(rest, m) ELSE rest]
Send(a, b, m) == inbox' = [inbox EXCEPT ![<<a, b>>] = Append(@, m)]

------------------------------------------------------------------------------
\* Clients.

Subscribe(c) ==
    /\ subscribe[c] = "no" /\ ops < MaxOps /\ ops' = ops + 1
    /\ subscribe' = [subscribe EXCEPT ![c] = "asked"]
    /\ Send(c, Home[c], <<"SUB", c>>)
    /\ UNCHANGED <<daemon, ref, due, deleted, pubs>>
Subscribed(c) ==
    /\ Arrives(Home[c], c, <<"subscribed", c>>) /\ After(Home[c], c, {}, <<>>)
    /\ subscribe' = [subscribe EXCEPT ![c] = "yes"]
    /\ UNCHANGED <<daemon, ref, due, deleted, ops, pubs>>
Unsubscribe(c) ==
    /\ subscribe[c] = "yes" /\ ops < MaxOps /\ ops' = ops + 1
    /\ subscribe' = [subscribe EXCEPT ![c] = "no"]
    /\ due' = [k \in Message |-> due[k] \ {c}]
    /\ Send(c, Home[c], <<"USUB", c>>)
    /\ UNCHANGED <<daemon, ref, deleted, pubs>>
Publish(c) ==
    /\ pubs < MaxPub /\ pubs' = pubs + 1
    /\ due' = [due EXCEPT ![pubs'] = {d \in Client : subscribe[d] = "yes" /\ ~deleted}]
    /\ Send(c, Home[c], <<"PUB", pubs'>>)
    /\ UNCHANGED <<daemon, subscribe, ref, deleted, ops>>
Delete(c) ==
    /\ ~deleted /\ deleted' = TRUE /\ ops < MaxOps /\ ops' = ops + 1
    /\ due' = [k \in Message |-> {}]
    /\ Send(c, Home[c], <<"DEL", c>>)
    /\ UNCHANGED <<daemon, subscribe, ref, pubs>>

\* dispatch_subscribe: subscribed or not, the package is closed.
Receive(c, k) ==
    LET n == Home[c]
    IN /\ Arrives(n, c, <<"message", k>>) /\ After(n, c, {}, <<>>)
       /\ ref' = [ref EXCEPT ![<<k, n>>] = @ - 1]
       /\ due' = [due EXCEPT ![k] = @ \ {c}]
       /\ UNCHANGED <<daemon, subscribe, deleted, ops, pubs>>

------------------------------------------------------------------------------
\* multicastd on process n.

DaemonStep == UNCHANGED <<subscribe, due, deleted, ops, pubs>>
Joined(n, c) ==
    /\ channel' = [channel EXCEPT ![n] = IF @ = None THEN {c} ELSE @ \cup {c}]
    /\ channel_n' = [channel_n EXCEPT ![n] = IF channel[n] = None THEN 1
                                             ELSE IF c \in channel[n] THEN @ ELSE @ + 1]
Gone(n) ==
    /\ channel' = [channel EXCEPT ![n] = None]
    /\ channel_n' = [channel_n EXCEPT ![n] = 0]

\* Mutant: the client has its answer before the owner knows.
SubAtOnce(n, c) ==
    /\ Arrives(c, n, <<"SUB", c>>)
    /\ IF n # Owner /\ channel[n] = None
       THEN inbox' = [inbox EXCEPT ![<<c, n>>] = Tail(@), ![<<n, Owner>>] = Append(@, <<"SUBR", c>>),
                                   ![<<n, c>>] = Append(@, <<"subscribed", c>>)]
       ELSE After(c, n, {c}, <<"subscribed", c>>)
    /\ IF channel[n] = None /\ n = Owner THEN UNCHANGED <<channel, channel_n>> ELSE Joined(n, c)
    /\ DaemonStep /\ UNCHANGED <<channel_remote, ref>>

\* SUB: at a process that does not know the channel, the owner is called.
Sub(n, c) ==
    /\ Arrives(c, n, <<"SUB", c>>)
    /\ IF n # Owner /\ channel[n] = None
       THEN /\ inbox' = [inbox EXCEPT ![<<c, n>>] = Tail(@), ![<<n, Owner>>] = Append(@, <<"SUBR", c>>)]
            /\ UNCHANGED <<channel, channel_n>>
       ELSE /\ After(c, n, {c}, <<"subscribed", c>>)
            /\ IF channel[n] = None THEN UNCHANGED <<channel, channel_n>> ELSE Joined(n, c)
    /\ DaemonStep /\ UNCHANGED <<channel_remote, ref>>

\* SUB goes on with the owner's answer, and looks again.
SubGoesOn(n, c) ==
    \E known \in BOOLEAN :
        /\ Arrives(Owner, n, <<"SUBR", c, known>>)
        /\ inbox' = [inbox EXCEPT ![<<Owner, n>>] = Tail(@), ![<<n, c>>] = Append(@, <<"subscribed", c>>)]
        /\ IF known THEN Joined(n, c) ELSE UNCHANGED <<channel, channel_n>>
        /\ DaemonStep /\ UNCHANGED <<channel_remote, ref>>

SubR(n, c) ==
    /\ Arrives(n, Owner, <<"SUBR", c>>)
    /\ After(n, Owner, {n}, <<"SUBR", c, channel[Owner] # None>>)
    /\ channel_remote' = IF channel[Owner] = None THEN channel_remote ELSE channel_remote \cup {n}
    /\ DaemonStep /\ UNCHANGED <<channel, channel_n, ref>>

\* USUB: with its last subscriber a process leaves the channel.
USub(n, c) ==
    /\ Arrives(c, n, <<"USUB", c>>)
    /\ IF channel[n] = None \/ c \notin channel[n]
       THEN After(c, n, {}, <<>>) /\ UNCHANGED <<channel, channel_n>>
       ELSE IF n # Owner /\ channel_n[n] = 1
       THEN /\ inbox' = [inbox EXCEPT ![<<c, n>>] = Tail(@), ![<<n, Owner>>] = Append(@, <<"USUBR", n>>)]
            /\ Gone(n)
       ELSE /\ After(c, n, {}, <<>>)
            /\ channel' = [channel EXCEPT ![n] = @ \ {c}]
            /\ channel_n' = [channel_n EXCEPT ![n] = @ - 1]
    /\ DaemonStep /\ UNCHANGED <<channel_remote, ref>>
USubR(n) ==
    /\ Arrives(n, Owner, <<"USUBR", n>>) /\ After(n, Owner, {}, <<>>)
    /\ channel_remote' = channel_remote \ {n}
    /\ DaemonStep /\ UNCHANGED <<channel, channel_n, ref>>

\* DEL goes to the owner, which tells the processes that have subscribed.
Del(a, n, c) ==
    /\ Arrives(a, n, <<"DEL", c>>)
    /\ IF n # Owner
       THEN /\ After(a, n, {Owner}, <<"DEL", c>>) /\ UNCHANGED daemon
       ELSE /\ After(a, n, channel_remote, <<"DELR", c>>) /\ Gone(n) /\ channel_remote' = {}
    /\ DaemonStep /\ UNCHANGED ref
DelR(n, c) ==
    /\ Arrives(Owner, n, <<"DELR", c>>) /\ After(Owner, n, {}, <<>>)
    /\ Gone(n)
    /\ DaemonStep /\ UNCHANGED <<channel_remote, ref>>

\* PUB of a remote client goes to the owner, who publishes: to the processes that
\* have subscribed and, in one package with as many references, to its clients.
PubRemote(n, c, k) ==
    /\ n # Owner /\ Arrives(c, n, <<"PUB", k>>)
    /\ inbox' = [inbox EXCEPT ![<<c, n>>] = Tail(@), ![<<n, Owner>>] = Append(@, <<"message", k>>)]
    /\ DaemonStep /\ UNCHANGED <<daemon, ref>>
PublishHere(a, n, k) ==
    LET group == IF channel[n] = None THEN {} ELSE channel[n]
        remote == IF n = Owner THEN channel_remote ELSE {}
    IN /\ \/ n = Owner /\ a \in Client /\ Arrives(a, n, <<"PUB", k>>)
          \/ a \in Node /\ Arrives(a, n, <<"message", k>>)
       /\ After(a, n, group \cup remote, <<"message", k>>)
       /\ ref' = IF group = {} THEN ref ELSE [ref EXCEPT ![<<k, n>>] = channel_n[n]]
       /\ DaemonStep /\ UNCHANGED daemon

------------------------------------------------------------------------------
ClientNext(c) ==
    \/ Subscribe(c) \/ Subscribed(c) \/ Unsubscribe(c) \/ Publish(c) \/ Delete(c)
    \/ \E k \in Message : Receive(c, k)
DaemonNext(n) ==
    \/ \E c \in Client : \/ Sub(n, c) \/ SubGoesOn(n, c) \/ SubR(n, c) \/ USub(n, c) \/ DelR(n, c)
                         \/ \E a \in Service : Del(a, n, c)
                         \/ \E k \in Message : PubRemote(n, c, k)
    \/ USubR(n) \/ \E a \in Service, k \in Message : PublishHere(a, n, k)
Next == (\E c \in Client : ClientNext(c)) \/ (\E n \in Node : DaemonNext(n))
Spec == Init /\ [][Next]_vars

------------------------------------------------------------------------------
\* Properties.

Quiet == \A l \in DOMAIN inbox : inbox[l] = <<>>
Carried(k, n) ==
    {c \in Client : Home[c] = n /\ \E i \in DOMAIN inbox[<<n, c>>] : inbox[<<n, c>>][i] = <<"message", k>>}

TypeOK ==
    /\ \A n \in Node : channel[n] = None \/ \A c \in channel[n] : Home[c] = n
    /\ channel_remote \subseteq Node \ {Owner}
    /\ \A p \in DOMAIN ref : ref[p] \in 0 .. Cardinality(Client)

\* A package has as many references as there are messages with it: it is freed
\* with the last one, and not before (mc_closelocal).
RefExact == \A k \in Message, n \in Node : ref[<<k, n>>] = Cardinality(Carried(k, n))

\* Whoever is subscribed when a message is published, and stays so, gets it.
Delivered == Quiet => \A k \in Message : due[k] = {}

\* When nothing is under way the owner knows the processes with subscribers, and
\* a deleted channel is forgotten everywhere.
NodesKnown ==
    Quiet => /\ \A n \in Node \ {Owner} : channel[n] # None <=> n \in channel_remote
             /\ deleted => \A n \in Node : channel[n] = None
==============================================================================
