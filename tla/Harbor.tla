--------------------------------- MODULE Harbor ---------------------------------
\* Nodes of one skynet network: the master (service/cmaster.lua), and of each
\* node its slave (service/cslave.lua) and its harbor (service-src/
\* service_harbor.c).  Nodes join and connect to each other, a service registers
\* a global name, messages go to the name or to its handle, nodes crash.
EXTENDS Integers, Sequences, FiniteSets, SequencesExt

CONSTANTS
    Node,               \* 1 .. n; the handle of the service of a node is its number
    Registrar, Linker,  \* the nodes whose service registers the name, or links to others
    MaxSends, MaxCrash  \* bounds on the messages and the crashes

HarborAssumption == Node \subseteq Nat \ {0} /\ Registrar \subseteq Node

VARIABLES
    slave_node, global_name,    \* master: the nodes, the handle of the name
    toMaster, toSlave,          \* the connections of master and slaves
    st,                         \* slave: where its start is
    need, slaves, globalname,   \* ... n, the other slaves, the handle of the name
    early, todo, opening,       \* ... connect_queue: kept, its rest, who is opened
    link,                       \* ... who waits in LINK for a node to go down
    mail, text,                 \* the queues of the harbor, and of what it tells the slave
    fd, status, queue,          \* harbor: of each other node
    value, waiting,             \* ... the node of the name in its map
    wire,                       \* from harbor to harbor
    sent, got, stray, lost,      \* messages: sent, delivered, to no service, thrown away
    seen, unsent, crashes       \* connections seen to close, messages sent to them

master == <<slave_node, global_name>>
start == <<st, need, early, todo, opening>>
cslave == <<start, slaves, globalname, link>>
harbor == <<fd, status, queue, value, waiting>>
history == <<sent, got, stray, lost, seen, unsent>>
vars == <<master, toMaster, toSlave, cslave, mail, text, harbor, wire, history, crashes>>

PerNode(x) == [i \in Node |-> x]
Init ==
    /\ slave_node = PerNode("none") /\ global_name = 0
    /\ toMaster = PerNode(<<>>) /\ toSlave = PerNode(<<>>)
    /\ st = PerNode("off") /\ need = PerNode(0) /\ slaves = PerNode(PerNode("nil"))
    /\ globalname = PerNode(0) /\ early = PerNode(TRUE) /\ todo = PerNode({})
    /\ opening = PerNode(0) /\ link = PerNode({}) /\ mail = PerNode(<<>>) /\ text = PerNode(<<>>)
    /\ fd = PerNode(PerNode(FALSE)) /\ status = PerNode(PerNode("wait"))
    /\ queue = PerNode(PerNode(<<>>)) /\ value = PerNode(0) /\ waiting = PerNode(<<>>)
    /\ wire = PerNode(PerNode(<<>>))
    /\ sent = 0 /\ got = <<>> /\ stray = {} /\ lost = {} /\ seen = {} /\ unsent = {} /\ crashes = 0

Msg(do, x) == [do |-> do, x |-> x]
Tell(q, i, m) == [q EXCEPT ![i] = Append(@, m)]
Drop(q, i) == [q EXCEPT ![i] = Tail(@)]
Alive(i) == st[i] \notin {"off", "dead"}

------------------------------------------------------------------------------
\* The master.

\* What the master tells the others with m, and i alone with own.
Report(i, others, m, own) ==
    toSlave' = [j \in Node |-> IF j = i THEN toSlave[j] \o own
                               ELSE IF j \in others THEN Append(toSlave[j], m) ELSE toSlave[j]]
On == {j \in Node : slave_node[j] = "on"}

Handshake(i) ==
    /\ slave_node' = [slave_node EXCEPT ![i] = "on"]
    /\ Report(i, On, Msg("C", i), <<Msg("W", Cardinality(On))>>)
    /\ UNCHANGED global_name
Register(i, h) ==
    /\ global_name' = IF global_name = 0 THEN h ELSE global_name
    /\ Report(i, On, Msg("N", h), <<Msg("N", h)>>)
    /\ UNCHANGED slave_node
Query(i) ==
    /\ Report(i, {}, Msg("N", 0), IF global_name # 0 THEN <<Msg("N", global_name)>> ELSE <<>>)
    /\ UNCHANGED master
SlaveDown(i) ==
    /\ slave_node' = [slave_node EXCEPT ![i] = "down"]
    /\ Report(i, On \ {i}, Msg("D", i), <<>>)
    /\ UNCHANGED global_name

MasterReads(i) ==
    /\ toMaster[i] # <<>> /\ toMaster' = Drop(toMaster, i)
    /\ LET m == Head(toMaster[i])
       IN \/ m.do = "H" /\ Handshake(i)
          \/ m.do = "R" /\ Register(i, m.x)
          \/ m.do = "Q" /\ Query(i)
          \/ m.do = "end" /\ SlaveDown(i)
    /\ UNCHANGED <<cslave, mail, text, harbor, wire, history, crashes>>

------------------------------------------------------------------------------
\* The slave.

Join(i) ==
    /\ st[i] = "off" /\ st' = [st EXCEPT ![i] = "hello"]
    /\ toMaster' = Tell(toMaster, i, Msg("H", i))
    /\ UNCHANGED <<master, toSlave, need, early, todo, opening, slaves, globalname, link, mail,
                   text, harbor, wire, history, crashes>>

\* The listening socket of a node is open until its start is over.
Listens(j) == st[j] \in {"hello", "wait"}

\* connect_slave, when the connection is made.
Connected(i, j) ==
    /\ slaves' = [slaves EXCEPT ![i][j] = "yes"]
    /\ mail' = Tell(mail, i, Msg("S", j))
    /\ link' = [link EXCEPT ![i] = @ \ {j}]

\* The other slave is off, says the master or the harbor: monitor_clear.
Down(i, j) ==
    /\ slaves' = [slaves EXCEPT ![i][j] = "no"]
    /\ link' = IF slaves[i][j] = "yes" THEN [link EXCEPT ![i] = @ \ {j}] ELSE link

\* connect_queue starts to be worked off by ready.
Ready(i) == st' = [st EXCEPT ![i] = "ready"] /\ early' = [early EXCEPT ![i] = FALSE]

\* monitor_master; "W" is read by the start itself.
SlaveReads(i) ==
    /\ Alive(i) /\ toSlave[i] # <<>> /\ toSlave' = Drop(toSlave, i)
    /\ LET m == Head(toSlave[i])
           j == m.x
       IN \/ /\ m.do = "W" /\ need' = [need EXCEPT ![i] = j]
             /\ IF j > 0 THEN st' = [st EXCEPT ![i] = "wait"] /\ UNCHANGED early ELSE Ready(i)
             /\ UNCHANGED <<slaves, globalname, link, todo, opening, mail>>
          \/ /\ m.do = "C" /\ early[i] /\ todo' = [todo EXCEPT ![i] = @ \cup {j}]
             /\ UNCHANGED <<slaves, globalname, link, st, need, early, opening, mail>>
          \/ /\ m.do = "C" /\ ~early[i]
             /\ IF slaves[i][j] = "nil" /\ Listens(j)
                THEN Connected(i, j) ELSE UNCHANGED <<slaves, link, mail>>
             /\ UNCHANGED <<globalname, start>>
          \/ /\ m.do = "N" /\ globalname' = [globalname EXCEPT ![i] = j]
             /\ mail' = IF early[i] THEN mail ELSE Tell(mail, i, m)
             /\ UNCHANGED <<slaves, link, start>>
          \/ /\ m.do = "D" /\ Down(i, j)
             /\ UNCHANGED <<globalname, start, mail>>
    /\ UNCHANGED <<master, toMaster, text, harbor, wire, history, crashes>>

AllHere(s, n) == Cardinality({k \in Node : s[k] # "nil"}) >= n

\* accept_slave, when the id of the other has arrived; all that are needed wake the start.
Accept(i, j) ==
    /\ st[i] = "wait" /\ wire[j][i] # <<>> /\ Head(wire[j][i]) = Msg("id", j)
    /\ wire' = [wire EXCEPT ![j][i] = Tail(@)]
    /\ IF slaves[i][j] = "nil"
       THEN LET s == [slaves[i] EXCEPT ![j] = "yes"]
            IN /\ slaves' = [slaves EXCEPT ![i] = s]
               /\ mail' = Tell(mail, i, Msg("A", j))
               /\ link' = [link EXCEPT ![i] = @ \ {j}]
               /\ IF AllHere(s, need[i])
                  THEN Ready(i) ELSE UNCHANGED <<st, early>>
       ELSE UNCHANGED <<slaves, mail, link, st, early>>
    /\ UNCHANGED <<master, toMaster, toSlave, need, todo, opening, globalname, text, harbor, history,
                   crashes>>

\* ready: one connection after the other, then the name; services run meanwhile.
ReadyOpens(i) ==
    /\ st[i] = "ready" /\ opening[i] = 0
    /\ IF todo[i] # {}
       THEN \E j \in todo[i] :
                /\ todo' = [todo EXCEPT ![i] = @ \ {j}]
                /\ opening' = [opening EXCEPT ![i] = IF slaves[i][j] = "nil" THEN j ELSE 0]
                /\ UNCHANGED <<st, mail>>
       ELSE /\ st' = [st EXCEPT ![i] = "up"]
            /\ mail' = IF globalname[i] # 0 THEN Tell(mail, i, Msg("N", globalname[i])) ELSE mail
            /\ UNCHANGED <<todo, opening>>
    /\ UNCHANGED <<master, toMaster, toSlave, need, early, slaves, globalname, link, text, harbor,
                   wire, history, crashes>>
ReadyOpened(i) ==
    /\ st[i] = "ready" /\ opening[i] # 0 /\ opening' = [opening EXCEPT ![i] = 0]
    /\ IF Listens(opening[i]) THEN Connected(i, opening[i]) ELSE UNCHANGED <<slaves, mail, link>>
    /\ UNCHANGED <<master, toMaster, toSlave, st, need, early, todo, globalname, text, harbor, wire,
                   history, crashes>>

\* monitor_harbor: the harbor asks for the name, or has lost a connection.
SlaveTold(i) ==
    /\ Alive(i) /\ text[i] # <<>> /\ text' = Drop(text, i)
    /\ LET m == Head(text[i])
           j == m.x
       IN \/ /\ m.do = "Q" /\ globalname[i] # 0 /\ mail' = Tell(mail, i, Msg("N", globalname[i]))
             /\ UNCHANGED <<toMaster, slaves, link>>
          \/ /\ m.do = "Q" /\ globalname[i] = 0 /\ toMaster' = Tell(toMaster, i, m)
             /\ UNCHANGED <<mail, slaves, link>>
          \/ /\ m.do = "D" /\ Down(i, j)
             /\ UNCHANGED <<mail, toMaster>>
    /\ UNCHANGED <<master, toSlave, start, globalname, harbor, wire, history, crashes>>

\* REGISTER and LINK of services of the node, that run when the start is over.
Runs(i) == st[i] \in {"ready", "up"}
RegisterName(i) ==
    /\ i \in Registrar /\ Runs(i) /\ globalname[i] = 0
    /\ globalname' = [globalname EXCEPT ![i] = i]
    /\ toMaster' = Tell(toMaster, i, Msg("R", i)) /\ mail' = Tell(mail, i, Msg("N", i))
    /\ UNCHANGED <<master, toSlave, start, slaves, link, text, harbor, wire, history, crashes>>
Link(i, j) ==
    /\ i \in Linker /\ Runs(i) /\ slaves[i][j] = "yes" /\ link' = [link EXCEPT ![i] = @ \cup {j}] /\ link' # link
    /\ UNCHANGED <<master, toMaster, toSlave, start, slaves, globalname, mail, text, harbor, wire,
                   history, crashes>>
------------------------------------------------------------------------------
\* The harbor.

\* Messages m arrive at services of node i.
Deliver(i, m) ==
    /\ got' = got \o SelectSeq(m, LAMBDA x : x.x = i)
    /\ stray' = stray \cup {x \in ToSet(m) : x.x # i}
\* Messages, or an id, are written to the connection of i and j.
Write(i, j, m) ==
    IF st[j] = "dead" THEN wire' = wire /\ lost' = lost \cup ToSet(m)
    ELSE wire' = [wire EXCEPT ![i][j] = @ \o m] /\ lost' = lost

To(m, h) == [k \in DOMAIN m |-> [m[k] EXCEPT !.x = h]]

\* update_name with dispatch_name_queue.  What waits for a connection as well
\* gets no handle; a connection is used before its handshake is over.
UpdateName(i, h) ==
    /\ value' = [value EXCEPT ![i] = h] /\ waiting' = [waiting EXCEPT ![i] = <<>>]
    /\ IF h = i THEN Deliver(i, To(waiting[i], h)) /\ UNCHANGED <<queue, wire, lost>>
       ELSE IF fd[i][h] THEN Write(i, h, To(waiting[i], h)) /\ UNCHANGED <<queue, got, stray>>
       ELSE /\ queue' = [queue EXCEPT ![i][h] = @ \o waiting[i]]
            /\ UNCHANGED <<wire, lost, got, stray>>
    /\ UNCHANGED <<fd, status, seen>>

\* "S" and "A": the id is sent; the side that accepted has read the other's.
Open(i, j, accepted) ==
    IF fd[i][j] THEN UNCHANGED <<fd, status, queue, wire, lost>>
    ELSE /\ fd' = [fd EXCEPT ![i][j] = TRUE]
         /\ status' = [status EXCEPT ![i][j] = IF accepted THEN "header" ELSE "handshake"]
         /\ queue' = IF accepted THEN [queue EXCEPT ![i][j] = <<>>] ELSE queue
         /\ Write(i, j, <<Msg("id", i)>> \o (IF accepted THEN queue[i][j] ELSE <<>>))

\* remote_send_handle.
SendHandle(i, m) ==
    IF m.x = i THEN Deliver(i, <<m>>) /\ UNCHANGED <<queue, wire, lost, unsent>>
    ELSE IF ~fd[i][m.x] \/ status[i][m.x] = "handshake"
    THEN queue' = [queue EXCEPT ![i][m.x] = Append(@, m)] /\ UNCHANGED <<wire, lost, got, stray, unsent>>
    ELSE /\ Write(i, m.x, <<m>>)
         /\ unsent' = IF <<i, m.x>> \in seen THEN unsent \cup {m} ELSE unsent
         /\ UNCHANGED <<queue, got, stray>>

\* remote_send_name.
SendName(i, m) ==
    IF value[i] = 0
    THEN /\ waiting' = [waiting EXCEPT ![i] = Append(@, m)] /\ text' = Tell(text, i, Msg("Q", 0))
         /\ UNCHANGED <<queue, wire, lost, got, stray, unsent>>
    ELSE SendHandle(i, [m EXCEPT !.x = value[i]]) /\ UNCHANGED <<waiting, text>>

\* mainloop takes a message of its queue.
HarborCommand(i) ==
    /\ Alive(i) /\ mail[i] # <<>> /\ mail' = Drop(mail, i)
    /\ LET m == Head(mail[i])
       IN \/ m.do = "N" /\ UpdateName(i, m.x) /\ UNCHANGED <<text, unsent>>
          \/ /\ m.do \in {"S", "A"} /\ Open(i, m.x, m.do = "A")
             /\ UNCHANGED <<value, waiting, text, got, stray, seen, unsent>>
          \/ /\ m.do = "send" /\ m.x # 0 /\ SendHandle(i, m)
             /\ UNCHANGED <<fd, status, value, waiting, text, seen>>
          \/ /\ m.do = "send" /\ m.x = 0 /\ SendName(i, m) /\ UNCHANGED <<fd, status, value, seen>>
    /\ UNCHANGED <<master, toMaster, toSlave, cslave, sent, crashes>>

\* push_socket_data and the end of a connection, that is only reported.
HarborReads(i, j) ==
    /\ Alive(i) /\ fd[i][j] /\ wire[j][i] # <<>>
    /\ LET m == Head(wire[j][i])
           w == [wire EXCEPT ![j][i] = Tail(@)]
       IN \/ /\ m.do = "id" /\ status' = [status EXCEPT ![i][j] = "header"]
             /\ queue' = [queue EXCEPT ![i][j] = <<>>]
             /\ IF st[j] = "dead" THEN wire' = w /\ lost' = lost \cup ToSet(queue[i][j])
                ELSE wire' = [w EXCEPT ![i][j] = @ \o queue[i][j]] /\ lost' = lost
             /\ UNCHANGED <<text, got, stray, seen>>
          \/ /\ m.do = "send" /\ wire' = w /\ Deliver(i, <<m>>)
             /\ UNCHANGED <<text, status, queue, lost, seen>>
          \/ /\ m.do = "close" /\ wire' = w /\ text' = Tell(text, i, Msg("D", j))
             /\ seen' = seen \cup {<<i, j>>} /\ UNCHANGED <<status, queue, got, stray, lost>>
    /\ UNCHANGED <<master, toMaster, toSlave, cslave, mail, fd, value, waiting, sent, unsent, crashes>>

\* What arrives after accept_slave has read the id, and before the harbor has
\* the connection, is thrown away.
ThrownAway(i, j) ==
    /\ Alive(i) /\ slaves[i][j] = "yes" /\ ~fd[i][j] /\ wire[j][i] # <<>>
    /\ Head(wire[j][i]).do = "send"
    /\ wire' = [wire EXCEPT ![j][i] = Tail(@)] /\ lost' = lost \cup {Head(wire[j][i])}
    /\ UNCHANGED <<master, toMaster, toSlave, cslave, mail, text, harbor, sent, got, stray, seen, unsent,
                   crashes>>

------------------------------------------------------------------------------
\* A service sends to the name, or to its handle when the slave has told it.
Send(i, h) ==
    /\ Runs(i) /\ sent < MaxSends /\ sent' = sent + 1
    /\ h # 0 => h = globalname[i] /\ h # i
    /\ mail' = Tell(mail, i, [do |-> "send", x |-> h, n |-> sent + 1, from |-> i, name |-> h = 0])
    /\ UNCHANGED <<master, toMaster, toSlave, cslave, text, harbor, wire, got, stray, lost, seen, unsent,
                   crashes>>

\* A node is gone: its connections close.
Crash(i) ==
    /\ Alive(i) /\ crashes < MaxCrash /\ crashes' = crashes + 1
    /\ st' = [st EXCEPT ![i] = "dead"] /\ toMaster' = Tell(toMaster, i, Msg("end", i))
    /\ wire' = [j \in Node |-> [k \in Node |-> IF j = i THEN Append(wire[j][k], Msg("close", i))
                                               ELSE IF k = i THEN <<>> ELSE wire[j][k]]]
    /\ UNCHANGED <<master, toSlave, need, early, todo, opening, slaves, globalname, link, mail, text,
                   harbor, history>>

NodeStep(i) ==
    \/ SlaveReads(i) \/ ReadyOpens(i) \/ ReadyOpened(i) \/ SlaveTold(i) \/ HarborCommand(i)
    \/ \E j \in Node : Accept(i, j) \/ HarborReads(i, j)
Next ==
    \E i \in Node :
        \/ MasterReads(i) \/ Join(i) \/ RegisterName(i) \/ Crash(i) \/ NodeStep(i)
        \/ \E j \in Node : Link(i, j) \/ ThrownAway(i, j)
        \/ \E h \in Node \cup {0} : Send(i, h)
Spec == Init /\ [][Next]_vars
FairSpec == Spec /\ \A i \in Node :
    /\ WF_vars(MasterReads(i)) /\ WF_vars(SlaveReads(i)) /\ WF_vars(ReadyOpens(i))
    /\ WF_vars(ReadyOpened(i)) /\ WF_vars(SlaveTold(i)) /\ WF_vars(HarborCommand(i))
    /\ \A j \in Node : WF_vars(Accept(i, j)) /\ WF_vars(HarborReads(i, j))

------------------------------------------------------------------------------
\* Properties.

Delivered == {got[k].n : k \in DOMAIN got}

TypeOK ==
    /\ \A i \in Node : value[i] \in Registrar \cup {0} /\ opening[i] \in Node \cup {0}
    /\ \A i, j \in Node : fd[i][j] => i # j /\ status[i][j] # "wait"
    /\ \A n \in Delivered : n <= sent

\* Messages one node sends to the name arrive in order and once, and at the name.
NameInOrder ==
    \A k, l \in DOMAIN got : k < l /\ got[k].from = got[l].from /\ got[k].name /\ got[l].name
                              => got[k].n < got[l].n
ToTheName == stray = {}

\* Nothing goes over a connection before the id of the other side has come.
AfterHandshake ==
    \A i, j \in Node : \A k \in DOMAIN wire[i][j] :
        wire[i][j][k].do = "send" => status[i][j] # "handshake"

\* What is sent to a node whose connection is known to be closed is answered.
DeadAnswered == unsent = {}

\* When all has been told, who knows the name has the handle that the master has.
Quiet == \A i \in Node : toMaster[i] = <<>> /\ toSlave[i] = <<>>
NamesAgree == Quiet => \A i \in Node : st[i] = "up" => globalname[i] \in {0, global_name}

\* A node that has said hello starts, if none fails.
NodesStart == \A i \in Node : st[i] = "hello" ~> st[i] = "up" \/ crashes > 0

\* A message to a name that is known is delivered, or was thrown away.
NameReached ==
    \A n \in 1..MaxSends : n <= sent /\ global_name # 0
        ~> n \in Delivered \/ (\E m \in lost : m.do = "send" /\ m.n = n) \/ crashes > 0

\* Who waits for a node to go down is told.
LinkReturns == \A i, j \in Node : st[j] = "dead" ~> j \notin link[i] \/ st[i] = "dead"
================================================================================
