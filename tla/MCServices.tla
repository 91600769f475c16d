------------------------------ MODULE MCServices ------------------------------
\* The services and data that nodes and services share, for TLC: data centre,
\* multicast, cluster, harbor, stm and shared data.  They share no state: the
\* first state picks one, and in that behaviour only its steps are taken.
EXTENDS Integers, Sequences, FiniteSets, TLC

CONSTANTS
    Parts,              \* the components of a run
    None, Nil, Table,
    Waiter, Scalar, MaxUpdates,
    n1, n2, n3, c1, c2, c3,
    Request, Fork, Address, MaxReloads, Absent, NoAddress,
    Asker, Name, Registered, MaxRegister, MaxAsks,
    Registrar, MaxSends,
    Reader, First, Addr, MaxVersion,
    Sharer, MaxObj, MaxBox, MaxCall, Deletes

VARIABLE part

VARIABLES database, wait_queue, queued, answer, updates
data_vars == <<database, wait_queue, queued, answer, updates>>

VARIABLES channel, channel_n, channel_remote, subscribe, inbox, refs, due, deleted, ops, pubs
multi_vars == <<channel, channel_n, channel_remote, subscribe, inbox, refs, due, deleted, ops, pubs>>

VARIABLES node_address, nowaiting, node_sender, node_channel, at, connecting, waiters, namequery,
          node_pc, address, wake, forked, reloads
node_vars == <<node_address, nowaiting, node_sender, node_channel, at, connecting, waiters,
               namequery, node_pc, address, wake, forked, reloads>>

VARIABLES register_name, name_cache, table, inquery, self, name, name_pc, found, up, down, absent,
          registers, asks
name_vars == <<register_name, name_cache, table, inquery, self, name, name_pc, found, up, down,
               absent, registers, asks>>

VARIABLES slave_node, global_name, toMaster, toSlave, st, need, slaves, globalname, early, todo,
          opening, link, mail, text, fd, status, queue, value, waiting, wire, sent, got, stray,
          lost, seen, unsent, crashes
harbor_vars == <<slave_node, global_name, toMaster, toSlave, st, need, slaves, globalname, early,
                 todo, opening, link, mail, text, fd, status, queue, value, waiting, wire, sent,
                 got, stray, lost, seen, unsent, crashes>>

VARIABLES reference, copy, freed, inside, write, creference, version, last_version, stm_pc, ret,
          lastcopy, stm_box, heard, missed
stm_vars == <<reference, copy, freed, inside, write, creference, version, last_version, stm_pc,
              ret, lastcopy, stm_box, heard, missed>>

VARIABLES pool, watch, made, objmap, ref, dirty, toServer, toClient, box, cache, calls, garbage,
          failed
share_vars == <<pool, watch, made, objmap, ref, dirty, toServer, toClient, box, cache, calls,
                garbage, failed>>

services == <<part, data_vars, multi_vars, node_vars, name_vars, harbor_vars, stm_vars, share_vars>>

------------------------------------------------------------------------------
\* A tree of two keys and one below, with deletions, and with every update there is.
Paths == {<<"a">>, <<"a", "b">>, <<"a", "c">>, <<"a", "b", "c">>}
Data == INSTANCE DataCentre WITH Client <- Waiter, Path <- Paths, Updates <- {"delete"}
Branch == INSTANCE DataCentre WITH
    Client <- Waiter, Path <- Paths, Updates <- {"delete", "delete nothing", "table"}

\* A subscriber at the owner and one in each other process; two at the owner.
Apart == INSTANCE Multicast WITH
    Node <- {n1, n2, n3}, Owner <- n1, Client <- {c1, c2, c3},
    Home <- (c1 :> n1) @@ (c2 :> n2) @@ (c3 :> n3), MaxOps <- 5, MaxPub <- 1, ref <- refs
Local == INSTANCE Multicast WITH
    Node <- {n1, n2}, Owner <- n1, Client <- {c1, c2, c3},
    Home <- (c1 :> n1) @@ (c2 :> n1) @@ (c3 :> n2), MaxOps <- 4, MaxPub <- 2, ref <- refs

Sender == INSTANCE ClusterNode WITH Down <- NoAddress, pc <- node_pc
Agent == INSTANCE ClusterName WITH
    Request <- Asker, Service <- Registered, cache <- name_cache, pc <- name_pc, got <- found

\* Messages to a name; nodes that link to each other and crash.
Named == INSTANCE Harbor WITH Node <- {1, 2}, Linker <- {}, MaxCrash <- 0
Linked == INSTANCE Harbor WITH Node <- {1, 2}, Linker <- {1, 2}, MaxCrash <- 1, MaxSends <- 0,
    Registrar <- {}

Shared == INSTANCE Stm WITH pc <- stm_pc, box <- stm_box
Sole == INSTANCE Stm WITH Reader <- {First}, pc <- stm_pc, box <- stm_box
Obj == INSTANCE ShareData WITH Client <- Sharer

ASSUME Data!DataCentreAssumption /\ Apart!MulticastAssumption /\ Local!MulticastAssumption
ASSUME SenderAssumption == Sender!ClusterAssumption
ASSUME AgentAssumption == Agent!ClusterNameAssumption
ASSUME CopyAssumption == Shared!StmAssumption /\ First \in Reader
ASSUME Named!HarborAssumption /\ Obj!ShareDataAssumption

------------------------------------------------------------------------------
ServicesInit ==
    /\ part \in Parts
    /\ Data!Init /\ Sender!Init /\ Agent!Init /\ Obj!Init
    /\ IF part = "apart" THEN Apart!Init ELSE Local!Init
    /\ Named!Init
    /\ IF part = "sole" THEN Sole!Init ELSE Shared!Init
    /\ part # "node" => node_address = Absent /\ nowaiting = FALSE
    /\ copy = 1             \* the addresses are alike

\* A step of component p, in which the others stay.
In(p) ==
    /\ part = p /\ UNCHANGED part
    /\ p \notin {"data", "branch"} => UNCHANGED data_vars
    /\ p \notin {"apart", "local"} => UNCHANGED multi_vars
    /\ p # "node" => UNCHANGED node_vars
    /\ p # "name" => UNCHANGED name_vars
    /\ p \notin {"named", "linked"} => UNCHANGED harbor_vars
    /\ p \notin {"shared", "sole"} => UNCHANGED stm_vars
    /\ p # "obj" => UNCHANGED share_vars

ServicesNext ==
    \/ In("data") /\ Data!Next
    \/ In("branch") /\ Branch!Next
    \/ In("apart") /\ Apart!Next
    \/ In("local") /\ Local!Next
    \/ In("node") /\ Sender!Next
    \/ In("name") /\ Agent!Next
    \/ In("named") /\ Named!Next
    \/ In("linked") /\ Linked!Next
    \/ In("shared") /\ Shared!Next
    \/ In("sole") /\ Sole!Next
    \/ In("obj") /\ Obj!Next

ServicesSpec == ServicesInit /\ [][ServicesNext]_services

\* The fairness of each component (see there).
ServicesFairSpec ==
    /\ ServicesSpec
    /\ WF_services(In("node") /\ Sender!RunFork)
    /\ \A t \in Request \cup Fork : WF_services(In("node") /\ Sender!Step(t))
    /\ WF_services(In("name") /\ Agent!QueryName) /\ WF_services(In("name") /\ Agent!Handle)
    /\ \A t \in Asker : WF_services(In("name") /\ Agent!Reply(t))
    /\ \A i \in {1, 2} :
          /\ WF_services(In("linked") /\ Linked!MasterReads(i))
          /\ WF_services(In("linked") /\ Linked!SlaveReads(i))
          /\ WF_services(In("linked") /\ Linked!ReadyOpens(i))
          /\ WF_services(In("linked") /\ Linked!ReadyOpened(i))
          /\ WF_services(In("linked") /\ Linked!SlaveTold(i))
          /\ WF_services(In("linked") /\ Linked!HarborCommand(i))
          /\ \A j \in {1, 2} : /\ WF_services(In("linked") /\ Linked!Accept(i, j))
                             /\ WF_services(In("linked") /\ Linked!HarborReads(i, j))
    /\ \A i \in {1, 2} :
          /\ WF_services(In("named") /\ Named!MasterReads(i))
          /\ WF_services(In("named") /\ Named!SlaveReads(i))
          /\ WF_services(In("named") /\ Named!ReadyOpens(i))
          /\ WF_services(In("named") /\ Named!ReadyOpened(i))
          /\ WF_services(In("named") /\ Named!SlaveTold(i))
          /\ WF_services(In("named") /\ Named!HarborCommand(i))
          /\ \A j \in {1, 2} : /\ WF_services(In("named") /\ Named!Accept(i, j))
                             /\ WF_services(In("named") /\ Named!HarborReads(i, j))
    /\ \A s \in Sharer :
          /\ WF_services(In("obj") /\ Obj!Handle(s)) /\ WF_services(In("obj") /\ Obj!Queried(s))
          /\ WF_services(In("obj") /\ Obj!Monitored(s))
          /\ \A b \in 1..MaxBox : WF_services(In("obj") /\ Obj!Access(s, b))
    /\ \A o \in Obj!Object : /\ WF_services(In("obj") /\ Obj!Collect(o))
                           /\ WF_services(In("obj") /\ Obj!Release(o))

------------------------------------------------------------------------------
\* Properties.

\* Nothing is freed while it is used, or kept when it is not: the copies of an
\* stm object, the object with one reader, the tables of sharedata and the
\* packages of a multicast (stm_releasecopy, sharedatad.lua, mc_closelocal).
CountsExact ==
    /\ part = "shared" => Shared!CopiesCounted /\ Shared!UpdateHeard /\ Shared!AllFreed
    /\ part = "sole" => Sole!CopiesCounted /\ Sole!UnusedWhenFreed
    /\ Obj!RefsCounted /\ Obj!NoneReadFreed
    /\ part = "local" => Local!TypeOK /\ Local!RefExact /\ Local!Delivered

\* A published message reaches all who are subscribed, and messages to a global
\* name arrive in order at the service of that name, although its node becomes
\* known, is connected and opened in steps (multicastd.lua, service_harbor.c).
DeliveredInOrder ==
    /\ part = "apart" => Apart!TypeOK /\ Apart!Delivered /\ Apart!NodesKnown
    /\ part = "named" => Named!TypeOK /\ Named!NameInOrder /\ Named!ToTheName

\* When all has settled, what is cached of another node is what is configured or
\* registered there, whatever was reloaded in between (clusterd.lua).
CachedIsCurrent ==
    /\ Sender!TypeOK /\ Sender!SenderCurrent
    /\ Agent!CacheCurrent

\* Who waits for a path of the tree waits only as long as there is nothing there,
\* and ends with its value, or with an error if it is a branch (datacenterd.lua).
WaitersAnswered ==
    /\ [](part = "data" => Data!TypeOK /\ Data!NoneForgotten)
    /\ Branch!EndsForCause

\* A request for a node or a name in it is answered when the node is known and
\* reached or given up, who waits for a harbor to go down is told, a message to a
\* name that is known arrives, and who uses a shared table uses the last version
\* of it in the end, and those before are freed.
RequestsEnd == Sender!Answered /\ Agent!AsksEnd /\ Linked!LinkReturns /\ Linked!NodesStart
               /\ Named!NameReached /\ Obj!InTheEndCurrent /\ Obj!OldFreed
==============================================================================
