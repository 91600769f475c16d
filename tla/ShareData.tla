-------------------------------- MODULE ShareData --------------------------------
\* One shared table (service/sharedatad.lua, lualib/skynet/sharedata.lua): the
\* service makes a new object at every update, clients box the object they use
\* and wait for the next one.  Counters of references decide when the service
\* may free an object.
EXTENDS Integers, Sequences, FiniteSets, SequencesExt, FiniteSetsExt

CONSTANTS
    Client,
    MaxObj,             \* bound on the objects that are made
    MaxBox,             \* bound on the boxes of a client
    MaxCall,            \* queries of a client under way
    Deletes             \* whether the table is deleted and made anew

ShareDataAssumption ==
    MaxObj \in Nat \ {0} /\ MaxBox \in Nat \ {0} /\ MaxCall \in Nat \ {0} /\ Deletes \in BOOLEAN

Object == 1..MaxObj

VARIABLES
    pool, watch,        \* the current object (0: none), the boxes that wait for the next
    made,               \* objects made so far
    objmap,             \* of each object: "none", "current", "old", "deleted"
    ref, dirty,         \* of each object
    toServer, toClient, \* messages, in order
    box,                \* of each client its boxes: obj, update (0: none), mon
    cache,              \* of each client the box it gives out (0: none)
    calls,              \* of each client the queries under way
    garbage,            \* of each object the boxes that are not collected yet
    failed              \* clients whose monitor has ended with an error, and the object it got then

service == <<pool, watch, made, objmap, dirty>>
client == <<box, cache, calls, failed>>
vars == <<service, ref, toServer, toClient, client, garbage>>

Init ==
    /\ pool = 1 /\ watch = {} /\ made = 1
    /\ objmap = [o \in Object |-> IF o = 1 THEN "current" ELSE "none"]
    /\ ref = [o \in Object |-> IF o = 1 THEN 1 ELSE 0] /\ dirty = [o \in Object |-> FALSE]
    /\ toServer = [c \in Client |-> <<>>] /\ toClient = [c \in Client |-> <<>>]
    /\ box = [c \in Client |-> <<>>] /\ cache = [c \in Client |-> 0] /\ calls = [c \in Client |-> 0]
    /\ garbage = [o \in Object |-> 0] /\ failed = {}

Plus(f, o, n) == IF o = 0 THEN f ELSE [f EXCEPT ![o] = @ + n]
Tell(c, m) == toServer' = [toServer EXCEPT ![c] = Append(@, m)]
Received(c) == toClient' = [toClient EXCEPT ![c] = Tail(@)]
Monitor(c, b, o) == [do |-> "monitor", b |-> b, obj |-> o]
Confirm(o) == [do |-> "confirm", b |-> 0, obj |-> o]

------------------------------------------------------------------------------
\* The service.

\* Everybody who waits is answered with object o (0: deleted).
Answer(o) ==
    /\ toClient' = [c \in Client |-> toClient[c] \o
                       SetToSeq({[do |-> "monitor", b |-> w[2], obj |-> o] : w \in {v \in watch : v[1] = c}})]
    /\ watch' = {}

\* CMD.update; CMD.new when there is none.
Update ==
    /\ made < MaxObj /\ made' = made + 1 /\ pool' = made + 1
    /\ objmap' = IF pool = 0 THEN [objmap EXCEPT ![made + 1] = "current"]
                 ELSE [objmap EXCEPT ![pool] = "old", ![made + 1] = "current"]
    /\ dirty' = IF pool = 0 THEN dirty ELSE [dirty EXCEPT ![pool] = TRUE]
    /\ ref' = [Plus(ref, pool, -1) EXCEPT ![made + 1] = 1 + Cardinality(watch)]
    /\ Answer(made + 1)
    /\ UNCHANGED <<toServer, client, garbage>>

Delete ==
    /\ Deletes /\ pool # 0 /\ pool' = 0
    /\ objmap' = [objmap EXCEPT ![pool] = "old"] /\ ref' = [ref EXCEPT ![pool] = @ - 1]
    /\ Answer(0)
    /\ UNCHANGED <<made, dirty, toServer, client, garbage>>

\* collectobj.
CollectObject(o) == objmap[o] = "old" /\ ref[o] <= 0 /\ objmap' = [objmap EXCEPT ![o] = "deleted"]
Collect(o) ==
    /\ CollectObject(o)
    /\ UNCHANGED <<pool, watch, made, dirty, ref, toServer, toClient, client, garbage>>

HandleMonitor(c, m) ==
    IF pool = 0 THEN /\ toClient' = [toClient EXCEPT ![c] = Append(@, [do |-> "error", b |-> m.b, obj |-> 0])]
                     /\ UNCHANGED <<ref, watch>>
    ELSE IF m.obj # pool THEN /\ toClient' = [toClient EXCEPT ![c] = Append(@, [do |-> "monitor", b |-> m.b, obj |-> pool])]
                              /\ ref' = Plus(ref, pool, 1) /\ UNCHANGED watch
    ELSE watch' = watch \cup {<<c, m.b>>} /\ UNCHANGED <<ref, toClient>>
HandleQuery(c) ==
    /\ toClient' = [toClient EXCEPT ![c] = Append(@, [do |-> "query", b |-> 0, obj |-> pool])]
    /\ ref' = Plus(ref, pool, 1) /\ UNCHANGED watch
HandleConfirm(m) ==
    /\ ref' = IF objmap[m.obj] \in {"current", "old"} THEN Plus(ref, m.obj, -1) ELSE ref
    /\ UNCHANGED <<watch, toClient>>
Handle(c) ==
    /\ toServer[c] # <<>> /\ toServer' = [toServer EXCEPT ![c] = Tail(@)]
    /\ LET m == Head(toServer[c])
       IN \/ m.do = "query" /\ HandleQuery(c)
          \/ m.do = "monitor" /\ HandleMonitor(c, m)
          \/ m.do = "confirm" /\ HandleConfirm(m)
    /\ UNCHANGED <<pool, made, objmap, dirty, client, garbage>>

------------------------------------------------------------------------------
\* The clients.

\* sharedata.query without a cached box.
Query(c) ==
    /\ cache[c] = 0 /\ calls[c] < MaxCall /\ Len(box[c]) + calls[c] < MaxBox
    /\ calls' = [calls EXCEPT ![c] = @ + 1]
    /\ Tell(c, [do |-> "query", b |-> 0, obj |-> 0])
    /\ UNCHANGED <<service, ref, toClient, box, cache, failed, garbage>>

\* Its answer; a box may have been made since, for this object or another.
Queried(c) ==
    /\ toClient[c] # <<>> /\ Head(toClient[c]).do = "query" /\ Received(c)
    /\ calls' = [calls EXCEPT ![c] = @ - 1]
    /\ LET o == Head(toClient[c]).obj
           n == Len(box[c]) + 1
       IN IF o = 0 THEN UNCHANGED <<toServer, box, cache, ref>>
          ELSE IF cache[c] # 0 /\ box[c][cache[c]].obj = o THEN Tell(c, Confirm(o)) /\ UNCHANGED <<box, cache, ref>>
          ELSE /\ box' = [box EXCEPT ![c] = Append(@, [obj |-> o, update |-> 0, mon |-> "wait"])]
               /\ cache' = [cache EXCEPT ![c] = n] /\ ref' = Plus(ref, o, 1)
               /\ toServer' = [toServer EXCEPT ![c] = @ \o <<Confirm(o), Monitor(c, n, o)>>]
    /\ UNCHANGED <<service, failed, garbage>>

End(c, b) == box' = [box EXCEPT ![c][b].mon = "end"]

\* The loop of monitor.  sd.update asserts that the object in use is dirty.
Monitored(c) ==
    /\ toClient[c] # <<>> /\ Head(toClient[c]).do = "monitor" /\ Received(c)
    /\ LET b == Head(toClient[c]).b
           o == Head(toClient[c]).obj
           x == box[c][b]
       IN IF o = 0
          THEN /\ End(c, b) /\ cache' = [cache EXCEPT ![c] = IF @ = b THEN 0 ELSE @]
               /\ UNCHANGED <<toServer, ref, garbage, failed>>
          ELSE IF ~dirty[x.obj] THEN /\ End(c, b) /\ failed' = failed \cup {<<c, b, o>>}
                                     /\ UNCHANGED <<toServer, ref, garbage, cache>>
          ELSE /\ box' = [box EXCEPT ![c][b].update = o]
               /\ ref' = Plus(ref, o, 1) /\ garbage' = Plus(garbage, x.update, 1)
               /\ toServer' = [toServer EXCEPT ![c] = @ \o <<Confirm(o), Monitor(c, b, o)>>]
               /\ UNCHANGED <<cache, failed>>
    /\ UNCHANGED <<service, calls>>

\* The call of monitor raises an error when the table was deleted.
MonitorFails(c) ==
    /\ toClient[c] # <<>> /\ Head(toClient[c]).do = "error" /\ Received(c)
    /\ End(c, Head(toClient[c]).b)
    /\ UNCHANGED <<service, ref, toServer, cache, calls, failed, garbage>>

\* getcobj, by anybody who uses the box.
Use(c, b) ==
    /\ b \in DOMAIN box[c]
    /\ LET x == box[c][b]
       IN /\ x.obj # 0 /\ x.update # 0 /\ dirty[x.obj]
          /\ box' = [box EXCEPT ![c][b] = [obj |-> x.update, update |-> 0, mon |-> x.mon]]
          /\ garbage' = Plus(garbage, x.obj, 1)
Access(c, b) == Use(c, b) /\ UNCHANGED <<service, ref, toServer, toClient, cache, calls, failed>>

\* A box is not used any more and has no monitor: the weak cache forgets it.
Forget(c, b) ==
    /\ b \in DOMAIN box[c] /\ box[c][b].mon = "end"
    /\ box' = [box EXCEPT ![c][b] = [obj |-> 0, update |-> 0, mon |-> "none"]]
    /\ garbage' = Plus(Plus(garbage, box[c][b].obj, 1), box[c][b].update, 1)
    /\ cache' = [cache EXCEPT ![c] = IF @ = b THEN 0 ELSE @]
    /\ UNCHANGED <<service, ref, toServer, toClient, calls, failed>>
\* releaseobj, by a collector.
Release(o) ==
    /\ garbage[o] > 0 /\ garbage' = Plus(garbage, o, -1) /\ ref' = Plus(ref, o, -1)
    /\ UNCHANGED <<service, toServer, toClient, client>>

Next ==
    \/ Update \/ Delete
    \/ \E o \in Object : Collect(o) \/ Release(o)
    \/ \E c \in Client :
        \/ Handle(c) \/ Query(c) \/ Queried(c) \/ Monitored(c) \/ MonitorFails(c)
        \/ \E b \in 1..MaxBox : Access(c, b) \/ Forget(c, b)
Spec == Init /\ [][Next]_vars
FairSpec == Spec /\ \A c \in Client : WF_vars(Handle(c)) /\ WF_vars(Queried(c)) /\ WF_vars(Monitored(c))
                                    /\ \A b \in 1..MaxBox : WF_vars(Access(c, b))
                 /\ \A o \in Object : WF_vars(Collect(o)) /\ WF_vars(Release(o))

------------------------------------------------------------------------------
\* Properties.

\* Uses of an object: by the service, boxes, and what is not confirmed yet.
Boxed(o) == {x \in Client \X (1..MaxBox) : x[2] \in DOMAIN box[x[1]] /\ box[x[1]][x[2]].obj = o}
Next_(o) == {x \in Client \X (1..MaxBox) : x[2] \in DOMAIN box[x[1]] /\ box[x[1]][x[2]].update = o}
Given(o) == ReduceSet(LAMBDA c, n : n + Cardinality({i \in DOMAIN toClient[c] : toClient[c][i].obj = o})
                + Cardinality({i \in DOMAIN toServer[c] : toServer[c][i] = Confirm(o)}), Client, 0)
Lost(o) == Cardinality({f \in failed : f[3] = o})

\* An object is counted as often as it is in use, so that none is freed early
\* and none is kept (but for what a failed monitor has not confirmed).
RefsCounted ==
    \A o \in Object : objmap[o] # "deleted" =>
        ref[o] = (IF pool = o THEN 1 ELSE 0) + Cardinality(Boxed(o)) + Cardinality(Next_(o)) + Given(o)
               + garbage[o] + Lost(o)

\* No client reads an object that was freed, or is given one.
NoneReadFreed ==
    \A o \in Object : objmap[o] = "deleted" => Boxed(o) = {} /\ Next_(o) = {} /\ Given(o) = 0

\* Only a dirty object is updated (the assertion of sd.update).
OnlyDirtyUpdated == failed = {}

\* In the end every client that uses the table uses the current object.
InTheEndCurrent == <>[](\A c \in Client : cache[c] # 0 => box[c][cache[c]].obj = pool)

\* What was replaced is freed in the end.
OldFreed == \A o \in Object : objmap[o] = "old" ~> objmap[o] = "deleted"
==================================================================================
