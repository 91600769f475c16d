------------------------------ MODULE DataCentre ------------------------------
\* service/datacenterd.lua: a tree of values in which a client may wait for a
\* path that has none yet.  The service handles one message after the other and
\* never yields, so a command is one step.  Scalar values are strings.
EXTENDS Integers, Sequences, FiniteSets, SequencesExt

CONSTANTS
    Client,
    Path,       \* paths of the tree, with all their prefixes
    Scalar,     \* values that are not tables; a key may be among them
    Table,      \* a node of the tree that has been made a table
    Updates,    \* besides values for paths: "delete", "delete nothing", "table"
    MaxUpdates, \* bound on the updates
    Nil

DataCentreAssumption ==
    /\ \A p \in Path : Len(p) > 0 /\ \A n \in 1 .. Len(p) : SubSeq(p, 1, n) \in Path
    /\ Table \notin Scalar /\ Nil \notin Scalar /\ Nil # Table
    /\ Updates \subseteq {"delete", "delete nothing", "table"}

VARIABLES
    database,   \* the value of a path
    wait_queue, \* its place in the tree of those who wait: "none", "queue", "branch"
    queued,     \* the clients of a queue
    answer,     \* what a client has got: <<"none">>, <<"waits", p>>, <<"ok", p, v>>, ...
    updates     \* number of updates, bounded

vars == <<database, wait_queue, queued, answer, updates>>

Node == Scalar \cup {Nil, Table}
Above(p) == {q \in Path : IsStrictPrefix(q, p)}
Below(p) == {q \in Path : IsStrictPrefix(p, q)}
Waits(c, p) == answer[c] = <<"waits", p>>

Init ==
    /\ database = [p \in Path |-> Nil]
    /\ wait_queue = [p \in Path |-> "none"] /\ queued = [p \in Path |-> <<>>]
    /\ answer = [c \in Client |-> <<"none">>] /\ updates = 0

------------------------------------------------------------------------------
\* Indexing a table that is not there fails, except at the first key; indexing
\* a string gives nil.
Indexable(p) ==
    \A q \in Above(p) : IF database[q] = Nil THEN Len(q) = 1
                        ELSE database[q] = Table \/ Len(q) + 1 = Len(p)
Query(p) == IF database[<<p[1]>>] = Nil THEN Nil ELSE database[p]
Fails(p) == database[<<p[1]>>] # Nil /\ ~Indexable(p)

\* WAIT: the value, or a place in a queue, unless somebody waits above or below.
Wait(c, p) ==
    /\ answer[c][1] # "waits"
    /\ IF Fails(p) \/ (Query(p) = Nil /\ (\/ wait_queue[p] = "branch"
                                         \/ \E q \in Above(p) : wait_queue[q] = "queue"))
       THEN answer' = [answer EXCEPT ![c] = <<"refused", p>>] /\ UNCHANGED <<wait_queue, queued>>
       ELSE IF Query(p) # Nil
       THEN answer' = [answer EXCEPT ![c] = <<"ok", p, Query(p)>>] /\ UNCHANGED <<wait_queue, queued>>
       ELSE /\ wait_queue' = [q \in Path |-> IF q = p THEN "queue"
                                             ELSE IF q \in Above(p) THEN "branch" ELSE wait_queue[q]]
            /\ queued' = [queued EXCEPT ![p] = Append(@, c)]
            /\ answer' = [answer EXCEPT ![c] = <<"waits", p>>]
    /\ UNCHANGED <<database, updates>>

\* update: tables are made on the way, what was below the path is gone.
Updatable(p) == \A q \in Above(p) : database[q] \in {Nil, Table}
Put(p, v, leaf, w) ==
    database' = [q \in Path |->
        IF q \in Above(p) THEN Table ELSE IF q = p THEN v
        ELSE IF q = leaf THEN w ELSE IF q \in Below(p) THEN Nil ELSE database[q]]

\* wakeup walks the tree of queues along the arguments, the value being the
\* last; a queue that is found is woken when exactly the value is left.
Found(args) ==
    CHOOSE q \in Prefixes(args) :
        /\ q = args \/ (q # <<>> /\ (q \notin Path \/ wait_queue[q] # "branch"))
        /\ \A r \in Prefixes(q) \ {q, <<>>} : r \in Path /\ wait_queue[r] = "branch"
\* Mutant: only those who wait for the path itself are looked at.
WokenExact(p, args, v) ==
    IF wait_queue[p] # "queue" THEN UNCHANGED <<wait_queue, queued, answer>>
    ELSE /\ wait_queue' = [wait_queue EXCEPT ![p] = "none"]
         /\ queued' = [queued EXCEPT ![p] = <<>>]
         /\ answer' = [c \in Client |-> IF ~Contains(queued[p], c) THEN answer[c]
                                         ELSE <<"ok", p, v>>]

Woken(p, args, v) ==
    LET q == Found(args)
    IN IF q \notin Path \/ wait_queue[q] # "queue" THEN UNCHANGED <<wait_queue, queued, answer>>
       ELSE /\ wait_queue' = [wait_queue EXCEPT ![q] = "none"]
            /\ queued' = [queued EXCEPT ![q] = <<>>]
            /\ answer' = [c \in Client |-> IF ~Contains(queued[q], c) THEN answer[c]
                          ELSE IF q = p THEN <<"ok", p, v>> ELSE <<"failed", q>>]

\* UPDATE with a scalar or nil, and with a table of one entry.
Update(p, v) ==
    /\ v = Nil => (IF database[p] = Nil THEN "delete nothing" ELSE "delete") \in Updates
    /\ updates < MaxUpdates /\ updates' = updates + 1
    /\ IF ~Updatable(p) THEN UNCHANGED <<database, wait_queue, queued, answer>>
       ELSE /\ Put(p, v, <<>>, Nil)
            /\ IF database[p] # Nil \/ v = Nil THEN UNCHANGED <<wait_queue, queued, answer>>
               ELSE Woken(p, Append(p, v), v)
Graft(p, k, w) ==
    /\ "table" \in Updates /\ Append(p, k) \in Path
    /\ updates < MaxUpdates /\ updates' = updates + 1
    /\ IF ~Updatable(p) THEN UNCHANGED <<database, wait_queue, queued, answer>>
       ELSE /\ Put(p, Table, Append(p, k), w)
            /\ IF database[p] # Nil THEN UNCHANGED <<wait_queue, queued, answer>>
               ELSE Woken(p, p, Table)

Keys == UNION {ToSet(p) : p \in Path}
Next ==
    \/ \E c \in Client, p \in Path : Wait(c, p)
    \/ \E p \in Path : \/ \E v \in Scalar \cup {Nil} : Update(p, v)
                       \/ \E k \in Keys, w \in Scalar : Graft(p, k, w)
Spec == Init /\ [][Next]_vars

------------------------------------------------------------------------------
\* Properties.

\* Values, places and answers are what they should be, a value has tables above
\* it, and the queues are those of the clients that wait.
TypeOK ==
    /\ database \in [Path -> Node] /\ updates \in 0 .. MaxUpdates
    /\ \A p \in Path : database[p] # Nil => \A q \in Above(p) : database[q] = Table
    /\ \A p \in Path : /\ wait_queue[p] = "queue" <=> queued[p] # <<>>
                       /\ wait_queue[p] # "none" => \A q \in Above(p) : wait_queue[q] = "branch"
                       /\ \A c \in Client : Contains(queued[p], c) <=> Waits(c, p)

\* Nobody waits for a path that has a value, or values below it.  (An update of
\* a.b with nil makes an empty table of a and wakes nobody.)
NoneForgotten ==
    \A c \in Client, p \in Path : Waits(c, p) =>
        \A q \in {p} \cup Below(p) : database[q] \notin Scalar

\* A wait ends well when its path gets a value, with that value, and fails only
\* when the path has become a branch ("throw error because can't wake up a
\* branch").
EndsForCause ==
    [][\A c \in Client, p \in Path :
         Waits(c, p) /\ answer'[c] # answer[c] =>
           \/ answer'[c] = <<"ok", p, database'[p]>> /\ database[p] = Nil
           \/ answer'[c] = <<"failed", p>> /\ \E q \in Below(p) : database'[q] # Nil]_vars
==============================================================================
