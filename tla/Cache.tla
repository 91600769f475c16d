--------------------------------- MODULE Cache ---------------------------------
\* The cache in front of the database (lualib/meiru/lib/cached.lua in the
\* service meiru/cached): values with a deadline, a limit on their number, and
\* writes that are put off for a few seconds.  Every call of the database
\* yields, so that other calls and the timer run in between.
EXTENDS Integers, Sequences, FiniteSets, SequencesExt, FiniteSetsExt

CONSTANTS
    Client, Saver,      \* coroutines of the calls, and of the timer
    Key, Value,
    Obj,                \* tables that hold the data of a key, 1 .. n
    Timeout,            \* the timeouts of set
    kMDoSaveInterval, kMTmpSaveIntervel, kMMaxCacheCap,
    MaxTime, MaxCalls,  \* bounds on the clock and on the calls
    Stored,             \* may the database have rows at the start?
    None

CacheAssumption ==
    /\ None \notin Value /\ Timeout \subseteq Nat \ {0}
    /\ kMDoSaveInterval \in Nat \ {0} /\ kMMaxCacheCap \in Nat

VARIABLES
    now, calls,
    datas,              \* nil, false, or the table of a key
    obj,                \* the tables
    queue,              \* LimitQueue: queue[from_idx .. to_idx-1]
    save_map, timer,    \* SaveQueue: when a key is due, when the timer fires
    pc, op,             \* where a coroutine is, and what it was called for
    todo, data,         \* remove_keys of a saver, and the table it saves
    dbq, rows, ids,     \* requests for the database, its rows, ids given out
    last, read, failed  \* ghosts: the last value set and whether it has to be
                        \* stored, the last read, and whether save has raised

clock == <<now, calls>>
store == <<datas, obj, queue>>
saves == <<save_map, timer>>
threads == <<pc, op, todo, data>>
base == <<dbq, rows, ids>>
ghosts == <<last, read, failed>>
vars == <<clock, store, saves, threads, base, ghosts>>

False == 0
NoRow == [vdata |-> None, deadline |-> 0, id |-> 0]
NoRead == [val |-> None, late |-> FALSE, right |-> TRUE]
Call == [do : {"get", "set", "remove"}, key : Key, val : Value, timeout : Timeout]

Init ==
    /\ now = 1 /\ calls = 0
    /\ datas = [k \in Key |-> None] /\ obj = [o \in Obj |-> NoRow] /\ queue = <<>>
    /\ save_map = [k \in Key |-> None] /\ timer = None
    /\ pc = [t \in Client \cup Saver |-> "idle"] /\ op = [c \in Client |-> None]
    /\ todo = [s \in Saver |-> {}] /\ data = [s \in Saver |-> None]
    /\ dbq = <<>> /\ ids = 1
    /\ rows \in [Key -> {NoRow} \cup (IF Stored THEN [vdata : Value, deadline : {1, 2}, id : {1}] ELSE {})]
    /\ last = [k \in Key |-> [val |-> rows[k].vdata, store |-> FALSE]] /\ read = NoRead /\ failed = FALSE

\* A coroutine runs until it yields.
Quiet == \A s \in Saver : pc[s] # "saving"
Goto(t, p) == pc' = [pc EXCEPT ![t] = p]
Fresh == Min(Obj \ ({datas[k] : k \in Key} \cup {data[s] : s \in Saver}))
IsTable(k) == datas[k] \notin {None, False}
Live(k) == IsTable(k) /\ now < obj[datas[k]].deadline
Expired(k) == IsTable(k) /\ ~Live(k)

------------------------------------------------------------------------------
\* LimitQueue:add_data: the oldest entry goes, whatever its key holds by now.
AddData(k, o) ==
    LET old == Head(queue)
        full == Len(queue) > kMMaxCacheCap
    IN /\ queue' = IF full THEN Append(Tail(queue), k) ELSE Append(queue, k)
       /\ datas' = [j \in Key |-> IF j = k THEN o
                                  ELSE IF full /\ j = old THEN None ELSE datas[j]]

\* SaveQueue:run_save_timer.
RunSaveTimer ==
    timer' = IF timer = None THEN now + kMDoSaveInterval ELSE timer

\* The rest of Cache:set, once it has the table of the key.
Assign(k, call, o, id) ==
    /\ obj' = [obj EXCEPT ![o] = [vdata |-> call.val, deadline |-> now + call.timeout, id |-> id]]
    /\ last' = [last EXCEPT ![k] = [val |-> call.val, store |-> call.timeout >= kMTmpSaveIntervel]]
    /\ IF call.timeout < kMTmpSaveIntervel
       THEN UNCHANGED saves
       ELSE save_map' = [save_map EXCEPT ![k] = now + kMDoSaveInterval] /\ RunSaveTimer

Request(t, what, k, row) == [who |-> t, do |-> what, key |-> k, row |-> row]
Ask(t, what, k, row) == dbq' = Append(dbq, Request(t, what, k, row)) /\ Goto(t, what)
Returns(k, row) ==
    read' = [val |-> row.vdata, late |-> row # NoRow /\ now >= row.deadline,
             right |-> row.vdata = last[k].val]

\* Cache:remove, as a call and for data that is past its deadline.
RemoveKey(c, k) ==
    /\ save_map' = [save_map EXCEPT ![k] = None] /\ datas' = [datas EXCEPT ![k] = False]
    /\ Ask(c, "delete", k, NoRow)
    /\ last' = [last EXCEPT ![k] = [val |-> None, store |-> FALSE]]
    /\ UNCHANGED <<timer, obj, queue, read>>

\* A call of get, set or remove, up to its first yield.
Start(c, call) ==
    /\ Quiet /\ pc[c] = "idle" /\ calls < MaxCalls /\ calls' = calls + 1
    /\ op' = [op EXCEPT ![c] = call]
    /\ LET k == call.key
       IN \/ (call.do = "remove" \/ Expired(k)) /\ RemoveKey(c, k)
          \/ /\ call.do # "remove" /\ datas[k] = None
             /\ Ask(c, "select", k, NoRow) /\ UNCHANGED <<store, saves, last, read>>
          \/ /\ call.do = "get" /\ (Live(k) \/ datas[k] = False)
             /\ Returns(k, IF Live(k) THEN obj[datas[k]] ELSE NoRow)
             /\ UNCHANGED <<store, saves, pc, dbq, last>>
          \/ /\ call.do = "set" /\ Live(k) /\ Assign(k, call, datas[k], obj[datas[k]].id)
             /\ UNCHANGED <<datas, queue, pc, dbq, read>>
          \/ /\ call.do = "set" /\ datas[k] = False /\ Assign(k, call, Fresh, None)
             /\ AddData(k, Fresh) /\ UNCHANGED <<pc, dbq, read>>
    /\ UNCHANGED <<now, todo, data, rows, ids, failed>>

------------------------------------------------------------------------------
\* The database works through its requests in order: each action takes the
\* oldest, and the coroutine that waits for it goes on.
Answers(what) == Quiet /\ dbq # <<>> /\ Head(dbq).do = what
Answered == dbq' = Tail(dbq)

\* DELETE.  A call that has found its data past the deadline goes on to select.
Deleted ==
    /\ Answers("delete")
    /\ LET r == Head(dbq)
       IN /\ rows' = [rows EXCEPT ![r.key] = NoRow]
          /\ IF op[r.who].do = "remove"
             THEN Answered /\ Goto(r.who, "idle")
             ELSE /\ dbq' = Append(Tail(dbq), Request(r.who, "select", r.key, NoRow))
                  /\ Goto(r.who, "select")
    /\ UNCHANGED <<clock, store, saves, op, todo, data, ids, ghosts>>

\* The rest of Cache:get_data: a row becomes the table of the key, and get or
\* set goes on with it.
Selected ==
    /\ Answers("select") /\ Answered
    /\ LET r == Head(dbq)
           row == rows[r.key]
           call == op[r.who]
       IN /\ Goto(r.who, "idle")
          /\ IF call.do = "set"
             THEN Assign(r.key, call, Fresh, IF row = NoRow THEN None ELSE row.id) /\ UNCHANGED read
             ELSE /\ obj' = IF row = NoRow THEN obj ELSE [obj EXCEPT ![Fresh] = row]
                  /\ Returns(r.key, row) /\ UNCHANGED <<saves, last>>
          /\ IF call.do = "set" \/ row # NoRow
             THEN AddData(r.key, Fresh)
             ELSE datas' = [datas EXCEPT ![r.key] = False] /\ UNCHANGED queue
    /\ UNCHANGED <<clock, op, todo, data, rows, ids, failed>>

------------------------------------------------------------------------------
\* The timer: the keys that are due are saved one after the other.
TimerFires(s) ==
    /\ Quiet /\ timer # None /\ now >= timer /\ pc[s] = "idle"
    /\ timer' = None
    /\ todo' = [todo EXCEPT ![s] = {k \in Key : save_map[k] # None /\ now >= save_map[k]}]
    /\ Goto(s, "saving")
    /\ UNCHANGED <<clock, store, save_map, op, data, base, ghosts>>

\* Cache:save, up to the answer of the database.
Save(s, k) ==
    /\ pc[s] = "saving" /\ k \in todo[s]
    /\ todo' = [todo EXCEPT ![s] = @ \ {k}]
    /\ save_map' = [save_map EXCEPT ![k] = None]
    /\ LET o == datas[k]
       IN IF IsTable(k)
          THEN /\ data' = [data EXCEPT ![s] = o]
               /\ Ask(s, IF obj[o].id = None THEN "insert" ELSE "update", k, obj[o])
          ELSE UNCHANGED <<data, dbq, pc>>
    /\ UNCHANGED <<clock, store, timer, op, rows, ids, ghosts>>

\* Mutant: the timer is not started again for keys that are not due yet.
SaveDoneStops(s) ==
    /\ pc[s] = "saving" /\ todo[s] = {} /\ Goto(s, "idle")
    /\ UNCHANGED <<clock, store, saves, op, todo, data, base, ghosts>>

SaveDone(s) ==
    /\ pc[s] = "saving" /\ todo[s] = {} /\ Goto(s, "idle")
    /\ IF \A k \in Key : save_map[k] = None THEN UNCHANGED timer ELSE RunSaveTimer
    /\ UNCHANGED <<clock, store, save_map, op, todo, data, base, ghosts>>

\* The rest of Cache:save: when one row was not affected, it raises an error,
\* which ends the loop over the keys as well.
Saved(s, one) ==
    /\ data' = [data EXCEPT ![s] = None]
    /\ failed' = (failed \/ ~one)
    /\ Goto(s, IF one THEN "saving" ELSE "idle")
    /\ todo' = [todo EXCEPT ![s] = IF one THEN @ ELSE {}]
Updated ==
    /\ Answers("update") /\ Answered
    /\ LET r == Head(dbq)
           hit == rows[r.key] # NoRow /\ rows[r.key].id = r.row.id
       IN /\ rows' = IF hit THEN [rows EXCEPT ![r.key] = r.row] ELSE rows
          /\ Saved(r.who, hit)
    /\ UNCHANGED <<clock, store, saves, op, ids, last, read>>

\* INSERT, which for a key that is there already turns into an update.
Inserted ==
    /\ Answers("insert")
    /\ LET r == Head(dbq)
       IN IF rows[r.key] = NoRow
          THEN /\ rows' = [rows EXCEPT ![r.key] = [r.row EXCEPT !.id = ids]] /\ ids' = ids + 1
               /\ obj' = [obj EXCEPT ![data[r.who]].id = IF @ = None THEN ids ELSE @]
               /\ Saved(r.who, obj[data[r.who]].id \in {None, ids}) /\ Answered
          ELSE /\ dbq' = Append(Tail(dbq), [r EXCEPT !.do = "upsert"])
               /\ Goto(r.who, "upsert")
               /\ UNCHANGED <<rows, ids, obj, data, todo, failed>>
    /\ UNCHANGED <<clock, datas, queue, saves, op, last, read>>

\* The answer of an update has insert_id 0, which is taken for the id.
Upserted ==
    /\ Answers("upsert") /\ Answered
    /\ LET r == Head(dbq)
           hit == rows[r.key] # NoRow
       IN /\ rows' = IF hit THEN [rows EXCEPT ![r.key] = [r.row EXCEPT !.id = rows[r.key].id]] ELSE rows
          /\ obj' = [obj EXCEPT ![data[r.who]].id = IF @ = None THEN 0 ELSE @]
          /\ Saved(r.who, hit /\ obj[data[r.who]].id \in {None, 0})
    /\ UNCHANGED <<clock, datas, queue, saves, op, ids, last, read>>

\* Timers run and answers come before the next save is due.
Tick ==
    /\ Quiet /\ now < MaxTime /\ now' = now + 1
    /\ timer # None => now < timer
    /\ UNCHANGED <<calls, store, saves, threads, base, ghosts>>

Answer == Deleted \/ Selected \/ Updated \/ Inserted \/ Upserted
SaverStep(s) == SaveDone(s) \/ \E k \in Key : Save(s, k)
Next ==
    \/ \E c \in Client, call \in Call : Start(c, call)
    \/ Answer \/ Tick \/ \E s \in Saver : TimerFires(s) \/ SaverStep(s)
Spec == Init /\ [][Next]_vars
FairSpec == Spec /\ WF_vars(Answer) /\ \A s \in Saver : WF_vars(SaverStep(s))

------------------------------------------------------------------------------
\* Properties.

\* The tables of keys are tables, and a key is in the queue that limits them.
TypeOK ==
    /\ \A k \in Key : datas[k] \in Obj \cup {None, False} /\ rows[k].vdata \in Value \cup {None}
    /\ \A k \in Key : IsTable(k) => \E i \in DOMAIN queue : queue[i] = k
    /\ Len(queue) <= kMMaxCacheCap + 1
    /\ \A s \in Saver : pc[s] \in {"insert", "update", "upsert"} <=> data[s] # None

\* When there is nothing left to do, what was set for long enough is stored.
AtRest == timer = None /\ dbq = <<>> /\ \A t \in DOMAIN pc : pc[t] = "idle"
WrittenBack == AtRest => \A k \in Key : last[k].store => rows[k].vdata = last[k].val

\* A get returns what was set last.
ReadsLast == read.right

\* A get returns nothing that is past its deadline.
NotLate == ~read.late

\* Every save writes one row.
SavesOne == ~failed

\* Every call and every save ends.
CallsEnd == \A t \in Client \cup Saver : pc[t] # "idle" ~> pc[t] = "idle"
==============================================================================
