------------------------------- MODULE Monitor -------------------------------
(***************************************************************************)
(* The endless-loop watch of skynet-src/skynet_monitor.c.  Each worker has *)
(* a record in which it writes, word by word and without a lock, what it   *)
(* is about to handle and that it is done; the monitor thread looks at the *)
(* records of all workers in turn every five seconds (thread_monitor of    *)
(* skynet_start.c) and reports the service of a record whose version has   *)
(* not moved since its last look.                                          *)
(***************************************************************************)
EXTENDS Integers

CONSTANTS Worker, Service,
          None,          \* handle 0
          MaxMessages    \* bound of the model: messages a worker handles

MonitorAssumption == None \notin Service /\ MaxMessages \in Nat

VARIABLES version, checkVersion, destination,  \* struct skynet_monitor
          pc,        \* the worker, in skynet_context_message_dispatch
          msg,       \* the destination of the message it has popped
          endless,   \* the services marked by skynet_context_endless
          looked,    \* the workers the monitor has looked at in this round
          age,       \* history: looks at w since its handler began
          quiet      \* history: w has finished no message since the last look

vars == <<version, checkVersion, destination, pc, msg, endless, looked, age, quiet>>
history == <<age, quiet>>

Init == /\ version = [w \in Worker |-> 0]
        /\ checkVersion = [w \in Worker |-> 0]
        /\ destination = [w \in Worker |-> None]
        /\ pc = [w \in Worker |-> "idle"]
        /\ msg = [w \in Worker |-> None]
        /\ endless = {}
        /\ looked = {}
        /\ age = [w \in Worker |-> 0]
        /\ quiet = [w \in Worker |-> TRUE]

Goto(w, from, to) == pc[w] = from /\ pc' = [pc EXCEPT ![w] = to]

\* ATOM_FINC(&sm->version)
Count(w) == version' = [version EXCEPT ![w] = @ + 1]

Pop(w, s) ==
    /\ version[w] < 2 * MaxMessages
    /\ Goto(w, "idle", "trigger")
    /\ msg' = [msg EXCEPT ![w] = s]
    /\ UNCHANGED <<version, checkVersion, destination, endless, looked, history>>

\* skynet_monitor_trigger(sm, msg.source, handle): first the words, ...
SetDestination(w) ==
    /\ Goto(w, "trigger", "count")
    /\ destination' = [destination EXCEPT ![w] = msg[w]]
    /\ UNCHANGED <<version, checkVersion, msg, endless, looked, history>>

\* ... then the version; the handler is called.
Begin(w) ==
    /\ Goto(w, "count", "handle")
    /\ Count(w)
    /\ age' = [age EXCEPT ![w] = 0]
    /\ UNCHANGED <<checkVersion, destination, msg, endless, looked, quiet>>

\* The handler returns: skynet_monitor_trigger(sm, 0, 0).
ClearDestination(w) ==
    /\ Goto(w, "handle", "done")
    /\ destination' = [destination EXCEPT ![w] = None]
    /\ UNCHANGED <<version, checkVersion, msg, endless, looked, history>>

End(w) ==
    /\ Goto(w, "done", "idle")
    /\ Count(w)
    /\ quiet' = [quiet EXCEPT ![w] = FALSE]
    /\ UNCHANGED <<checkVersion, destination, msg, endless, looked, age>>

\* Mutant: the version seen is not remembered.
RememberNot(w) == UNCHANGED checkVersion

Remember(w) == checkVersion' = [checkVersion EXCEPT ![w] = version[w]]

Stalled(w) == version[w] = checkVersion[w]

\* skynet_monitor_check
Check(w) ==
    /\ w \notin looked
    /\ looked' = looked \cup {w}
    /\ \/ /\ Stalled(w)
          /\ endless' = IF destination[w] = None THEN endless
                        ELSE endless \cup {destination[w]}
          /\ UNCHANGED checkVersion
       \/ ~Stalled(w) /\ Remember(w) /\ UNCHANGED endless
    /\ age' = [age EXCEPT ![w] = IF @ = 2 THEN 2 ELSE @ + 1]
    /\ quiet' = [quiet EXCEPT ![w] = TRUE]
    /\ UNCHANGED <<version, destination, pc, msg>>

\* Five seconds later.
NextRound == /\ looked = Worker
             /\ looked' = {}
             /\ UNCHANGED <<version, checkVersion, destination, pc, msg, endless,
                            history>>

\* skynet.stat "endless" reads the mark and clears it.
Clear(s) == /\ s \in endless
            /\ endless' = endless \ {s}
            /\ UNCHANGED <<version, checkVersion, destination, pc, msg, looked,
                           history>>

Next == \/ \E w \in Worker : \/ \E s \in Service : Pop(w, s)
                             \/ SetDestination(w) \/ Begin(w)
                             \/ ClearDestination(w) \/ End(w)
                             \/ Check(w)
        \/ NextRound
        \/ \E s \in Service : Clear(s)

Spec == Init /\ [][Next]_vars

-----------------------------------------------------------------------------
\* Type invariant, and what the words of a record say together: the version is
\* odd while a handler runs, and the destination set from just before that.
RecordOK ==
    /\ version \in [Worker -> 0 .. 2 * MaxMessages]
    /\ checkVersion \in [Worker -> 0 .. 2 * MaxMessages]
    /\ destination \in [Worker -> Service \cup {None}]
    /\ pc \in [Worker -> {"idle", "trigger", "count", "handle", "done"}]
    /\ msg \in [Worker -> Service \cup {None}]
    /\ endless \subseteq Service
    /\ looked \subseteq Worker
    /\ age \in [Worker -> 0 .. 2]
    /\ quiet \in [Worker -> BOOLEAN]
    /\ \A w \in Worker :
         /\ checkVersion[w] <= version[w]
         /\ version[w] % 2 = 1 <=> pc[w] \in {"handle", "done"}
         /\ destination[w] = IF pc[w] \in {"count", "handle"} THEN msg[w]
                             ELSE None

\* A handler that is still running at the second look is reported by it: the
\* watch misses no endless loop, however many messages went before it.
EndlessSeen ==
    [][\A w \in Worker :
         (w \in looked' \ looked /\ pc[w] = "handle" /\ age[w] >= 1)
            => msg[w] \in endless']_vars

\* A worker that has finished a message since the last look is not accused,
\* even though the words of its record are written one by one.
BusyNotAccused ==
    [][\A w \in Worker :
         (w \in looked' \ looked /\ ~quiet[w]) => endless' = endless]_vars
=============================================================================
