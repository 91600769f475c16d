---------------------------- MODULE HandleStorage ----------------------------
(***************************************************************************)
(* The handle table of skynet-src/skynet_handle.c, under its readers-      *)
(* writer lock (module RWLock), with the part of skynet_context_new that   *)
(* stores the handle it was given into the context.                        *)
(*                                                                         *)
(* A thread picks a task, takes the lock step by step, looks at the table, *)
(* changes it, and gives the lock back.  The look and the change are two   *)
(* actions, so that a lock that lets two writers in has its consequences.  *)
(* Reference counts are in module Dispatch: here a context is placed, up,  *)
(* and gone when its handle has been retired.                              *)
(***************************************************************************)
EXTENDS RWLock, Sequences, SequencesExt

CONSTANTS
    Context,          \* the contexts that will be registered
    Launcher,         \* the threads that launch services
    Name,             \* local names: integers, compared as strcmp does
    None,
    HandleMask,       \* HANDLE_MASK, 0xffffff in the code
    DefaultSlotSize,  \* DEFAULT_SLOT_SIZE, 4 in the code; a power of two
    StartIndex,       \* handle_index at the start: 1, or later in a long run
    MaxNames          \* bound of the model: names in the table

ASSUME HandleAssumption ==
    /\ Launcher \subseteq Thread
    /\ None \notin Context
    /\ Name \subseteq Int
    /\ DefaultSlotSize \in Nat \ {0}
    /\ HandleMask \in Nat \ {0} /\ DefaultSlotSize <= HandleMask + 1
    /\ StartIndex \in 1 .. HandleMask + 1

VARIABLES
    slotSize, slot, handleIndex,   \* struct handle_storage
    name,        \* the name table: a sequence of [name, handle]
    handle,      \* handle[c]: ctx->handle
    status,      \* status[c] \in {"new", "placed", "up", "gone"}
    task,        \* task[t]: what thread t is doing
    step,        \* and how far it is inside the lock
    pick,        \* pick[t]: the handle skynet_handle_register is to return
    found,       \* found[t]: the context skynet_handle_grab has returned
    failed       \* how the process has died, "no" while it lives

tableVars == <<slotSize, slot, handleIndex, name>>
vars == <<write, read, lpc, clear, slotSize, slot, handleIndex, name, handle, status,
          task, step, pick, found, failed>>

NoTask == [do |-> "idle", c |-> None, n |-> 0]

Init == /\ LockInit
        /\ slotSize = DefaultSlotSize
        /\ slot = [i \in 0 .. DefaultSlotSize - 1 |-> None]
        /\ handleIndex = StartIndex
        /\ name = <<>>
        /\ handle = [c \in Context |-> 0]
        /\ status = [c \in Context |-> "new"]
        /\ task = [t \in Thread |-> NoTask]
        /\ step = [t \in Thread |-> "look"]
        /\ pick = [t \in Thread |-> 0]
        /\ found = [t \in Thread |-> None]
        /\ failed = "no"

Hash(h) == h % slotSize

\* Inside the critical section of a task, at a given step.
Writing(t, do, s) == /\ failed = "no"
                     /\ lpc[t] = "writing"
                     /\ task[t].do = do
                     /\ step[t] = s
Reading(t, do) == /\ failed = "no"
                  /\ lpc[t] = "reading"
                  /\ task[t].do = do
                  /\ step[t] = "look"

StepTo(t, s) == step' = [step EXCEPT ![t] = s]

Begin(t, do, c, n) ==
    /\ failed = "no"
    /\ task[t] = NoTask
    /\ task' = [task EXCEPT ![t] = [do |-> do, c |-> c, n |-> n]]
    /\ StepTo(t, "look")

\* The task is over, and with it the thread's local variables.
Finish(t) == /\ task' = [task EXCEPT ![t] = NoTask]
             /\ StepTo(t, "look")
             /\ pick' = [pick EXCEPT ![t] = 0]
             /\ found' = [found EXCEPT ![t] = None]

-----------------------------------------------------------------------------
(***************************************************************************)
(* skynet_handle_register.                                                 *)
(***************************************************************************)
BeginRegister(t, c) ==
    /\ t \in Launcher
    /\ status[c] = "new"
    /\ \A u \in Thread : task[u].c # c
    /\ Begin(t, "register", c, 0)
    /\ BeginWrite(t)
    /\ UNCHANGED <<tableVars, handle, status, pick, found, failed>>

\* The handle the loop tries in its round i, from handle_index on; past the
\* mask it starts again at 1, since 0 is reserved.
Tried(i) == ((handleIndex + i - 1) % HandleMask) + 1

FreeTries == {i \in 0 .. slotSize - 1 : slot[Hash(Tried(i))] = None}

RegisterLook(t) ==
    /\ Writing(t, "register", "look")
    /\ IF FreeTries # {}
       THEN LET first == CHOOSE i \in FreeTries : \A j \in FreeTries : i <= j
            IN pick' = [pick EXCEPT ![t] = Tried(first)] /\ StepTo(t, "change")
       ELSE StepTo(t, "expand") /\ UNCHANGED pick
    /\ UNCHANGED <<lockVars, tableVars, handle, status, task, found, failed>>

RegisterChange(t) ==
    /\ Writing(t, "register", "change")
    /\ slot' = [slot EXCEPT ![Hash(pick[t])] = task[t].c]
    /\ handleIndex' = pick[t] + 1
    /\ status' = [status EXCEPT ![task[t].c] = "placed"]
    /\ StepTo(t, "assign")
    /\ WriteUnlock(t)
    /\ UNCHANGED <<slotSize, name, handle, task, pick, found, failed>>

\* The table doubles.  Every slot is taken to be occupied, and its context to
\* know its handle: the process dies of a null pointer when one is free, and
\* of assert(new_slot[hash] == NULL) when two contexts get the same slot.
NewHash(i) == handle[slot[i]] % (2 * slotSize)

\* Mutant: the contexts keep their slots.
MovedInPlace == [j \in 0 .. 2 * slotSize - 1 |-> IF j < slotSize THEN slot[j] ELSE None]

Moved == [j \in 0 .. 2 * slotSize - 1 |->
            LET from == {i \in 0 .. slotSize - 1 : NewHash(i) = j}
            IN IF from = {} THEN None ELSE slot[CHOOSE i \in from : TRUE]]

Expand(t) ==
    /\ Writing(t, "register", "expand")
    /\ IF 2 * slotSize - 1 > HandleMask
       THEN failed' = "mask" /\ UNCHANGED <<slotSize, slot, step>>
       ELSE IF \E i \in 0 .. slotSize - 1 : slot[i] = None
       THEN failed' = "null" /\ UNCHANGED <<slotSize, slot, step>>
       ELSE IF \E i, j \in 0 .. slotSize - 1 : i # j /\ NewHash(i) = NewHash(j)
       THEN failed' = "collision" /\ UNCHANGED <<slotSize, slot, step>>
       ELSE /\ slot' = Moved
            /\ slotSize' = 2 * slotSize
            /\ StepTo(t, "look")
            /\ UNCHANGED failed
    /\ UNCHANGED <<lockVars, handleIndex, name, handle, status, task, pick, found>>

\* ctx->handle = skynet_handle_register(ctx), after the lock is given back.
Assign(t) ==
    /\ failed = "no"
    /\ task[t].do = "register" /\ step[t] = "assign"
    /\ handle' = [handle EXCEPT ![task[t].c] = pick[t]]
    /\ status' = [status EXCEPT ![task[t].c] = "up"]
    /\ Finish(t)
    /\ UNCHANGED <<lockVars, tableVars, failed>>

-----------------------------------------------------------------------------
(***************************************************************************)
(* skynet_handle_retire of the handle of a context that was up.            *)
(***************************************************************************)
Known(c) == status[c] \in {"up", "gone"}

BeginRetire(t, c) ==
    /\ status[c] = "up"
    /\ Begin(t, "retire", c, 0)
    /\ BeginWrite(t)
    /\ UNCHANGED <<tableVars, handle, status, pick, found, failed>>

Occupant(h) == slot[Hash(h)]

\* Mutant: the slot is enough, the handle is not compared.
IsOccupied(h) == Occupant(h) # None

\* The context in the slot of h is the one that has the handle h.
IsRegistered(h) == Occupant(h) # None /\ handle[Occupant(h)] = h

RetireLook(t) ==
    /\ Writing(t, "retire", "look")
    /\ IF IsRegistered(handle[task[t].c])
       THEN StepTo(t, "change") /\ UNCHANGED <<lockVars, task, pick, found>>
       ELSE WriteUnlock(t) /\ Finish(t)
    /\ UNCHANGED <<tableVars, handle, status, failed>>

\* The slot is emptied and the names of the handle are squeezed out.
WithoutNamesOf(h) ==
    LET kept[i \in 0 .. Len(name)] ==
            IF i = 0 THEN <<>>
            ELSE IF name[i].handle = h THEN kept[i - 1]
            ELSE Append(kept[i - 1], name[i])
    IN kept[Len(name)]

RetireChange(t) ==
    /\ Writing(t, "retire", "change")
    /\ LET h == handle[task[t].c]
       IN /\ status' = [status EXCEPT ![Occupant(h)] = "gone"]
          /\ slot' = [slot EXCEPT ![Hash(h)] = None]
          /\ name' = WithoutNamesOf(h)
    /\ WriteUnlock(t)
    /\ Finish(t)
    /\ UNCHANGED <<slotSize, handleIndex, handle, failed>>

-----------------------------------------------------------------------------
(***************************************************************************)
(* skynet_handle_grab of the handle of the queue of c, which outlives c.   *)
(***************************************************************************)
BeginGrab(t, c) ==
    /\ Known(c)
    /\ Begin(t, "grab", c, 0)
    /\ BeginRead(t)
    /\ found' = [found EXCEPT ![t] = None]
    /\ UNCHANGED <<tableVars, handle, status, pick, failed>>

GrabLook(t) ==
    /\ Reading(t, "grab")
    /\ LET h == handle[task[t].c]
       IN found' = [found EXCEPT ![t] = IF IsRegistered(h) THEN Occupant(h) ELSE None]
    /\ StepTo(t, "done")
    /\ UNCHANGED <<lockVars, tableVars, handle, status, task, pick, failed>>

\* The reader leaves.
ReadDone(t) ==
    /\ failed = "no"
    /\ step[t] = "done"
    /\ ReadUnlock(t)
    /\ Finish(t)
    /\ UNCHANGED <<tableVars, handle, status, failed>>

-----------------------------------------------------------------------------
(***************************************************************************)
(* Names.  Both functions search the sorted table by bisection: Bisect is  *)
(* the interval (begin, end) that is left of 1 .. Len(name) when the       *)
(* search for n ends, begin > end when n is not there.                     *)
(***************************************************************************)
\* The search of both functions.
Bisect(n) ==
    LET left[i \in (1 .. Len(name) + 1) \X (0 .. Len(name))] ==
            LET mid == (i[1] + i[2]) \div 2
            IN IF i[1] > i[2] THEN i
               ELSE IF name[mid].name = n THEN <<mid, mid>>
               ELSE IF name[mid].name < n THEN left[<<mid + 1, i[2]>>]
               ELSE left[<<i[1], mid - 1>>]
    IN left[<<1, Len(name)>>]

\* skynet_handle_findname.
FindName(n) == LET b == Bisect(n)
               IN IF b[1] <= b[2] THEN name[b[1]].handle ELSE 0

\* _insert_name: nothing when the name is taken.
InsertName(n, h) == LET b == Bisect(n)
                    IN IF b[1] <= b[2] THEN name
                       ELSE InsertAt(name, b[1], [name |-> n, handle |-> h])

BeginName(t, c, n) ==
    /\ Known(c)
    /\ Len(name) < MaxNames
    /\ Begin(t, "name", c, n)
    /\ BeginWrite(t)
    /\ UNCHANGED <<tableVars, handle, status, pick, found, failed>>

\* skynet_handle_namehandle does not ask whether the handle is registered.
NameChange(t) ==
    /\ Writing(t, "name", "look")
    /\ name' = InsertName(task[t].n, handle[task[t].c])
    /\ WriteUnlock(t)
    /\ Finish(t)
    /\ UNCHANGED <<slotSize, slot, handleIndex, handle, status, failed>>

-----------------------------------------------------------------------------
\* A thread with a task goes on towards its lock.
Acquire(t) == /\ failed = "no"
              /\ LockStep(t)
              /\ UNCHANGED <<tableVars, handle, status, task, step, pick, found, failed>>

Next == \E t \in Thread :
          \/ Acquire(t)
          \/ \E c \in Context : \/ BeginRegister(t, c)
                                \/ BeginRetire(t, c)
                                \/ BeginGrab(t, c)
                                \/ \E n \in Name : BeginName(t, c, n)
          \/ RegisterLook(t) \/ RegisterChange(t) \/ Expand(t) \/ Assign(t)
          \/ RetireLook(t) \/ RetireChange(t)
          \/ GrabLook(t) \/ ReadDone(t)
          \/ NameChange(t)

Spec == Init /\ [][Next]_vars

-----------------------------------------------------------------------------
TypeOK ==
    /\ LockTypeOK
    /\ slotSize \in Nat \ {0}
    /\ slot \in [0 .. slotSize - 1 -> Context \cup {None}]
    /\ handleIndex \in 1 .. HandleMask + 1
    /\ \A i \in 1 .. Len(name) : name[i] \in [name : Name, handle : 1 .. HandleMask]
    /\ handle \in [Context -> 0 .. HandleMask]
    /\ status \in [Context -> {"new", "placed", "up", "gone"}]
    /\ pick \in [Thread -> 0 .. HandleMask]
    /\ found \in [Thread -> Context \cup {None}]
    /\ failed \in {"no", "mask", "null", "collision"}

\* assert(q == ctx->queue) in skynet_context_message_dispatch: whoever grabs
\* the handle of a queue gets the context of that queue, or none, because no
\* two contexts ever share a handle.
QueueMatchesContext ==
    \A t \in Thread : found[t] # None => found[t] = task[t].c

\* A context that is up can be grabbed: expansions of the table move it to
\* where its handle points, registrations and retirements of others leave it.
Findable == \A c \in Context : status[c] = "up" => slot[Hash(handle[c])] = c

\* assert(new_slot[hash] == NULL) in skynet_handle_register.
NoCollision == failed # "collision"

\* The table is expanded when it is full, and only then: reserving handle 0
\* keeps no slot from being found.
ExpandsOnlyWhenFull == failed # "null"

\* Names are sorted and unique, so that the bisection finds each of them.
NamesFound ==
    /\ \A i, j \in 1 .. Len(name) : i < j => name[i].name < name[j].name
    /\ \A i \in 1 .. Len(name) : FindName(name[i].name) = name[i].handle

\* Retiring one service takes neither the slot nor the names of another.
OthersKeepNames ==
    [][\A i \in 1 .. Len(name) :
         \/ \E j \in 1 .. Len(name') : name'[j] = name[i]
         \/ \E c \in Context : /\ handle[c] = name[i].handle
                               /\ status[c] # "gone" /\ status'[c] = "gone"]_vars

\* What is in the table is found, and stays until it is retired itself.
HandlesKept == [](TypeOK /\ Findable /\ NamesFound) /\ OthersKeepNames
=============================================================================
