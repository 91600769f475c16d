------------------------------- MODULE Timer -------------------------------
(***************************************************************************)
(* The timing wheel of skynet-src/skynet_timer.c.  Time is an unsigned     *)
(* word of NearShift + 4 * LevelShift bits (8 + 4 * 6 = 32 in the code):   *)
(* the constants scale the wheel down and keep its shape, so that the word *)
(* wraps around within a short run.  The timer thread advances the wheel;  *)
(* the other threads add timers whenever the lock is free, which includes  *)
(* the time in which the timer thread pushes expired events.               *)
(***************************************************************************)
EXTENDS Integers, Sequences, SequencesExt

CONSTANTS NearShift, LevelShift,   \* TIME_NEAR_SHIFT, TIME_LEVEL_SHIFT
          Delay,                   \* the delays asked for
          MaxTimers, MaxTicks      \* bounds of the model

Near     == 2 ^ NearShift
Level    == 2 ^ LevelShift
WordSize == 2 ^ (NearShift + 4 * LevelShift)

\* skynet_timeout takes an int: a delay is below half of the word.
TimerAssumption ==
    /\ NearShift \in Nat \ {0}
    /\ LevelShift \in Nat \ {0}
    /\ MaxTimers \in Nat /\ MaxTicks \in Nat
    /\ Delay \subseteq 1 .. WordSize \div 2 - 1

VARIABLES time,     \* T->time
          near,     \* T->near[i]: timers due in the current lap of the wheel
          level,    \* T->t[i][j]: timers due later
          pc,       \* the timer thread: where it is in timer_update
          batch,    \* the list dispatch_list walks, unlocked
          pending,  \* timer_update calls skynet_updatetime still owes
          ticks,    \* history: how often the time has advanced
          due,      \* history: due[i], the tick at which timer i must fire
          fired     \* history: the timers that have fired, in order

wheel == <<time, near, level>>
vars  == <<time, near, level, pc, batch, pending, ticks, due, fired>>

\* A timer: its name and the word it expires at.
Node == [id : 1 .. MaxTimers, expire : 0 .. WordSize - 1]

Init == /\ time = 0
        /\ near = [i \in 0 .. Near - 1 |-> <<>>]
        /\ level = [i \in 0 .. 3 |-> [j \in 0 .. Level - 1 |-> <<>>]]
        /\ pc = "idle"
        /\ batch = <<>>
        /\ pending = 0
        /\ ticks = 0
        /\ due = <<>>
        /\ fired = <<>>

-----------------------------------------------------------------------------
\* x and y agree above the lowest bits of a word: (x|(m-1)) == (y|(m-1)).
SameAbove(x, y, m) == x \div m = y \div m

\* The width of the part of the wheel below level i.
Span(i) == 2 ^ (NearShift + i * LevelShift)

\* The lowest level whose lap holds both now and the time of expiry.
LevelOf(expire, now) ==
    LET fits == {i \in 0 .. 2 : SameAbove(expire, now, Span(i + 1))}
    IN IF fits = {} THEN 3 ELSE CHOOSE i \in fits : \A j \in fits : i <= j

\* add_node, on a wheel w = [near, level] at time now.
AddNode(w, n, now) ==
    IF SameAbove(n.expire, now, Near)
    THEN [w EXCEPT !.near[n.expire % Near] = Append(@, n)]
    ELSE LET i == LevelOf(n.expire, now)
         IN [w EXCEPT !.level[i][(n.expire \div Span(i)) % Level] = Append(@, n)]

\* move_list: the timers of a slot are added again, in their order.
MoveList(w, i, j, now) ==
    FoldLeft(LAMBDA v, n : AddNode(v, n, now),
             [w EXCEPT !.level[i][j] = <<>>],
             w.level[i][j])

\* Digit i of the time above the near part: the slot of level i.
Digit(now, i) == (now \div Span(i)) % Level

\* The level whose digit has just turned to something else than 0, the digits
\* below having turned to 0.
Turned(now) == {i \in 0 .. 3 : now % Span(i) = 0 /\ Digit(now, i) # 0}

\* Mutant: the loop over the levels ends after the lowest.
CascadeLowest(w, now) ==
    IF now = 0 THEN MoveList(w, 3, 0, now)
    ELSE IF 0 \in Turned(now) THEN MoveList(w, 0, Digit(now, 0), now) ELSE w

\* timer_shift at the new time now: the level that has turned gives up the
\* slot of its digit; at the wrap of the word the top level gives up slot 0.
Cascade(w, now) ==
    IF now = 0 THEN MoveList(w, 3, 0, now)
    ELSE IF Turned(now) = {} THEN w
    ELSE LET i == CHOOSE i \in Turned(now) : TRUE
         IN MoveList(w, i, Digit(now, i), now)

-----------------------------------------------------------------------------
\* The lock is free: the timer thread is outside timer_update, or it walks a
\* list of expired timers (what comes after its last event comes before it).
Unlocked == pc = "idle" \/ batch # <<>>

\* timer_add by some thread.
TimerAdd(d) ==
    /\ Unlocked
    /\ Len(due) < MaxTimers
    /\ LET n == [id |-> Len(due) + 1, expire |-> (time + d) % WordSize]
           w == AddNode([near |-> near, level |-> level], n, time)
       IN near' = w.near /\ level' = w.level
    /\ due' = Append(due, ticks + d)
    /\ UNCHANGED <<time, pc, batch, pending, ticks, fired>>

\* skynet_updatetime finds that the clock has advanced by d.
Advance(d) ==
    /\ pc = "idle"
    /\ pending = 0
    /\ ticks + d <= MaxTicks
    /\ pending' = d
    /\ UNCHANGED <<wheel, pc, batch, ticks, due, fired>>

\* timer_update begins: the lock is taken.
Update ==
    /\ pc = "idle"
    /\ pending > 0
    /\ pc' = "before"
    /\ UNCHANGED <<wheel, batch, pending, ticks, due, fired>>

Expired == near[time % Near]

\* timer_execute: take the list of the current slot and unlock.
TakeExpired ==
    /\ pc \in {"before", "after"}
    /\ batch = <<>>
    /\ Expired # <<>>
    /\ batch' = Expired
    /\ near' = [near EXCEPT ![time % Near] = <<>>]
    /\ UNCHANGED <<time, level, pc, pending, ticks, due, fired>>

\* dispatch_list: one event is pushed to its service.
Fire ==
    /\ batch # <<>>
    /\ fired' = Append(fired, [id |-> Head(batch).id, tick |-> ticks])
    /\ batch' = Tail(batch)
    /\ UNCHANGED <<wheel, pc, pending, ticks, due>>

\* The time is a word.
NextTime == (time + 1) % WordSize

\* Nothing left in the current slot: advance.
Shift ==
    /\ pc = "before"
    /\ batch = <<>>
    /\ Expired = <<>>
    /\ time' = NextTime
    /\ LET w == Cascade([near |-> near, level |-> level], time')
       IN near' = w.near /\ level' = w.level
    /\ ticks' = ticks + 1
    /\ pc' = "after"
    /\ UNCHANGED <<batch, pending, due, fired>>

\* Nothing left in the new slot either: the lock is given back.
Updated ==
    /\ pc = "after"
    /\ batch = <<>>
    /\ Expired = <<>>
    /\ pc' = "idle"
    /\ pending' = pending - 1
    /\ UNCHANGED <<wheel, batch, ticks, due, fired>>

Next == \/ \E d \in Delay : TimerAdd(d)
        \/ \E d \in {1, 2} : Advance(d)
        \/ Update \/ TakeExpired \/ Fire \/ Shift \/ Updated

Spec == Init /\ [][Next]_vars

-----------------------------------------------------------------------------
TypeOK ==
    /\ time \in 0 .. WordSize - 1
    /\ near \in [0 .. Near - 1 -> Seq(Node)]
    /\ level \in [0 .. 3 -> [0 .. Level - 1 -> Seq(Node)]]
    /\ pc \in {"idle", "before", "after"}
    /\ batch \in Seq(Node)
    /\ pending \in 0 .. 2
    /\ ticks \in 0 .. MaxTicks
    /\ due \in Seq(Nat)
    /\ fired \in Seq([id : 1 .. MaxTimers, tick : 0 .. MaxTicks])

HasFired(i) == \E k \in 1 .. Len(fired) : fired[k].id = i

\* A timer fires in the tick it asked for, not before and not after, however
\* often it has cascaded and whether or not the word has wrapped since.
OnTime == \A k \in 1 .. Len(fired) : fired[k].tick = due[fired[k].id]

\* No timer is left behind: when a tick is over, all timers due are fired.
NoneLate == pc = "idle" => \A i \in 1 .. Len(due) : due[i] <= ticks => HasFired(i)

\* Timers due at the same time fire in the order in which they were added,
\* although they may have come to their slot through different levels.
InOrderAdded ==
    \A j, k \in 1 .. Len(fired) :
        j < k /\ fired[j].tick = fired[k].tick => fired[j].id < fired[k].id
=============================================================================
