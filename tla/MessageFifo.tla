---------------------------- MODULE MessageFifo ----------------------------
(***************************************************************************)
(* What a message queue of skynet-src/skynet_mq.c promises to the code     *)
(* around it: an unbounded first-in first-out queue that also remembers    *)
(* whether somebody is already bound to look at it (scheduled).  A push    *)
(* schedules the queue; only a pop that finds it empty unschedules it.     *)
(***************************************************************************)
EXTENDS Sequences

CONSTANTS Msg,      \* the messages
          None      \* what a pop of an empty queue hands over

VARIABLES items,      \* the messages in the queue, oldest first
          scheduled,  \* the queue is in the global queue or being dispatched
          got         \* what the last pop handed to the dispatcher

fifoVars == <<items, scheduled, got>>

FifoInit == /\ items = <<>>
            /\ scheduled = TRUE
            /\ got = None

Put(m) == /\ items' = Append(items, m)
          /\ scheduled' = TRUE
          /\ UNCHANGED got

Take == /\ scheduled
        /\ items # <<>>
        /\ got' = Head(items)
        /\ items' = Tail(items)
        /\ UNCHANGED scheduled

TakeNothing == /\ scheduled
               /\ items = <<>>
               /\ got' = None
               /\ scheduled' = FALSE
               /\ UNCHANGED items

FifoNext == \/ \E m \in Msg : Put(m)
            \/ Take
            \/ TakeNothing

FifoSpec == FifoInit /\ [][FifoNext]_fifoVars
=============================================================================
