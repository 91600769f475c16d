------------------------------- MODULE Actor -------------------------------
(***************************************************************************)
(* What the scheduler of skynet promises to a service: it is an actor.     *)
(* Its messages are handled one at a time, in the order in which they came *)
(* to its mailbox and each at most once.  Messages may still come in while *)
(* the service is being stopped; only when nobody can reach it any more    *)
(* are the rest drained, one by one, back to their senders.                *)
(***************************************************************************)
EXTENDS Sequences

CONSTANTS Service, Message

VARIABLES mailbox,  \* [Service -> Seq(Message)]
          busy,     \* [Service -> BOOLEAN], a handler of the service is running
          status    \* [Service -> "absent", "running", "stopped", "drained"]

actorVars == <<mailbox, busy, status>>

ActorInit == /\ mailbox = [s \in Service |-> <<>>]
             /\ busy = [s \in Service |-> FALSE]
             /\ status \in [Service -> {"absent", "running"}]

Create(s) == /\ status[s] = "absent"
             /\ status' = [status EXCEPT ![s] = "running"]
             /\ UNCHANGED <<mailbox, busy>>

Post(s, m) == /\ status[s] \in {"running", "stopped"}
              /\ mailbox' = [mailbox EXCEPT ![s] = Append(@, m)]
              /\ UNCHANGED <<busy, status>>

Start(s) == /\ status[s] \in {"running", "stopped"}
            /\ ~busy[s]
            /\ mailbox[s] # <<>>
            /\ mailbox' = [mailbox EXCEPT ![s] = Tail(@)]
            /\ busy' = [busy EXCEPT ![s] = TRUE]
            /\ UNCHANGED status

Finish(s) == /\ busy[s]
             /\ busy' = [busy EXCEPT ![s] = FALSE]
             /\ UNCHANGED <<mailbox, status>>

Stop(s) == /\ status[s] = "running"
           /\ status' = [status EXCEPT ![s] = "stopped"]
           /\ UNCHANGED <<mailbox, busy>>

Drain(s) == /\ status[s] = "stopped"
            /\ ~busy[s]
            /\ status' = [status EXCEPT ![s] = "drained"]
            /\ UNCHANGED <<mailbox, busy>>

GiveBack(s) == /\ status[s] = "drained"
               /\ mailbox[s] # <<>>
               /\ mailbox' = [mailbox EXCEPT ![s] = Tail(@)]
               /\ UNCHANGED <<busy, status>>

ActorNext ==
    \E s \in Service : \/ Create(s)
                       \/ \E m \in Message : Post(s, m)
                       \/ Start(s)
                       \/ Finish(s)
                       \/ Stop(s)
                       \/ Drain(s)
                       \/ GiveBack(s)

ActorSpec == ActorInit /\ [][ActorNext]_actorVars
=============================================================================
