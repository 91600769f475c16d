------------------------------- MODULE SocketRead --------------------------------
\* One connection of a service (lualib/skynet/socket.lua): messages of the
\* socket thread fill its buffer, a coroutine reads from it, another may close
\* it.  A full buffer pauses the socket, and who waits for more resumes it.
EXTENDS Integers, Sequences, FiniteSets, FiniteSetsExt

CONSTANTS
    BUFFER_LIMIT, MaxBytes, MaxChunk,   \* bytes; MaxBytes bounds what the peer sends
    Newline,                            \* positions of its line ends
    Sizes, Lines, All                   \* what the reader asks: sizes, 0 for what there is, lines, or all

Nil == -3
SocketReadAssumption ==
    /\ BUFFER_LIMIT \in Nat /\ MaxBytes \in Nat /\ MaxChunk \in Nat \ {0}
    /\ Newline \subseteq 1..MaxBytes /\ Sizes \subseteq Nat /\ {Lines, All} \subseteq BOOLEAN

Ops == Sizes \cup (IF Lines THEN {-1} ELSE {}) \cup (IF All THEN {-2} ELSE {})

VARIABLES
    sent, kernel,       \* bytes read from the peer; the socket: "open", "paused", "closed"
    mqueue,             \* messages to the service
    buffer, got,        \* bytes pushed to the buffer, bytes popped from it
    s,                  \* connected, read_required, co, pause, closing, pool
    reader, op, resumed,\* its place, its call, whether its wait began with a resume
    closer, ready,      \* place of the closer; coroutines that are woken
    ended               \* calls of the reader that said there is no more: connected or not

thread == <<sent, kernel>>
data == <<buffer, got>>
read == <<reader, op, resumed, ended>>
vars == <<thread, mqueue, data, s, read, closer, ready>>

Init ==
    /\ sent = 0 /\ kernel = "open" /\ mqueue = <<>> /\ buffer = 0 /\ got = 0
    /\ s = [connected |-> TRUE, read_required |-> Nil, co |-> "none", pause |-> "nil", closing |-> FALSE, pool |-> TRUE]
    /\ reader = "idle" /\ op = 0 /\ resumed = FALSE /\ closer = "idle" /\ ready = {} /\ ended = {}

sz == buffer - got

------------------------------------------------------------------------------
\* The socket thread.

Receive(k) ==
    /\ kernel = "open" /\ sent + k <= MaxBytes /\ sent' = sent + k
    /\ mqueue' = Append(mqueue, [t |-> "data", n |-> k])
    /\ UNCHANGED <<kernel, data, s, read, closer, ready>>
\* The peer closes, which is not seen while the socket is paused, or the connection fails.
PeerClose ==
    /\ kernel # "closed" /\ kernel' = "closed" /\ mqueue' = Append(mqueue, [t |-> "close", n |-> 0])
    /\ UNCHANGED <<sent, data, s, read, closer, ready>>

------------------------------------------------------------------------------
\* The service.

wakeup(x) == /\ ready' = IF x.co = "none" THEN ready ELSE ready \cup {x.co}
             /\ s' = [x EXCEPT !.co = "none"]

\* pause_socket, then the wake-up that may follow it.  A pause yields.
Paused(x, wake) ==
    IF sz' > BUFFER_LIMIT /\ x.pause = "nil"
    THEN /\ kernel' = IF kernel = "open" THEN "paused" ELSE kernel
         /\ s' = [x EXCEPT !.pause = "true"]
         /\ mqueue' = IF wake THEN Append(Tail(mqueue), [t |-> "yield", n |-> 0]) ELSE Tail(mqueue)
         /\ UNCHANGED ready
    ELSE /\ mqueue' = Tail(mqueue) /\ UNCHANGED kernel
         /\ IF wake THEN wakeup(x) ELSE s' = x /\ UNCHANGED ready

\* A line end is in the buffer.
HasLine(b) == \E p \in Newline : got < p /\ p <= b
LineEnd(b) == Min({p \in Newline : got < p /\ p <= b})

\* socket_message[1].
Data(n) ==
    /\ buffer' = buffer + n /\ got' = got
    /\ LET rr == s.read_required
       IN IF (rr >= 0 /\ sz' >= rr) \/ (rr = -1 /\ HasLine(buffer')) THEN Paused([s EXCEPT !.read_required = Nil], TRUE)
          ELSE IF rr >= -1 THEN mqueue' = Tail(mqueue) /\ UNCHANGED <<kernel, s, ready>>
          ELSE Paused(s, FALSE)

Dispatch ==
    /\ mqueue # <<>> /\ ready = {}
    /\ LET m == Head(mqueue)
       IN \/ (m.t = "data" /\ s.pool /\ Data(m.n))
          \/ /\ m.t = "data" /\ ~s.pool
             /\ mqueue' = Tail(mqueue) /\ UNCHANGED <<kernel, data, s, ready>>
          \/ /\ m.t = "close" /\ s.pool /\ wakeup([s EXCEPT !.connected = FALSE])
             /\ mqueue' = Tail(mqueue) /\ UNCHANGED <<kernel, data>>
          \/ /\ m.t = "close" /\ ~s.pool
             /\ mqueue' = Tail(mqueue) /\ UNCHANGED <<kernel, data, s, ready>>
          \/ (m.t = "yield" /\ wakeup(s) /\ mqueue' = Tail(mqueue) /\ UNCHANGED <<kernel, data>>)
    /\ UNCHANGED <<sent, read, closer>>

------------------------------------------------------------------------------
\* The coroutine that reads.

\* Mutant: a paused socket is not resumed.
SuspendPaused ==
    /\ s' = [s EXCEPT !.co = "reader", !.read_required = op'] /\ reader' = "wait"
    /\ resumed' = (s.pause = "true") /\ UNCHANGED <<kernel, got, ended>>
\* suspend, for a call that needs more.
Suspend ==
    /\ s' = [s EXCEPT !.co = "reader", !.read_required = op'] /\ reader' = "wait"
    /\ resumed' = (s.pause = "true")
    /\ kernel' = IF s.pause = "true" /\ kernel = "paused" THEN "open" ELSE kernel
    /\ UNCHANGED <<got, ended>>

\* What a call returns: what it asked for, or the rest, and that there is no more.
Take(n) == got' = got + n /\ UNCHANGED ended
Rest == got' = buffer /\ ended' = ended \cup {s.connected}
Enough(o) == (o > 0 /\ sz >= o) \/ (o = 0 /\ sz > 0) \/ (o = -1 /\ HasLine(buffer))
Give(o) == Take(IF o > 0 THEN o ELSE IF o = 0 THEN sz ELSE LineEnd(buffer) - got)

\* read, readline, readall.  They fail when a coroutine that closes has the wait.
Call(o) ==
    /\ reader = "idle" /\ s.pool /\ ready = {} /\ op' = o
    /\ IF Enough(o) THEN Give(o) /\ UNCHANGED <<kernel, s, reader, resumed>>
       ELSE IF ~s.connected THEN Rest /\ reader' = "end" /\ UNCHANGED <<kernel, s, resumed>>
       ELSE IF s.co # "none" THEN reader' = "end" /\ UNCHANGED <<kernel, got, ended, s, resumed>>
       ELSE Suspend
    /\ UNCHANGED <<sent, mqueue, buffer, closer, ready>>

\* It goes on after suspend, and wakes who closes.
Resume ==
    /\ "reader" \in ready
    /\ ready' = (ready \ {"reader"}) \cup (IF s.closing THEN {"closer"} ELSE {})
    /\ s' = [s EXCEPT !.pause = IF resumed THEN "nil" ELSE @] /\ resumed' = FALSE
    /\ IF op # -2 /\ Enough(op) THEN Give(op) /\ reader' = "idle" ELSE Rest /\ reader' = "end"
    /\ UNCHANGED <<thread, mqueue, buffer, op, closer>>

------------------------------------------------------------------------------
\* The coroutine that closes.

Close ==
    /\ closer = "idle" /\ s.pool /\ ready = {}
    /\ kernel' = "closed" /\ mqueue' = IF kernel = "closed" THEN mqueue ELSE Append(mqueue, [t |-> "close", n |-> 0])
    /\ IF ~s.connected THEN closer' = "done" /\ s' = [s EXCEPT !.pool = FALSE]
       ELSE IF s.co # "none" THEN closer' = "closing" /\ s' = [s EXCEPT !.pause = "false", !.closing = TRUE]
       ELSE closer' = "suspended" /\ s' = [s EXCEPT !.pause = "false", !.co = "closer"]
    /\ UNCHANGED <<sent, data, read, ready>>
Closed ==
    /\ "closer" \in ready /\ ready' = ready \ {"closer"} /\ closer' = "done"
    /\ s' = [s EXCEPT !.connected = FALSE, !.pool = FALSE]
    /\ UNCHANGED <<thread, mqueue, data, read>>

Next ==
    \/ \E k \in 1..MaxChunk : Receive(k)
    \/ PeerClose \/ Dispatch \/ Resume \/ Close \/ Closed
    \/ \E o \in Ops : Call(o)
Spec == Init /\ [][Next]_vars
\* The peer sends or closes, messages are handled, coroutines run.
FairSpec == Spec /\ WF_vars(Dispatch) /\ WF_vars(Resume) /\ WF_vars(Closed) /\ WF_vars(kernel = "open" /\ PeerClose)

------------------------------------------------------------------------------
\* Properties.

\* A full buffer that nobody waits to have filled stops the socket.
FullIsPaused ==
    sz > BUFFER_LIMIT /\ s.pool /\ s.connected /\ reader = "idle" /\ closer = "idle" /\ mqueue = <<>>
        => kernel # "open"

\* A socket is paused only when the service knows, so that somebody resumes it.
PauseKnown == kernel = "paused" => s.pause = "true"

\* The reader is told of the end only when the connection has ended.
EndIsTrue == TRUE \notin ended

\* Who waits for data gets it or is told of the end.
ReaderServed == reader = "wait" ~> reader # "wait"
\* Who closes a socket goes on.
CloseReturns == closer \in {"closing", "suspended"} ~> closer = "done"
==================================================================================
