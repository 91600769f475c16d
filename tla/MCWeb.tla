-------------------------------- MODULE MCWeb ---------------------------------
\* The gates, the servers on top of them and the caches of the web framework, for
\* TLC.  They share no state: the first state picks one, and in that behaviour
\* only its steps are taken.
EXTENDS Integers, Sequences, FiniteSets

CONSTANTS
    Parts,              \* the components of a run
    None,
    MaxPiece,           \* bound on the bytes of one piece
    MsgSession, MsgLinks, KeptMsg, MaxAsked, Session, Links, KeptLate, MaxReq, MaxRun,
    Visitor, User, instance, multilogin,
    IP, Slaves, kMCountPerIpPerSecond, kMCountPerIpPerMinute, MaxDelta, SecondsPerMinute,
    MaxVisits, MaxSeconds, KickVisits, KickSeconds,
    Key, Value, Obj, Timeout, kMDoSaveInterval, kMTmpSaveIntervel, kMMaxCacheCap, MaxTime, MaxCalls,
    Caller, Saver, Reader, Lifetime, kMCacheInterval, MaxCount, MaxReads,
    Elem, Removable

VARIABLE part

VARIABLES sock, at, uncomplete, queue, piece, phase, connection, client_number, got
gateserver_vars == <<sock, at, uncomplete, queue, piece, phase, connection, client_number, got>>

VARIABLES gate_sock, gate_at, id, hash, conn, busy, broker, out, reports, forwarded
gate_vars == <<gate_sock, gate_at, id, hash, conn, busy, broker, out, reports, forwarded>>

VARIABLES u, p, msg_connection, msg_sock, cur, asked, pending, msg_last, reqs, resps, order, wrong
msg_vars == <<u, p, msg_connection, msg_sock, cur, asked, pending, msg_last, reqs, resps, order,
              wrong>>

VARIABLES pc, uid, slave, fd, balance, user_login, code
login_vars == <<pc, uid, slave, fd, balance, user_login, code>>

VARIABLES now, visits, _clientsmap, _ip2slave, _balanceIdx, _blacklists, open, handled, entered,
          refused
serverd_vars == <<now, visits, _clientsmap, _ip2slave, _balanceIdx, _blacklists, open, handled,
                  entered, refused>>

VARIABLES cache_now, calls, datas, obj, cache_queue, save_map, timer, cache_pc, op, todo, data,
          dbq, rows, ids, last, read, failed
cache_vars == <<cache_now, calls, datas, obj, cache_queue, save_map, timer, cache_pc, op, todo,
                data, dbq, rows, ids, last, read, failed>>

VARIABLES front_now, front_calls, _caches, _queue, front_pc, front_op, requests, cached,
          front_last, front_read
front_vars == <<front_now, front_calls, _caches, _queue, front_pc, front_op, requests, cached,
                front_last, front_read>>

VARIABLES q, polled     \* a priority queue, and the element polled last with what was there
priority_vars == <<q, polled>>

web == <<part, gateserver_vars, gate_vars, msg_vars, login_vars, serverd_vars, cache_vars,
         front_vars, priority_vars>>

------------------------------------------------------------------------------
\* Packets of no byte, of some, and several in one piece.
InLua == INSTANCE GateServer WITH
    Conn <- {1, 2}, Packets <- [c \in {1, 2} |-> IF c = 1 THEN <<0, 3, 1, 0, 1>> ELSE <<2>>],
    MaxClient <- 2, QueueSize <- 2, MaxMore <- 15, BytesAfterError <- FALSE
\* Ids 1 and 5 have one hash, all three one slot to begin with; a long stream.
InC == INSTANCE Gate WITH
    Conn <- {1, 3, 5},
    Packets <- [c \in {1, 3, 5} |-> IF c = 1 THEN <<2>> ELSE IF c = 5 THEN <<1>> ELSE <<>>],
    max_connection <- 2, HashCap <- 4, header_size <- 2, MaxMore <- MaxPiece,
    sock <- gate_sock, at <- gate_at
Long == INSTANCE Gate WITH
    Conn <- {1}, Packets <- [c \in {1} |-> <<2, 0, 1, 3>>], max_connection <- 1, HashCap <- 4,
    header_size <- 4, MaxMore <- 22, sock <- gate_sock, at <- gate_at

\* Handlers that answer at once, and the connections of Links with handlers that
\* yield.
Msg == INSTANCE MsgServer WITH
    Fd <- MsgLinks, Session <- MsgSession, expired_number <- KeptMsg, Yields <- FALSE, Orderly <- TRUE,
    MaxReq <- MaxAsked, MaxRun <- MaxAsked + 1,
    connection <- msg_connection, sock <- msg_sock, last <- msg_last
Late == INSTANCE MsgServer WITH
    Fd <- Links, expired_number <- KeptLate, Yields <- TRUE, Orderly <- TRUE,
    connection <- msg_connection, sock <- msg_sock, last <- msg_last

Login == INSTANCE LoginServer WITH Client <- Visitor

\* For two periods of the count, and for one with kicks.
Visit == INSTANCE Serverd WITH Kicks <- FALSE, MaxTime <- MaxSeconds
Kick == INSTANCE Serverd WITH Kicks <- TRUE, MaxTime <- KickSeconds, MaxVisits <- KickVisits

Back == INSTANCE Cache WITH
    Client <- Caller, Stored <- FALSE, now <- cache_now, queue <- cache_queue, pc <- cache_pc
Front == INSTANCE FrontCache WITH
    Client <- Reader, Timeout <- {0, Lifetime}, MaxTime <- 4, MaxCalls <- MaxReads,
    now <- front_now, calls <- front_calls, pc <- front_pc, op <- front_op, last <- front_last,
    read <- front_read

Less(x, y) == x < y
PQ == INSTANCE PriorityQueue WITH Before <- Less

ASSUME GateAssumptions ==
    InLua!GateServerAssumption /\ InC!GateAssumption /\ Long!GateAssumption
ASSUME ServerAssumptions ==
    /\ Msg!MsgServerAssumption /\ Late!MsgServerAssumption
    /\ Login!LoginAssumption /\ Visit!ServerdAssumption
ASSUME CacheAssumptions == Back!CacheAssumption /\ Front!FrontCacheAssumption

------------------------------------------------------------------------------
\* A queue of numbers, worked on in every order; remove is called for few.
NoPoll == [top |-> 0, from |-> {0}]
Offer(e) == ~PQ!In(q, e) /\ q' = PQ!offer(q, e) /\ polled' = NoPoll
Poll == PQ!count(q) > 0 /\ q' = PQ!poll(q) /\ polled' = [top |-> PQ!peek(q), from |-> DOMAIN q.map]
Remove(e) == PQ!In(q, e) /\ q' = PQ!remove(q, e) /\ polled' = NoPoll

WebInit ==
    /\ part \in Parts
    /\ InLua!Init /\ Login!Init /\ Visit!Init /\ Back!Init /\ Front!Init
    /\ IF part = "msg" THEN Msg!Init ELSE Late!Init
    /\ IF part = "long" THEN Long!Init ELSE InC!Init
    /\ part # "login" => uid = [d \in Visitor |-> CHOOSE v \in User : TRUE]
    /\ q = PQ!Empty /\ polled = NoPoll

\* A step of component p, in which the others stay.
In(c) ==
    /\ part = c /\ UNCHANGED part
    /\ c # "gateserver" => UNCHANGED gateserver_vars
    /\ c \notin {"gate", "long"} => UNCHANGED gate_vars
    /\ c \notin {"msg", "late"} => UNCHANGED msg_vars
    /\ c # "login" => UNCHANGED login_vars
    /\ c \notin {"visit", "kick"} => UNCHANGED serverd_vars
    /\ c # "back" => UNCHANGED cache_vars
    /\ c # "front" => UNCHANGED front_vars
    /\ c \notin {"priority", "map"} => UNCHANGED priority_vars

WebNext ==
    \/ In("gateserver") /\ InLua!Next
    \/ In("gate") /\ InC!Next
    \/ In("long") /\ Long!Next
    \/ In("msg") /\ Msg!Next
    \/ In("late") /\ Late!Next
    \/ In("login") /\ Login!Next
    \/ In("visit") /\ Visit!Next
    \/ In("kick") /\ Kick!Next
    \/ In("back") /\ Back!Next
    \/ In("front") /\ Front!Next
    \/ \E e \in Elem : In("priority") /\ Offer(e)
    \/ In("priority") /\ Poll
    \/ \E e \in Removable : In("map") /\ (Offer(e) \/ Remove(e))
    \/ In("map") /\ Poll

WebSpec == WebInit /\ [][WebNext]_web

\* The fairness of each component (see there).
WebFairSpec ==
    /\ WebSpec
    /\ \A d \in Visitor : WF_web(In("login") /\ Login!LoggedIn(d))
    /\ WF_web(In("late") /\ Late!Connect) /\ WF_web(In("late") /\ Late!Answered)
    /\ \A k \in 1..MaxRun : WF_web(In("late") /\ Late!Handled(k))
    /\ \A f \in Links : WF_web(In("late") /\ Late!Auth(f)) /\ WF_web(In("late") /\ Late!Request(f))
    /\ WF_web(In("back") /\ Back!Answer) /\ \A s \in Saver : WF_web(In("back") /\ Back!SaverStep(s))

------------------------------------------------------------------------------
\* Properties.

\* Packets are handed on as they were sent, whole, in order and once, to the
\* agent of their connection, in whatever pieces they arrive (netpack.c and
\* gateserver.lua; databuffer.h, hashid.h and service_gate.c).
Reassembled ==
    /\ InLua!Reassembled /\ InLua!NothingKept
    /\ part # "long" => InC!Reassembled /\ InC!Found /\ InC!OwnAgent
    /\ part = "long" => Long!Reassembled

\* A request that is sent again over a new connection is not handled again, its
\* answer is kept for that; and nobody logs in twice at once (msgserver.lua,
\* loginserver.lua).
NothingTwice ==
    /\ part = "msg" => Msg!HandledOnce /\ Msg!IpKnown
    /\ part = "late" => Late!CacheKept
    /\ Login!OneLogin /\ Login!Balanced

\* The visits of an address are accounted for, are at one agent, and are let in
\* one too many in their first second at most (meiru/serverd.lua).
Accounts ==
    /\ part = "visit" => Visit!Accounts /\ Visit!FirstSecond
    /\ part = "kick" => Kick!OneSlave /\ Kick!FirstSecond

\* What was set is read, until its deadline, and is in the database in the end,
\* in one row; what the agents read is at most an interval behind (model.lua of
\* meiru/cached, and meiru/lib/cached.lua).
CachesTrue ==
    /\ Back!TypeOK /\ Back!WrittenBack /\ Back!ReadsLast /\ Back!NotLate /\ Back!SavesOne
    /\ Front!TypeOK /\ Front!BoundedlyStale

\* What is polled comes first; with removals the index of each element stays
\* exact, which remove relies on (pqueue.lua).
FirstPolled ==
    /\ part = "priority" => \A e \in polled.from : polled.top <= e
    /\ \A i \in DOMAIN q.array : PQ!In(q, q.array[i]) /\ q.map[q.array[i]] = i - 1
    /\ Cardinality(DOMAIN q.map) = Len(q.array)

\* Nobody stays locked out after a login, a request is answered over one
\* connection or the next, and every call and every save of the cache ends
\* (user_login, do_request, model.lua of meiru/cached).
Served == Login!Unlocks /\ Late!Served /\ Back!CallsEnd
==============================================================================
