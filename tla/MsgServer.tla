------------------------------- MODULE MsgServer --------------------------------
\* One user of a message server (lualib/snax/msgserver.lua): he connects, asks
\* under session numbers, connects again when a connection is lost, and asks
\* again what has not been answered.  Responses are kept for that.
EXTENDS Integers, Sequences, FiniteSets, SequencesExt

CONSTANTS
    Fd,                 \* connections, used in order, 1 .. n
    Session,            \* session numbers of the client
    expired_number,     \* conf.expired_number
    MaxReq, MaxRun,     \* bounds on the requests of the client and their handlings
    Yields,             \* whether request_handler yields
    Orderly             \* whether the end of a connection is known before the next begins

MsgServerAssumption ==
    /\ expired_number \in Nat \ {0} /\ Yields \in BOOLEAN /\ Orderly \in BOOLEAN

VARIABLES
    u,                  \* the user: version, index, fd (0: nil), response (of each session)
    p,                  \* the entries of response that were made: request, fd, done, version, index
    connection,         \* of each fd whether the user is known by it
    sock,               \* of each fd whether the server has it open
    cur, asked, pending, last,  \* client: its fd, requests, unanswered ones, where a session was answered
    reqs, resps,        \* on the way
    order, wrong        \* entries of the last expired_number sends; answers to other requests

server == <<u, p, connection, sock>>
client == <<cur, asked, pending, last>>
vars == <<server, client, reqs, resps, order, wrong>>

Init ==
    /\ u = [version |-> 0, index |-> 0, fd |-> 0, response |-> [s \in Session |-> 0]] /\ p = <<>>
    /\ connection = [f \in Fd |-> FALSE] /\ sock = [f \in Fd |-> "none"]
    /\ cur = 0 /\ asked = 0 /\ pending = [s \in Session |-> 0] /\ last = [s \in Session |-> 0]
    /\ reqs = [f \in Fd |-> <<>>] /\ resps = [f \in Fd |-> <<>>] /\ order = <<>> /\ wrong = {}

------------------------------------------------------------------------------
\* The client.

\* He gives up his connection, if he has one, and makes the next.
Connect ==
    /\ cur + 1 \in Fd /\ (Orderly /\ cur # 0 => sock[cur] = "closed")
    /\ cur' = cur + 1 /\ sock' = [sock EXCEPT ![cur + 1] = "handshake"]
    /\ UNCHANGED <<u, p, connection, asked, pending, last, reqs, resps, order, wrong>>

\* A session is used again when its request was answered on this connection.
Ask(s) ==
    /\ cur # 0 /\ sock[cur] = "open" /\ asked < MaxReq /\ pending[s] = 0 /\ last[s] \in {0, cur}
    /\ asked' = asked + 1 /\ pending' = [pending EXCEPT ![s] = asked + 1]
    /\ reqs' = [reqs EXCEPT ![cur] = Append(@, [s |-> s, n |-> asked + 1])]
    /\ UNCHANGED <<server, cur, last, resps, order, wrong>>

Answered ==
    /\ cur # 0 /\ resps[cur] # <<>>
    /\ resps' = [resps EXCEPT ![cur] = Tail(@)]
    /\ LET a == Head(resps[cur])
       IN IF pending[a.s] # 0
          THEN /\ pending' = [pending EXCEPT ![a.s] = 0] /\ last' = [last EXCEPT ![a.s] = cur]
               /\ wrong' = IF a.n # pending[a.s] THEN wrong \cup {a.n} ELSE wrong
          ELSE UNCHANGED <<pending, last, wrong>>
    /\ UNCHANGED <<server, cur, asked, reqs, order>>

------------------------------------------------------------------------------
\* The server.

\* do_auth with the next index; the client then asks again what is unanswered.
Auth(f) ==
    /\ sock[f] = "handshake" /\ f = cur /\ sock' = [sock EXCEPT ![f] = "open"]
    /\ u' = [u EXCEPT !.version = @ + 1, !.fd = f]
    /\ connection' = [connection EXCEPT ![f] = TRUE]
    /\ LET again == SetToSeq({s \in Session : pending[s] # 0})
       IN reqs' = [reqs EXCEPT ![f] = [k \in DOMAIN again |-> [s |-> again[k], n |-> pending[again[k]]]]]
    /\ UNCHANGED <<p, client, resps, order, wrong>>

\* retire_response: of the complete ones the older half goes.
RetireResponse(x, q) ==
    IF x.index < expired_number * 2 THEN <<x, q>>
    ELSE LET done == {s \in Session : x.response[s] # 0 /\ q[x.response[s]].fd = 0}
             keep == {s \in done : q[x.response[s]].index >= expired_number}
             r == {x.response[s] : s \in keep}
             q2 == [k \in DOMAIN q |-> IF k \in r THEN [q[k] EXCEPT !.index = @ - expired_number] ELSE q[k]]
             max == CHOOSE m \in {0} \cup {q2[k].index : k \in r} : \A k \in r : q2[k].index <= m
         IN <<[x EXCEPT !.response = [s \in Session |-> IF s \in done \ keep THEN 0 ELSE @[s]],
                        !.index = max + 1], q2>>

\* The end of do_request: the response of entry k goes to the fd it is for.
Return(x, q, k) ==
    LET f == q[k].fd
        rx == RetireResponse([x EXCEPT !.index = @ + 1], [q EXCEPT ![k].fd = 0])
    IN /\ resps' = IF connection[f] THEN [resps EXCEPT ![f] = Append(@, [s |-> q[k].s, n |-> q[k].n])] ELSE resps
       /\ u' = rx[1] /\ p' = rx[2]
       /\ order' = Append(SubSeq(order, IF Len(order) < expired_number THEN 1 ELSE 2, Len(order)), k)
Complete(x, q, k) == Return(x, [q EXCEPT ![k].done = TRUE, ![k].version = x.version, ![k].index = x.index], k)

\* The handler is called for a new entry.
Handle(f, r) ==
    LET k == Len(p) + 1
        x == [u EXCEPT !.response[r.s] = k]
        q == Append(p, [s |-> r.s, n |-> r.n, fd |-> f, done |-> FALSE, version |-> -1, index |-> -1])
    IN /\ Len(p) < MaxRun
       /\ IF Yields THEN u' = x /\ p' = q /\ UNCHANGED <<resps, order>> ELSE Complete(x, q, k)

\* Mutant: the entry stays with the connection it came from.
ResendOld(f, k) ==
    IF p[k].done THEN Return(u, [p EXCEPT ![k].fd = f, ![k].version = u.version, ![k].index = u.index], k)
    ELSE UNCHANGED <<u, p, resps, order>>

\* The entry of an earlier connection is for this one now, and is sent if it is there.
Resend(f, k) ==
    LET q == [p EXCEPT ![k].fd = f, ![k].version = u.version, ![k].index = u.index]
    IN IF p[k].done THEN Return(u, q, k) ELSE p' = q /\ UNCHANGED <<u, resps, order>>

\* Mutant: a session that is known is always new.
DoRequestAgain(f, r) == Handle(f, r) /\ UNCHANGED <<connection, sock>>
\* do_request.  A session in work on this connection is a conflict, and ends it.
DoRequest(f, r) ==
    LET k == u.response[r.s]
    IN IF k = 0 THEN Handle(f, r) /\ UNCHANGED <<connection, sock>>
       ELSE IF p[k].version # u.version THEN Resend(f, k) /\ UNCHANGED <<connection, sock>>
       ELSE IF p[k].done THEN Handle(f, r) /\ UNCHANGED <<connection, sock>>
       ELSE /\ u' = [u EXCEPT !.response[r.s] = 0] /\ sock' = [sock EXCEPT ![f] = "closing"]
            /\ UNCHANGED <<p, connection, resps, order>>

Request(f) ==
    /\ sock[f] = "open" /\ reqs[f] # <<>> /\ reqs' = [reqs EXCEPT ![f] = Tail(@)]
    /\ DoRequest(f, Head(reqs[f]))
    /\ UNCHANGED <<client, wrong>>

\* A handler that has yielded returns.
Handled(k) ==
    /\ k \in DOMAIN p /\ ~p[k].done /\ Complete(u, p, k)
    /\ UNCHANGED <<connection, sock, client, reqs, wrong>>

\* handler.disconnect, when the client has gone on, a connection fails or was closed.
Disconnect(f) ==
    /\ sock[f] \in {"open", "closing"} /\ sock' = [sock EXCEPT ![f] = "closed"]
    /\ u' = IF connection[f] THEN [u EXCEPT !.fd = 0] ELSE u
    /\ connection' = [connection EXCEPT ![f] = FALSE]
    /\ reqs' = [reqs EXCEPT ![f] = <<>>] /\ resps' = [resps EXCEPT ![f] = <<>>]
    /\ UNCHANGED <<p, client, order, wrong>>

Next ==
    \/ Connect \/ Answered \/ \E s \in Session : Ask(s)
    \/ \E f \in Fd : Auth(f) \/ Request(f) \/ Disconnect(f)
    \/ \E k \in 1..MaxRun : Handled(k)
Spec == Init /\ [][Next]_vars
FairSpec == Spec /\ WF_vars(Connect) /\ WF_vars(Answered) /\ \A k \in 1..MaxRun : WF_vars(Handled(k))
                 /\ \A f \in Fd : WF_vars(Auth(f)) /\ WF_vars(Request(f))

------------------------------------------------------------------------------
\* Properties.

\* A request is handled once, however often it is sent.
HandledOnce == \A j, k \in DOMAIN p : p[j].n = p[k].n => j = k

\* The client is answered what he asked.
AnswersMatch == wrong = {}

\* The responses sent last are kept, until their session is used again, and
\* not more than twice as many.
CacheKept ==
    /\ \A k \in DOMAIN order : u.response[p[order[k]].s] # 0
    /\ Cardinality({s \in Session : u.response[s] # 0 /\ p[u.response[s]].fd = 0}) <= 2 * expired_number

\* The address of a user who is connected is known (server.ip).
IpKnown == (\E f \in Fd : connection[f] /\ f = cur) => u.fd = cur

\* Every request is answered while there are connections left.
Served == \A s \in Session : pending[s] # 0 ~> pending[s] = 0 \/ cur + 1 \notin Fd
================================================================================
