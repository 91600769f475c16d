------------------------------- MODULE LoginServer -------------------------------
\* The login server (lualib/snax/loginserver.lua): slaves authenticate
\* connections in turn, the master locks each user while his login_handler runs.
EXTENDS Integers, FiniteSets

CONSTANTS
    Client, User,
    instance,           \* conf.instance, the number of slaves
    multilogin          \* conf.multilogin

LoginAssumption ==
    /\ instance \in Nat \ {0} /\ multilogin \in BOOLEAN /\ IsFiniteSet(Client)

VARIABLES
    pc, uid, slave,     \* of each connection: its place in accept, who it is, its slave
    fd,                 \* of each connection: "none", "open", "failed" (the client has gone), "closed"
    balance, user_login,
    code                \* what the client was told

vars == <<pc, uid, slave, fd, balance, user_login, code>>

Init ==
    /\ pc = [c \in Client |-> "new"] /\ uid \in [Client -> User] /\ slave = [c \in Client |-> 0]
    /\ fd = [c \in Client |-> "none"] /\ balance = 1
    /\ user_login = [u \in User |-> FALSE] /\ code = [c \in Client |-> 0]

\* write, and the close that follows every end of accept.  A write to a
\* connection that failed raises an error.
Finish(c, k) ==
    /\ pc' = [pc EXCEPT ![c] = "end"] /\ fd' = [fd EXCEPT ![c] = "closed"]
    /\ code' = IF fd[c] = "open" /\ k # 0 THEN [code EXCEPT ![c] = k] ELSE code

\* A client connects; the next slave authenticates it.
Accept(c) ==
    /\ pc[c] = "new" /\ pc' = [pc EXCEPT ![c] = "auth"] /\ fd' = [fd EXCEPT ![c] = "open"]
    /\ slave' = [slave EXCEPT ![c] = balance] /\ balance' = IF balance + 1 > instance THEN 1 ELSE balance + 1
    /\ UNCHANGED <<uid, user_login, code>>

\* The slave says that the client is not who he says, or has gone.
Refused(c) ==
    /\ pc[c] = "auth" /\ \E gone \in BOOLEAN : Finish(c, IF gone THEN 0 ELSE 401)
    /\ UNCHANGED <<uid, slave, balance, user_login>>

\* The user is known and not in login: his handler is called.
Login(c) ==
    /\ pc[c] = "auth" /\ (multilogin \/ ~user_login[uid[c]])
    /\ user_login' = IF multilogin THEN user_login ELSE [user_login EXCEPT ![uid[c]] = TRUE]
    /\ pc' = [pc EXCEPT ![c] = "login"] /\ UNCHANGED <<uid, slave, fd, balance, code>>
NotAcceptable(c) ==
    /\ pc[c] = "auth" /\ ~multilogin /\ user_login[uid[c]] /\ Finish(c, 406)
    /\ UNCHANGED <<uid, slave, balance, user_login>>

\* The handler returns, or fails.
LoggedIn(c) ==
    /\ pc[c] = "login" /\ user_login' = [user_login EXCEPT ![uid[c]] = FALSE]
    /\ \E ok \in BOOLEAN : Finish(c, IF ok THEN 200 ELSE 403)
    /\ UNCHANGED <<uid, slave, balance>>

\* The client goes at any time.
Fail(c) ==
    /\ fd[c] = "open" /\ fd' = [fd EXCEPT ![c] = "failed"]
    /\ UNCHANGED <<pc, uid, slave, balance, user_login, code>>

Next == \E c \in Client :
    Accept(c) \/ Refused(c) \/ Login(c) \/ NotAcceptable(c) \/ LoggedIn(c) \/ Fail(c)
Spec == Init /\ [][Next]_vars
\* A slave may wait for its client for ever; handlers return.
FairSpec == Spec /\ \A c \in Client : WF_vars(LoggedIn(c))

------------------------------------------------------------------------------
\* Properties.

\* A user has one login under way, and is locked for as long as it is (406,
\* "disallow multi login").
OneLogin ==
    /\ \A c, d \in Client : pc[c] = "login" /\ pc[d] = "login" /\ uid[c] = uid[d] => c = d
    /\ \A u \in User : user_login[u] <=> \E c \in Client : pc[c] = "login" /\ uid[c] = u

\* Nobody stays locked out.
Unlocks == \A u \in User : user_login[u] ~> ~user_login[u]

\* Slaves have as many connections as each other, but for one.
Balanced ==
    \A i, j \in 1..instance :
        Cardinality({c \in Client : slave[c] = i}) <= Cardinality({c \in Client : slave[c] = j}) + 1
==================================================================================
