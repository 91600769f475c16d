------------------------------ MODULE WebProof ------------------------------
(***************************************************************************)
(* Proofs about the servers of the web suite: the front of the web server  *)
(* keeps its books about every address, and the login server locks users   *)
(* and takes its slaves in turn.                                           *)
(***************************************************************************)
EXTENDS MCWeb, SequenceTheorems, FiniteSetTheorems, TLAPS

(***************************************************************************)
(* The front of the web server (Serverd).  The two instances differ in     *)
(* their bounds and in whether kicks happen; what is proved here of the    *)
(* clients holds of both.                                                  *)
(***************************************************************************)
Counts == Visit!Counts

FrontTypes ==
    /\ now \in Nat
    /\ _clientsmap \in [IP -> Counts \cup {None}]
    /\ _ip2slave \in [IP -> (1 .. Slaves) \cup {None}] /\ _balanceIdx \in 1 .. Slaves
    /\ open \in [IP -> Seq(1 .. Slaves)]
    /\ handled \in [IP -> Nat] /\ entered \in [IP -> Nat] /\ refused \in [IP -> Nat]

\* A connection that was let in was counted in the second of its client, as
\* long as that is the present one, and an agent is chosen once.
Books(ip) ==
    /\ _clientsmap[ip] = None => entered[ip] = 0
    /\ _clientsmap[ip] # None =>
         /\ _clientsmap[ip].second_anchor <= now
         /\ _clientsmap[ip].second_anchor = now =>
              /\ entered[ip] <= _clientsmap[ip].second
              /\ _clientsmap[ip].second <= kMCountPerIpPerSecond + 1
    /\ \A i \in DOMAIN open[ip] : open[ip][i] = _ip2slave[ip]

FrontInv == FrontTypes /\ \A ip \in IP : Books(ip)

\* Without kicks, what has been counted as a visit and not as finished is there.
Balance(ip) ==
    /\ _clientsmap[ip] = None =>
         open[ip] = <<>> /\ handled[ip] = 0 /\ refused[ip] = 0
    /\ _clientsmap[ip] # None =>
         _clientsmap[ip].visit
           = _clientsmap[ip].finish + (Len(open[ip]) + (handled[ip] + refused[ip]))
Balances == \A ip \in IP : Balance(ip)

LEMMA CountsUpdate ==
    ASSUME NEW c \in Counts, NEW v \in Nat, NEW m \in Nat
    PROVE  /\ [c EXCEPT !.visit = v, !.mvisit = m] \in Counts
           /\ [c EXCEPT !.finish = v, !.mfinish = m] \in Counts
<1>1. \A d \in Counts : [d EXCEPT !.visit = v] \in Counts /\ [d EXCEPT !.finish = v] \in Counts
  BY DEF Counts, Visit!Counts
<1>2. \A d \in Counts : [d EXCEPT !.mvisit = m] \in Counts /\ [d EXCEPT !.mfinish = m] \in Counts
  BY DEF Counts, Visit!Counts
<1> QED
  BY <1>1, <1>2

LEMMA Counted ==
    ASSUME NEW c \in Counts
    PROVE  /\ LET e == [c EXCEPT !.visit = @ + 1, !.mvisit = @ + 1]
              IN /\ e \in Counts /\ e.visit = c.visit + 1 /\ e.finish = c.finish
                 /\ e.second_anchor = c.second_anchor /\ e.second = c.second
           /\ LET e == [c EXCEPT !.finish = @ + 1, !.mfinish = @ + 1]
              IN /\ e \in Counts /\ e.visit = c.visit /\ e.finish = c.finish + 1
                 /\ e.second_anchor = c.second_anchor /\ e.second = c.second
           /\ c.visit \in Nat /\ c.finish \in Nat /\ c.second \in Nat
<1> DEFINE v == c.visit + 1
           m == c.mvisit + 1
           w == c.finish + 1
           n == c.mfinish + 1
           e == [c EXCEPT !.visit = v, !.mvisit = m]
           f == [c EXCEPT !.finish = w, !.mfinish = n]
<1>1. /\ c.visit \in Nat /\ c.finish \in Nat /\ c.second \in Nat
      /\ v \in Nat /\ m \in Nat /\ w \in Nat /\ n \in Nat
  BY DEF Counts, Visit!Counts
<1>2. e = [c EXCEPT !.visit = @ + 1, !.mvisit = @ + 1]
  BY DEF Counts, Visit!Counts
<1>3. f = [c EXCEPT !.finish = @ + 1, !.mfinish = @ + 1]
  BY DEF Counts, Visit!Counts
<1> HIDE DEF v, m, w, n
<1>4. e \in Counts /\ f \in Counts
  BY <1>1, CountsUpdate
<1>5. /\ e.visit = v /\ e.finish = c.finish
      /\ e.second_anchor = c.second_anchor /\ e.second = c.second
      /\ f.visit = c.visit /\ f.finish = w
      /\ f.second_anchor = c.second_anchor /\ f.second = c.second
  BY DEF Counts, Visit!Counts
<1> HIDE DEF e, f
<1> QED
  BY <1>1, <1>2, <1>3, <1>4, <1>5 DEF v, w

\* Enter, of either instance, without its bound.
Entering(ip) ==
    /\ Visit!GetSlave(ip)
    /\ LET check == IF ip \in _blacklists THEN <<FALSE, Visit!Client(ip)>>
                    ELSE Visit!IsInvalid(Visit!Client(ip))
       IN /\ _clientsmap' = [_clientsmap EXCEPT ![ip] =
                [check[2] EXCEPT !.visit = @ + 1, !.mvisit = @ + 1]]
          /\ IF check[1]
             THEN /\ open' = [open EXCEPT ![ip] = Append(@, _ip2slave'[ip])]
                  /\ entered' = [entered EXCEPT ![ip] = @ + 1] /\ refused' = refused
             ELSE /\ refused' = [refused EXCEPT ![ip] = @ + 1]
                  /\ open' = open /\ entered' = entered
    /\ now' = now /\ handled' = handled

\* Sums of counts, one of which goes up by one, or moves by one to the next.
LEMMA Sums ==
    ASSUME NEW f \in Nat, NEW l \in Nat, NEW h \in Nat, NEW r \in Nat
    PROVE  /\ f + (l + (h + r)) + 1 = f + ((l + 1) + (h + r))
           /\ f + (l + (h + r)) + 1 = f + (l + (h + (r + 1)))
           /\ f + (l + ((h + 1) + r)) = (f + 1) + (l + (h + r))
           /\ f + ((l + 1) + (h + r)) = f + (l + ((h + 1) + r))
OBVIOUS

LEMMA Division ==
    ASSUME NEW n \in Nat \ {0}, NEW x \in Nat
    PROVE  x \div n \in Nat
OBVIOUS

LEMMA Remainder ==
    ASSUME NEW n \in Nat \ {0}, NEW x \in Nat
    PROVE  x % n \in 0 .. n - 1
OBVIOUS

LEMMA NewClient ==
    ASSUME FrontInv, NEW ip \in IP
    PROVE  /\ Visit!Client(ip) \in Counts /\ Visit!Client(ip) # None
           /\ Visit!Client(ip).second_anchor <= now
           /\ Visit!Client(ip).second_anchor = now =>
                /\ entered[ip] <= Visit!Client(ip).second
                /\ Visit!Client(ip).second <= kMCountPerIpPerSecond + 1
           /\ _clientsmap[ip] # None => Visit!Client(ip) = _clientsmap[ip]
           /\ _clientsmap[ip] = None => Visit!Client(ip).visit = 0 /\ Visit!Client(ip).finish = 0
<1>1. now \div SecondsPerMinute \in Nat
  BY Division, ServerAssumptions DEF FrontInv, FrontTypes, Visit!ServerdAssumption
<1>2. Visit!New \in Counts
  BY <1>1 DEF FrontInv, FrontTypes, Counts, Visit!Counts, Visit!New
<1>3. None \notin Counts /\ kMCountPerIpPerSecond \in Nat
  BY ServerAssumptions DEF Visit!ServerdAssumption, Counts
<1>4. CASE _clientsmap[ip] = None
  <2>1. Visit!Client(ip) = Visit!New
    BY <1>4 DEF Visit!Client
  <2>2. /\ Visit!New.second = 0 /\ Visit!New.second_anchor = now
        /\ Visit!New.visit = 0 /\ Visit!New.finish = 0
    BY DEF Visit!New
  <2>3. entered[ip] = 0 /\ now \in Nat
    BY <1>4 DEF FrontInv, FrontTypes, Books
  <2>4. Visit!New # None
    BY <1>2, <1>3
  <2> QED
    BY <1>2, <1>3, <1>4, <2>1, <2>2, <2>3, <2>4
<1>5. CASE _clientsmap[ip] # None
  <2>1. Visit!Client(ip) = _clientsmap[ip]
    BY <1>5 DEF Visit!Client
  <2> QED
    BY <1>5, <2>1 DEF FrontInv, FrontTypes, Books
<1> QED
  BY <1>4, <1>5

LEMMA Appended ==
    ASSUME NEW S, NEW o \in Seq(S)
    PROVE  /\ Len(o) \in Nat /\ DOMAIN o = 1 .. Len(o)
           /\ \A i \in DOMAIN o : o[i] \in S
           /\ \A v \in S : /\ Append(o, v) \in Seq(S) /\ Len(Append(o, v)) = Len(o) + 1
                          /\ \A i \in DOMAIN Append(o, v) :
                               \/ Append(o, v)[i] = v
                               \/ i \in DOMAIN o /\ Append(o, v)[i] = o[i]
OBVIOUS

LEMMA OpenType ==
    ASSUME FrontInv, NEW ip \in IP
    PROVE  /\ open[ip] \in Seq(1 .. Slaves) /\ Len(open[ip]) \in Nat
           /\ DOMAIN open[ip] = 1 .. Len(open[ip])
           /\ \A i \in DOMAIN open[ip] : open[ip][i] \in 1 .. Slaves
           /\ \A v \in 1 .. Slaves :
                    /\ Len(Append(open[ip], v)) = Len(open[ip]) + 1
                    /\ \A i \in DOMAIN Append(open[ip], v) :
                         \/ Append(open[ip], v)[i] = v
                         \/ i \in DOMAIN open[ip] /\ Append(open[ip], v)[i] = open[ip][i]
<1>1. open[ip] \in Seq(1 .. Slaves)
  BY DEF FrontInv, FrontTypes
<1> DEFINE S == 1 .. Slaves
<1> HIDE DEF S
<1>2. open[ip] \in Seq(S)
  BY <1>1 DEF S
<1>3. \A v \in S : /\ Len(Append(open[ip], v)) = Len(open[ip]) + 1
                   /\ \A i \in DOMAIN Append(open[ip], v) :
                        \/ Append(open[ip], v)[i] = v
                        \/ i \in DOMAIN open[ip] /\ Append(open[ip], v)[i] = open[ip][i]
  BY ONLY <1>2, Appended
<1>4. Len(open[ip]) \in Nat /\ DOMAIN open[ip] = 1 .. Len(open[ip])
  BY ONLY <1>2, Appended
<1>5. \A i \in DOMAIN open[ip] : open[ip][i] \in S
  BY ONLY <1>2, Appended
<1> QED
  BY <1>1, <1>3, <1>4, <1>5, Zenon DEF S

\* What is_invalid makes of a client: the counts of visits stay, and it passes
\* only if it is counted in its second.
LEMMA Invalid ==
    ASSUME NEW c \in Counts, now \in Nat
    PROVE  LET r == Visit!IsInvalid(c)
           IN /\ r[2] \in Counts
              /\ r[2].visit = c.visit /\ r[2].finish = c.finish
              /\ r[2].second_anchor = c.second_anchor
              /\ c.second_anchor = now =>
                   /\ r[2].second = IF c.second > kMCountPerIpPerSecond THEN c.second
                                    ELSE c.second + 1
                   /\ r[1] => ~ c.second > kMCountPerIpPerSecond
<1> DEFINE second == Visit!CheckSecond(c)
<1>0. kMCountPerIpPerSecond \in Nat /\ kMCountPerIpPerMinute \in Nat /\ MaxDelta \in Int
  BY ServerAssumptions DEF Visit!ServerdAssumption
<1>1. /\ second[2] \in Counts
      /\ second[2].visit = c.visit /\ second[2].finish = c.finish
      /\ second[2].second_anchor = c.second_anchor
      /\ c.second_anchor = now =>
           /\ second[2].second = IF c.second > kMCountPerIpPerSecond THEN c.second
                                 ELSE c.second + 1
           /\ second[1] <=> ~ c.second > kMCountPerIpPerSecond
  BY <1>0 DEF Visit!CheckSecond, Counts, Visit!Counts
<1> DEFINE d == second[2]
<1> DEFINE minute == Visit!CheckMinute(d)
<1>2. /\ minute[2] \in Counts
      /\ minute[2].visit = d.visit /\ minute[2].finish = d.finish
      /\ minute[2].second_anchor = d.second_anchor /\ minute[2].second = d.second
  <2>0. d \in Counts
    BY <1>1
  <2> HIDE DEF d
  <2> DEFINE new == [d EXCEPT !.minute = 0, !.mvisit = 0, !.mfinish = 0]
             old == [d EXCEPT !.minute = @ + 1]
  <2>1. /\ new \in Counts /\ new.visit = d.visit /\ new.finish = d.finish
        /\ new.second_anchor = d.second_anchor /\ new.second = d.second
    BY <2>0 DEF Counts, Visit!Counts
  <2>2. /\ old \in Counts /\ old.visit = d.visit /\ old.finish = d.finish
        /\ old.second_anchor = d.second_anchor /\ old.second = d.second
    BY <2>0 DEF Counts, Visit!Counts
  <2>3. minute[2] = new \/ minute[2] = d \/ minute[2] = old
    BY DEF Visit!CheckMinute
  <2> HIDE DEF new, old, minute
  <2> QED
    BY <2>0, <2>1, <2>2, <2>3
<1> DEFINE delta == Visit!CheckDelta(minute[2])
<1>3. delta[2] = minute[2]
  BY DEF Visit!CheckDelta
<1>4. Visit!IsInvalid(c) = IF ~second[1] THEN second ELSE IF ~minute[1] THEN minute ELSE delta
  BY DEF Visit!IsInvalid
<1> HIDE DEF second, d, minute, delta
<1> QED
  BY <1>1, <1>2, <1>3, <1>4 DEF d

\* get_slave: an agent is chosen once for an address.
LEMMA Slave ==
    ASSUME FrontInv, NEW ip \in IP, Visit!GetSlave(ip)
    PROVE  /\ _ip2slave' \in [IP -> (1 .. Slaves) \cup {None}] /\ _balanceIdx' \in 1 .. Slaves
           /\ _ip2slave'[ip] \in 1 .. Slaves
           /\ \A x \in IP : _ip2slave[x] # None => _ip2slave'[x] = _ip2slave[x]
<1>1. Slaves \in Nat \ {0} /\ None \notin 1 .. Slaves
  BY ServerAssumptions DEF Visit!ServerdAssumption
<1>2. CASE _ip2slave[ip] = None
  <2>1. /\ _ip2slave' = [_ip2slave EXCEPT ![ip] = _balanceIdx]
        /\ _balanceIdx' = (_balanceIdx % Slaves) + 1
    BY <1>2 DEF Visit!GetSlave
  <2>2. (_balanceIdx % Slaves) + 1 \in 1 .. Slaves
    <3>1. _balanceIdx \in Nat
      BY <1>1 DEF FrontInv, FrontTypes
    <3>2. _balanceIdx % Slaves \in 0 .. Slaves - 1
      BY <1>1, <3>1, Remainder
    <3> QED BY <1>1, <3>2
  <2> QED
    BY <1>1, <1>2, <2>1, <2>2 DEF FrontInv, FrontTypes
<1>3. CASE _ip2slave[ip] # None
  BY <1>1, <1>3 DEF Visit!GetSlave, Visit!slaves, FrontInv, FrontTypes
<1> QED
  BY <1>2, <1>3

LEMMA EnteringStep ==
    ASSUME FrontInv, NEW ip \in IP, Entering(ip)
    PROVE  FrontInv' /\ (Balances => Balances')
<1> DEFINE c == Visit!Client(ip)
           check == IF ip \in _blacklists THEN <<FALSE, c>> ELSE Visit!IsInvalid(c)
           d == check[2]
           e == [d EXCEPT !.visit = @ + 1, !.mvisit = @ + 1]
<1>0. now \in Nat /\ kMCountPerIpPerSecond \in Nat /\ None \notin Counts
  BY ServerAssumptions DEF FrontInv, FrontTypes, Visit!ServerdAssumption, Counts
<1>1. c \in Counts /\ c # None
  BY NewClient
<1>2. /\ d \in Counts /\ d.visit = c.visit /\ d.finish = c.finish
      /\ d.second_anchor = c.second_anchor
      /\ c.second_anchor = now /\ check[1] =>
           d.second = c.second + 1 /\ ~ c.second > kMCountPerIpPerSecond
      /\ c.second_anchor = now =>
           /\ c.second <= d.second
           /\ d.second <= IF c.second > kMCountPerIpPerSecond THEN c.second ELSE c.second + 1
  <2>1. CASE ip \in _blacklists
    <3>1. d = c /\ ~check[1]
      BY <2>1
    <3>2. c.second \in Nat
      BY <1>1 DEF Counts, Visit!Counts
    <3> HIDE DEF check, d, c
    <3> QED
      BY <1>0, <1>1, <3>1, <3>2
  <2>2. CASE ip \notin _blacklists
    <3>1. check = Visit!IsInvalid(c)
      BY <2>2
    <3>2. c.second \in Nat
      BY <1>1 DEF Counts, Visit!Counts
    <3> HIDE DEF check, c
    <3> QED
      BY <1>0, <1>1, <3>1, <3>2, Invalid
  <2> QED
    BY <2>1, <2>2
<1>3. /\ e \in Counts /\ e.visit = d.visit + 1 /\ e.finish = d.finish
      /\ e.second_anchor = d.second_anchor /\ e.second = d.second
  <2> HIDE DEF d
  <2> QED
    BY <1>2, Counted
<1>4. /\ _clientsmap' = [_clientsmap EXCEPT ![ip] = e]
      /\ now' = now /\ handled' = handled /\ Visit!GetSlave(ip)
      /\ \/ /\ check[1]
            /\ open' = [open EXCEPT ![ip] = Append(@, _ip2slave'[ip])]
            /\ entered' = [entered EXCEPT ![ip] = @ + 1] /\ refused' = refused
         \/ /\ refused' = [refused EXCEPT ![ip] = @ + 1]
            /\ open' = open /\ entered' = entered
  BY DEF Entering
<1>5. /\ c.second_anchor <= now
      /\ c.second_anchor = now =>
           entered[ip] <= c.second /\ c.second <= kMCountPerIpPerSecond + 1
      /\ _clientsmap[ip] # None => c = _clientsmap[ip]
      /\ _clientsmap[ip] = None => c.visit = 0 /\ c.finish = 0
  BY NewClient
<1> HIDE DEF c, check, d, e
<1>6. /\ _ip2slave' \in [IP -> (1 .. Slaves) \cup {None}] /\ _balanceIdx' \in 1 .. Slaves
      /\ _ip2slave'[ip] \in 1 .. Slaves
      /\ \A x \in IP : _ip2slave[x] # None => _ip2slave'[x] = _ip2slave[x]
  BY <1>4, Slave
<1>7. FrontTypes'
  <2>1. Append(open[ip], _ip2slave'[ip]) \in Seq(1 .. Slaves)
    BY <1>6 DEF FrontInv, FrontTypes
  <2>2. open' \in [IP -> Seq(1 .. Slaves)]
    BY <1>4, <2>1 DEF FrontInv, FrontTypes
  <2>3. _clientsmap' \in [IP -> Counts \cup {None}]
    BY <1>3, <1>4 DEF FrontInv, FrontTypes
  <2>4. entered' \in [IP -> Nat] /\ refused' \in [IP -> Nat]
    BY <1>4 DEF FrontInv, FrontTypes
  <2> QED
    BY <1>4, <1>6, <2>2, <2>3, <2>4 DEF FrontInv, FrontTypes
<1>8. ASSUME NEW x \in IP PROVE Books(x)'
  <2>1. \A i \in DOMAIN open'[x] : open'[x][i] = _ip2slave'[x]
    <3>1. \A i \in DOMAIN open[x] : open[x][i] = _ip2slave'[x]
      <4>1. ASSUME NEW i \in DOMAIN open[x] PROVE open[x][i] = _ip2slave'[x]
        <5>1. open[x][i] = _ip2slave[x] /\ open[x][i] \in 1 .. Slaves
          BY OpenType, <4>1 DEF FrontInv, Books
        <5>2. None \notin 1 .. Slaves
          BY ServerAssumptions DEF Visit!ServerdAssumption
        <5> QED
          BY <1>6, <5>1, <5>2
      <4> QED BY <4>1
    <3>2. open'[x] = open[x] \/ (x = ip /\ open'[x] = Append(open[x], _ip2slave'[x]))
      BY <1>4 DEF FrontInv, FrontTypes
    <3>3. CASE open'[x] = open[x]
      BY <3>1, <3>3
    <3>4. CASE x = ip /\ open'[x] = Append(open[x], _ip2slave'[x])
      <4> SUFFICES ASSUME NEW i \in DOMAIN open'[x]
                   PROVE  open'[x][i] = _ip2slave'[x]
        OBVIOUS
      <4>1. \/ open'[x][i] = _ip2slave'[x]
            \/ i \in DOMAIN open[x] /\ open'[x][i] = open[x][i]
        BY <1>6, <3>4, OpenType
      <4> QED
        BY <3>1, <4>1
    <3> QED
      BY <3>2, <3>3, <3>4
  <2>2. CASE x = ip
    <3>1. _clientsmap'[x] = e /\ e # None
      BY <1>0, <1>3, <1>4, <2>2 DEF FrontInv, FrontTypes
    <3>2. entered'[ip] = entered[ip] \/ (check[1] /\ entered'[ip] = entered[ip] + 1)
      BY <1>4 DEF FrontInv, FrontTypes
    <3>3. c.second \in Nat /\ d.second \in Nat /\ entered[ip] \in Nat
      BY <1>1, <1>2 DEF Counts, Visit!Counts, FrontInv, FrontTypes
    <3>4. e.second_anchor = now => entered'[ip] <= e.second /\ e.second <= kMCountPerIpPerSecond + 1
      BY <1>0, <1>2, <1>3, <1>5, <3>2, <3>3
    <3> QED
      BY <1>2, <1>3, <1>4, <1>5, <2>1, <2>2, <3>1, <3>4 DEF Books
  <2>3. CASE x # ip
    <3>1. _clientsmap'[x] = _clientsmap[x] /\ entered'[x] = entered[x]
      BY <1>4, <2>3 DEF FrontInv, FrontTypes
    <3> QED
      BY <1>4, <2>1, <3>1 DEF Books, FrontInv
  <2> QED BY <2>2, <2>3
<1>9. ASSUME Balances PROVE Balances'
  <2> SUFFICES ASSUME NEW x \in IP PROVE Balance(x)'
    BY DEF Balances
  <2>1. CASE x = ip
    <3>1. _clientsmap'[x] = e /\ e # None
      BY <1>0, <1>3, <1>4, <2>1 DEF FrontInv, FrontTypes
    <3>2. c.visit = c.finish + (Len(open[x]) + (handled[x] + refused[x]))
      <4>1. CASE _clientsmap[ip] = None
        BY <1>5, <1>9, <2>1, <4>1 DEF Balances, Balance
      <4>2. CASE _clientsmap[ip] # None
        BY <1>5, <1>9, <2>1, <4>2 DEF Balances, Balance
      <4> QED BY <4>1, <4>2
    <3>3. /\ c.finish \in Nat /\ Len(open[x]) \in Nat
          /\ handled[x] \in Nat /\ refused[x] \in Nat
      BY <1>1, OpenType DEF Counts, Visit!Counts, FrontInv, FrontTypes
    <3>4. \/ open'[x] = Append(open[x], _ip2slave'[x]) /\ refused'[x] = refused[x]
          \/ open'[x] = open[x] /\ refused'[x] = refused[x] + 1
      BY <1>4, <2>1 DEF FrontInv, FrontTypes
    <3>5. \/ Len(open'[x]) = Len(open[x]) + 1 /\ refused'[x] = refused[x]
          \/ Len(open'[x]) = Len(open[x]) /\ refused'[x] = refused[x] + 1
      BY <1>6, <2>1, <3>4, OpenType
    <3>6. /\ e.visit = c.finish + (Len(open[x]) + (handled[x] + refused[x])) + 1
          /\ e.finish = c.finish /\ handled'[x] = handled[x]
      BY <1>2, <1>3, <1>4, <3>2
    <3>7. e.visit = e.finish + (Len(open'[x]) + (handled'[x] + refused'[x]))
      <4> DEFINE f == c.finish
                 l == Len(open[x])
                 h == handled[x]
                 r == refused[x]
      <4>1. /\ f \in Nat /\ l \in Nat /\ h \in Nat /\ r \in Nat
            /\ e.visit = f + (l + (h + r)) + 1 /\ e.finish = f /\ handled'[x] = h
            /\ \/ Len(open'[x]) = l + 1 /\ refused'[x] = r
               \/ Len(open'[x]) = l /\ refused'[x] = r + 1
        BY ONLY <3>3, <3>5, <3>6, Zenon
      <4> HIDE DEF f, l, h, r
      <4>2. /\ f + (l + (h + r)) + 1 = f + ((l + 1) + (h + r))
            /\ f + (l + (h + r)) + 1 = f + (l + (h + (r + 1)))
        BY ONLY <4>1, Sums
      <4> QED
        BY ONLY <4>1, <4>2, Zenon
    <3> QED
      BY <3>1, <3>7 DEF Balance
  <2>2. CASE x # ip
    <3>1. /\ _clientsmap'[x] = _clientsmap[x] /\ open'[x] = open[x]
          /\ handled'[x] = handled[x] /\ refused'[x] = refused[x]
      BY <1>4, <2>2 DEF FrontInv, FrontTypes
    <3> QED
      BY <1>9, <3>1 DEF Balances, Balance
  <2> QED BY <2>1, <2>2
<1> QED
  BY <1>7, <1>8, <1>9 DEF FrontInv

LEMMA HandledStep ==
    ASSUME FrontInv, NEW ip \in IP, Visit!Handled(ip)
    PROVE  FrontInv' /\ (Balances => Balances')
<1>1. /\ open[ip] # <<>> /\ open' = [open EXCEPT ![ip] = Tail(@)]
      /\ handled' = [handled EXCEPT ![ip] = @ + 1]
      /\ UNCHANGED <<now, _clientsmap, _ip2slave, _balanceIdx, entered, refused>>
  BY DEF Visit!Handled, Visit!slaves
<1>2. /\ open[ip] \in Seq(1 .. Slaves) /\ Tail(open[ip]) \in Seq(1 .. Slaves)
      /\ Len(Tail(open[ip])) = Len(open[ip]) - 1 /\ Len(open[ip]) \in Nat
      /\ \A i \in DOMAIN Tail(open[ip]) :
            i + 1 \in DOMAIN open[ip] /\ Tail(open[ip])[i] = open[ip][i + 1]
  BY <1>1 DEF FrontInv, FrontTypes
<1>3. FrontTypes'
  BY <1>1, <1>2 DEF FrontInv, FrontTypes
<1>4. ASSUME NEW x \in IP PROVE Books(x)'
  <2>1. \A i \in DOMAIN open'[x] : open'[x][i] = _ip2slave[x]
    BY <1>1, <1>2 DEF FrontInv, FrontTypes, Books
  <2> QED
    BY <1>1, <2>1 DEF FrontInv, Books
<1>5. ASSUME Balances PROVE Balances'
  <2> SUFFICES ASSUME NEW x \in IP PROVE Balance(x)'
    BY DEF Balances
  <2>1. CASE x = ip
    <3>1. /\ Len(open'[x]) \in Nat /\ Len(open[x]) = Len(open'[x]) + 1
          /\ handled[x] \in Nat /\ handled'[x] = handled[x] + 1 /\ refused[x] \in Nat
          /\ refused'[x] = refused[x] /\ _clientsmap'[x] = _clientsmap[x]
      BY <1>1, <1>2, <2>1 DEF FrontInv, FrontTypes
    <3>2. CASE _clientsmap[x] = None
      BY <1>1, <1>5, <2>1, <3>2 DEF Balances, Balance
    <3>3. CASE _clientsmap[x] # None
      <4>1. /\ _clientsmap[x].finish \in Nat
            /\ _clientsmap[x].visit
                 = _clientsmap[x].finish + (Len(open[x]) + (handled[x] + refused[x]))
        BY <1>5, <3>3 DEF Balances, Balance, FrontInv, FrontTypes, Counts, Visit!Counts
      <4>2. _clientsmap[x].visit
              = _clientsmap[x].finish + (Len(open'[x]) + (handled'[x] + refused[x]))
        <5> DEFINE f == _clientsmap[x].finish
                   l == Len(open'[x])
                   h == handled[x]
                   r == refused[x]
        <5>1. /\ f \in Nat /\ l \in Nat /\ h \in Nat /\ r \in Nat
              /\ _clientsmap[x].visit = f + ((l + 1) + (h + r)) /\ handled'[x] = h + 1
          BY ONLY <3>1, <4>1, Zenon
        <5> HIDE DEF f, l, h, r
        <5>2. f + ((l + 1) + (h + r)) = f + (l + ((h + 1) + r))
          BY ONLY <5>1, Sums
        <5>3. _clientsmap[x].visit = f + (l + (handled'[x] + r))
          BY ONLY <5>1, <5>2, Zenon
        <5> QED
          BY <5>3 DEF f, l, r
      <4> QED
        BY <3>1, <3>3, <4>2 DEF Balance
    <3> QED BY <3>2, <3>3
  <2>2. CASE x # ip
    BY <1>1, <1>5, <2>2 DEF FrontInv, FrontTypes, Balances, Balance
  <2> QED BY <2>1, <2>2
<1> QED
  BY <1>3, <1>4, <1>5 DEF FrontInv

LEMMA FinishStep ==
    ASSUME FrontInv, NEW ip \in IP, Visit!Finish(ip)
    PROVE  FrontInv' /\ (Balances => Balances')
<1> DEFINE c == Visit!Client(ip)
           e == [c EXCEPT !.finish = @ + 1, !.mfinish = @ + 1]
<1>0. now \in Nat /\ None \notin Counts
  BY ServerAssumptions DEF FrontInv, FrontTypes, Visit!ServerdAssumption, Counts
<1>1. /\ handled[ip] > 0 /\ handled' = [handled EXCEPT ![ip] = @ - 1]
      /\ Visit!GetSlave(ip) /\ _clientsmap' = [_clientsmap EXCEPT ![ip] = e]
      /\ UNCHANGED <<now, open, entered, refused>>
  BY DEF Visit!Finish
<1>2. /\ c \in Counts /\ c # None /\ c.second_anchor <= now
      /\ c.second_anchor = now =>
           entered[ip] <= c.second /\ c.second <= kMCountPerIpPerSecond + 1
      /\ _clientsmap[ip] # None => c = _clientsmap[ip]
  BY NewClient
<1> HIDE DEF c
<1>3. /\ e \in Counts /\ e.visit = c.visit /\ e.finish = c.finish + 1
      /\ e.second_anchor = c.second_anchor /\ e.second = c.second
  BY <1>2, Counted
<1> HIDE DEF e
<1>4. /\ _ip2slave' \in [IP -> (1 .. Slaves) \cup {None}] /\ _balanceIdx' \in 1 .. Slaves
      /\ \A x \in IP : _ip2slave[x] # None => _ip2slave'[x] = _ip2slave[x]
  BY <1>1, Slave
<1>5. _clientsmap'[ip] = e /\ e # None
  BY <1>0, <1>1, <1>3 DEF FrontInv, FrontTypes
<1>6. FrontTypes'
  <2>1. _clientsmap' \in [IP -> Counts \cup {None}]
    BY <1>1, <1>3 DEF FrontInv, FrontTypes
  <2>2. handled' \in [IP -> Nat]
    BY <1>1 DEF FrontInv, FrontTypes
  <2> QED
    BY <1>1, <1>4, <2>1, <2>2 DEF FrontInv, FrontTypes
<1>7. ASSUME NEW x \in IP PROVE Books(x)'
  <2>1. \A i \in DOMAIN open'[x] : open'[x][i] = _ip2slave'[x]
    <3> SUFFICES ASSUME NEW i \in DOMAIN open[x] PROVE open[x][i] = _ip2slave'[x]
      BY <1>1
    <3>1. open[x][i] = _ip2slave[x] /\ open[x][i] \in 1 .. Slaves
      BY OpenType DEF FrontInv, Books
    <3>2. None \notin 1 .. Slaves
      BY ServerAssumptions DEF Visit!ServerdAssumption
    <3> QED
      BY <1>4, <3>1, <3>2
  <2>2. CASE x = ip
    BY <1>1, <1>2, <1>3, <1>5, <2>1, <2>2 DEF Books
  <2>3. CASE x # ip
    <3>1. _clientsmap'[x] = _clientsmap[x]
      BY <1>1, <2>3 DEF FrontInv, FrontTypes
    <3> QED
      BY <1>1, <2>1, <3>1 DEF FrontInv, Books
  <2> QED BY <2>2, <2>3
<1>8. ASSUME Balances PROVE Balances'
  <2> SUFFICES ASSUME NEW x \in IP PROVE Balance(x)'
    BY DEF Balances
  <2>1. CASE x = ip
    <3>1. c = _clientsmap[ip] /\ _clientsmap[ip] # None
      BY <1>1, <1>2, <1>8 DEF Balances, Balance, FrontInv, FrontTypes
    <3>2. /\ c.finish \in Nat /\ Len(open[x]) \in Nat /\ refused[x] \in Nat
          /\ handled'[x] \in Nat /\ handled[x] = handled'[x] + 1
      <4>1. handled[x] \in Nat /\ handled[x] > 0 /\ handled'[x] = handled[x] - 1
        BY <1>1, <2>1 DEF FrontInv, FrontTypes
      <4>2. refused[x] \in Nat
        BY DEF FrontInv, FrontTypes
      <4>3. handled'[x] \in Nat /\ handled[x] = handled'[x] + 1
        BY ONLY <4>1
      <4>4. c.finish \in Nat
        BY <1>2, Counted
      <4> QED
        BY <4>2, <4>3, <4>4, OpenType
    <3>3. c.visit = c.finish + (Len(open[x]) + (handled[x] + refused[x]))
      BY <1>8, <2>1, <3>1 DEF Balances, Balance
    <3>4. e.visit = e.finish + (Len(open[x]) + (handled'[x] + refused[x]))
      <4> DEFINE f == c.finish
                 l == Len(open[x])
                 h == handled'[x]
                 r == refused[x]
      <4>1. /\ f \in Nat /\ l \in Nat /\ h \in Nat /\ r \in Nat
            /\ e.visit = f + (l + ((h + 1) + r)) /\ e.finish = f + 1
        BY ONLY <1>3, <3>2, <3>3, Zenon
      <4> HIDE DEF f, l, h, r
      <4>2. f + (l + ((h + 1) + r)) = (f + 1) + (l + (h + r))
        BY ONLY <4>1, Sums
      <4>3. e.visit = e.finish + (l + (h + r))
        BY ONLY <4>1, <4>2, Zenon
      <4> QED
        BY <4>3 DEF l, h, r
    <3> QED
      BY <1>1, <1>5, <2>1, <3>4 DEF Balance
  <2>2. CASE x # ip
    <3>1. _clientsmap'[x] = _clientsmap[x] /\ handled'[x] = handled[x]
      BY <1>1, <2>2 DEF FrontInv, FrontTypes
    <3> QED
      BY <1>1, <1>8, <3>1 DEF Balances, Balance
  <2> QED BY <2>1, <2>2
<1> QED
  BY <1>6, <1>7, <1>8 DEF FrontInv

\* Both instances have the same steps, but for the bounds and the kicks.
LEMMA SameSteps ==
    ASSUME NEW ip \in IP
    PROVE  /\ Visit!Enter(ip) => Entering(ip)
           /\ Kick!Enter(ip) => Entering(ip)
           /\ Kick!Handled(ip) => Visit!Handled(ip)
           /\ Kick!Finish(ip) => Visit!Finish(ip)
<1>1. /\ Kick!Client(ip) = Visit!Client(ip)
      /\ Kick!GetSlave(ip) <=> Visit!GetSlave(ip)
  BY DEF Kick!Client, Visit!Client, Kick!New, Visit!New, Kick!GetSlave, Visit!GetSlave,
         Kick!slaves, Visit!slaves
<1>2. \A c : Kick!IsInvalid(c) = Visit!IsInvalid(c)
  BY DEF Kick!IsInvalid, Visit!IsInvalid, Kick!CheckSecond, Visit!CheckSecond,
         Kick!CheckMinute, Visit!CheckMinute, Kick!CheckDelta, Visit!CheckDelta
<1>3. Visit!Enter(ip) => Entering(ip)
  BY DEF Visit!Enter, Entering
<1>4. Kick!Enter(ip) => Entering(ip)
  BY <1>1, <1>2 DEF Kick!Enter, Entering
<1>5. Kick!Handled(ip) => Visit!Handled(ip)
  BY DEF Kick!Handled, Visit!Handled, Kick!slaves, Visit!slaves
<1>6. Kick!Finish(ip) => Visit!Finish(ip)
  BY <1>1 DEF Kick!Finish, Visit!Finish
<1> QED
  BY <1>3, <1>4, <1>5, <1>6

LEMMA TickStep ==
    ASSUME FrontInv, Visit!Tick \/ Kick!Tick
    PROVE  FrontInv' /\ (Balances => Balances')
<1>1. /\ now' = now + 1 /\ entered' = [ip \in IP |-> 0]
      /\ UNCHANGED <<_clientsmap, _ip2slave, _balanceIdx, open, handled, refused>>
  BY DEF Visit!Tick, Kick!Tick, Visit!slaves, Kick!slaves, Visit!agents, Kick!agents,
         Visit!Zero, Kick!Zero
<1>2. FrontTypes'
  BY <1>1 DEF FrontInv, FrontTypes
<1>3. ASSUME NEW ip \in IP PROVE Books(ip)'
  <2>1. _clientsmap[ip] # None => _clientsmap[ip].second_anchor \in Nat
    BY DEF FrontInv, FrontTypes, Counts, Visit!Counts
  <2>2. now \in Nat /\ Books(ip)
    BY DEF FrontInv, FrontTypes
  <2> QED
    BY <1>1, <2>1, <2>2 DEF Books
<1>4. ASSUME Balances PROVE Balances'
  BY <1>1, <1>4 DEF Balances, Balance
<1> QED
  BY <1>2, <1>3, <1>4 DEF FrontInv

LEMMA KickStep ==
    ASSUME FrontInv, NEW ip \in IP, Kick!Kick(ip)
    PROVE  FrontInv'
<1>1. /\ _clientsmap' = [_clientsmap EXCEPT ![ip] = None] /\ entered' = [entered EXCEPT ![ip] = 0]
      /\ UNCHANGED <<now, _ip2slave, _balanceIdx, open, handled, refused>>
  BY DEF Kick!Kick, Kick!slaves, Kick!agents
<1>2. FrontTypes'
  BY <1>1 DEF FrontInv, FrontTypes
<1>3. ASSUME NEW x \in IP PROVE Books(x)'
  <2>1. CASE x = ip
    BY <1>1, <2>1 DEF FrontInv, FrontTypes, Books
  <2>2. CASE x # ip
    <3>1. _clientsmap'[x] = _clientsmap[x] /\ entered'[x] = entered[x]
      BY <1>1, <2>2 DEF FrontInv, FrontTypes
    <3> QED
      BY <1>1, <3>1 DEF FrontInv, Books
  <2> QED BY <2>1, <2>2
<1> QED
  BY <1>2, <1>3 DEF FrontInv

LEMMA BlackStep ==
    ASSUME FrontInv,
           UNCHANGED <<now, _clientsmap, _ip2slave, _balanceIdx, open, handled, entered, refused>>
    PROVE  FrontInv' /\ (Balances => Balances')
BY DEF FrontInv, FrontTypes, Books, Balances, Balance

ServerdInv == FrontInv /\ (part # "kick" => Balances)

LEMMA ServerdInit == WebInit => ServerdInv
<1> SUFFICES ASSUME Visit!Init PROVE FrontInv /\ Balances
  BY DEF WebInit, ServerdInv
<1>1. /\ now = 0 /\ _clientsmap = [ip \in IP |-> None] /\ _ip2slave = [ip \in IP |-> None]
      /\ _balanceIdx = 1 /\ open = [ip \in IP |-> <<>>] /\ handled = [ip \in IP |-> 0]
      /\ entered = [ip \in IP |-> 0] /\ refused = [ip \in IP |-> 0]
  BY DEF Visit!Init, Visit!Zero
<1>2. Slaves \in Nat \ {0}
  BY ServerAssumptions DEF Visit!ServerdAssumption
<1>3. FrontTypes
  BY <1>1, <1>2 DEF FrontTypes
<1>4. \A ip \in IP : Books(ip) /\ Balance(ip)
  BY <1>1 DEF Books, Balance
<1> QED
  BY <1>3, <1>4 DEF FrontInv, Balances

LEMMA ServerdStep == ServerdInv /\ [WebNext]_web => ServerdInv'
<1> SUFFICES ASSUME ServerdInv, [WebNext]_web PROVE ServerdInv'
  OBVIOUS
<1>1. FrontInv /\ (part # "kick" => Balances)
  BY DEF ServerdInv
<1>2. part' = part
  BY DEF WebNext, In, web
<1>3. CASE UNCHANGED serverd_vars
  BY <1>1, <1>2, <1>3, BlackStep DEF serverd_vars, ServerdInv
<1>4. CASE Visit!Next
  <2>1. CASE Visit!Tick
    BY <1>1, <1>2, <2>1, TickStep DEF ServerdInv
  <2>2. ASSUME NEW ip \in IP, Visit!Enter(ip) \/ Visit!Handled(ip) \/ Visit!Finish(ip)
        PROVE  ServerdInv'
    BY <1>1, <1>2, <2>2, SameSteps, EnteringStep, HandledStep, FinishStep DEF ServerdInv
  <2>3. ASSUME NEW ip \in IP,
               Visit!Kick(ip) \/ Visit!AddBlacklist(ip) \/ Visit!RemoveBlacklist(ip)
        PROVE  FALSE
    BY <2>3 DEF Visit!Kick, Visit!AddBlacklist, Visit!RemoveBlacklist
  <2> QED
    BY <1>4, <2>1, <2>2, <2>3 DEF Visit!Next
<1>5. CASE part = "kick" /\ Kick!Next
  <2>1. CASE Kick!Tick
    BY <1>1, <1>2, <2>1, TickStep DEF ServerdInv
  <2>2. ASSUME NEW ip \in IP, Kick!Enter(ip) \/ Kick!Handled(ip) \/ Kick!Finish(ip)
        PROVE  ServerdInv'
    BY <1>1, <1>2, <2>2, SameSteps, EnteringStep, HandledStep, FinishStep DEF ServerdInv
  <2>3. ASSUME NEW ip \in IP, Kick!Kick(ip) PROVE ServerdInv'
    BY <1>1, <1>2, <1>5, <2>3, KickStep DEF ServerdInv
  <2>4. ASSUME NEW ip \in IP, Kick!AddBlacklist(ip) \/ Kick!RemoveBlacklist(ip)
        PROVE  ServerdInv'
    <3>1. UNCHANGED <<now, _clientsmap, _ip2slave, _balanceIdx, open, handled, entered, refused>>
      BY <2>4 DEF Kick!AddBlacklist, Kick!RemoveBlacklist, Kick!slaves, Kick!agents
    <3> QED
      BY <1>1, <1>2, <3>1, BlackStep DEF ServerdInv
  <2> QED
    BY <1>5, <2>1, <2>2, <2>3, <2>4 DEF Kick!Next
<1>6. \/ UNCHANGED serverd_vars \/ Visit!Next \/ (part = "kick" /\ Kick!Next)
  BY DEF WebNext, In, web
<1> QED
  BY <1>3, <1>4, <1>5, <1>6

\* The visits of an address are accounted for, are at one agent, and are let in
\* one too many in the first second of a client at most, for any number of
\* addresses and agents, any limits, and whoever is kicked.
THEOREM AddressesAccounted == WebSpec => []Accounts
<1>1. ServerdInv => Accounts
  <2> SUFFICES ASSUME ServerdInv PROVE Accounts
    OBVIOUS
  <2>1. ASSUME NEW ip \in IP, _clientsmap[ip] # None, _clientsmap[ip].second_anchor = now
        PROVE  entered[ip] <= kMCountPerIpPerSecond + 1
    <3>1. /\ entered[ip] <= _clientsmap[ip].second
          /\ _clientsmap[ip].second <= kMCountPerIpPerSecond + 1
          /\ entered[ip] \in Nat /\ _clientsmap[ip] \in Counts
      BY <2>1 DEF ServerdInv, FrontInv, FrontTypes, Books
    <3>2. _clientsmap[ip].second \in Nat /\ kMCountPerIpPerSecond \in Nat
      BY <3>1, Counted, ServerAssumptions DEF Visit!ServerdAssumption
    <3> QED
      BY ONLY <3>1, <3>2
  <2>2. Visit!FirstSecond /\ Kick!FirstSecond
    BY <2>1 DEF Visit!FirstSecond, Kick!FirstSecond
  <2>3. Kick!OneSlave
    BY DEF Kick!OneSlave, ServerdInv, FrontInv, Books
  <2>4. ASSUME part # "kick" PROVE Visit!Accounts
    <3> SUFFICES ASSUME NEW ip \in IP, _clientsmap[ip] # None
                 PROVE  _clientsmap[ip].visit - _clientsmap[ip].finish
                          = Len(open[ip]) + handled[ip] + refused[ip]
      BY DEF Visit!Accounts
    <3> DEFINE f == _clientsmap[ip].finish
               l == Len(open[ip])
               h == handled[ip]
               r == refused[ip]
    <3>1. /\ f \in Nat /\ l \in Nat /\ h \in Nat /\ r \in Nat
      <4>1. _clientsmap[ip] \in Counts /\ h \in Nat /\ r \in Nat
        BY DEF ServerdInv, FrontInv, FrontTypes
      <4> QED
        BY <4>1, Counted, OpenType DEF ServerdInv
    <3>2. _clientsmap[ip].visit = f + (l + (h + r))
      BY <2>4 DEF ServerdInv, Balances, Balance
    <3> HIDE DEF f, l, h, r
    <3> DEFINE v == _clientsmap[ip].visit
    <3> HIDE DEF v
    <3>3. v = f + (l + (h + r))
      BY <3>2 DEF v
    <3>4. v - f = l + h + r
      BY ONLY <3>1, <3>3
    <3> QED
      BY <3>4 DEF f, l, h, r, v
  <2> QED
    BY <2>2, <2>3, <2>4 DEF Accounts
<1> QED
  BY <1>1, ServerdInit, ServerdStep, PTL DEF WebSpec

(***************************************************************************)
(* The login server (LoginServer): a user logs in once at a time, and the  *)
(* slaves get connections in turn.                                         *)
(***************************************************************************)
At(i) == {c \in Visitor : slave[c] = i}

\* Those before the next slave have one connection more.
Turn(n) == \A i \in 1 .. instance : Cardinality(At(i)) = IF i < balance THEN n + 1 ELSE n

LoginInv ==
    /\ pc \in [Visitor -> {"new", "auth", "login", "end"}]
    /\ uid \in [Visitor -> User] /\ slave \in [Visitor -> 0 .. instance]
    /\ balance \in 1 .. instance /\ user_login \in [User -> BOOLEAN]
    /\ \A c \in Visitor : pc[c] = "new" => slave[c] = 0
    /\ \E n \in Nat : Turn(n)

\* With multilogin a user may be in login many times.
Locked ==
    /\ \A c, d \in Visitor : pc[c] = "login" /\ pc[d] = "login" /\ uid[c] = uid[d] => c = d
    /\ \A v \in User : user_login[v] <=> \E c \in Visitor : pc[c] = "login" /\ uid[c] = v

LEMMA CountUp ==
    ASSUME NEW c \in Visitor, NEW b \in 1 .. instance, LoginInv, slave[c] = 0,
           slave' = [slave EXCEPT ![c] = b]
    PROVE  \A i \in 1 .. instance :
               Cardinality(At(i))' = IF i = b THEN Cardinality(At(i)) + 1 ELSE Cardinality(At(i))
<1> SUFFICES ASSUME NEW i \in 1 .. instance
             PROVE  Cardinality(At(i))' = IF i = b THEN Cardinality(At(i)) + 1
                                          ELSE Cardinality(At(i))
  OBVIOUS
<1>1. IsFiniteSet(At(i))
  <2>1. At(i) \subseteq Visitor /\ IsFiniteSet(Visitor)
    BY ServerAssumptions DEF At, Login!LoginAssumption, Login!IsFiniteSet, IsFiniteSet
  <2> QED BY <2>1, FS_Subset
<1>2. i # 0 /\ b # 0
  BY ServerAssumptions DEF Login!LoginAssumption
<1>3. CASE i = b
  <2>1. At(i)' = At(i) \cup {c} /\ c \notin At(i)
    BY <1>2, <1>3 DEF At, LoginInv
  <2>2. Cardinality(At(i) \cup {c}) = Cardinality(At(i)) + 1
    BY ONLY <1>1, <2>1, FS_AddElement
  <2> QED
    BY <1>3, <2>1, <2>2
<1>4. CASE i # b
  <2>1. At(i)' = At(i)
    BY <1>2, <1>4 DEF At, LoginInv
  <2> QED
    BY <1>4, <2>1
<1> QED
  BY <1>3, <1>4

LEMMA AcceptStep ==
    ASSUME LoginInv, NEW c \in Visitor, Login!Accept(c)
    PROVE  LoginInv' /\ (Locked => Locked')
<1>1. /\ pc[c] = "new" /\ pc' = [pc EXCEPT ![c] = "auth"]
      /\ slave' = [slave EXCEPT ![c] = balance] /\ slave[c] = 0
      /\ balance' = IF balance + 1 > instance THEN 1 ELSE balance + 1
      /\ UNCHANGED <<uid, user_login>>
  BY DEF Login!Accept, LoginInv
<1>2. instance \in Nat \ {0}
  BY ServerAssumptions DEF Login!LoginAssumption
<1>3. PICK n \in Nat : Turn(n)
  BY DEF LoginInv
<1>4. balance \in 1 .. instance
  BY DEF LoginInv
<1>5. \A i \in 1 .. instance :
         Cardinality(At(i))' = IF i <= balance THEN n + 1 ELSE n
  <2> SUFFICES ASSUME NEW i \in 1 .. instance
               PROVE  Cardinality(At(i))' = IF i <= balance THEN n + 1 ELSE n
    OBVIOUS
  <2>1. Cardinality(At(i))' = IF i = balance THEN Cardinality(At(i)) + 1 ELSE Cardinality(At(i))
    BY <1>1, <1>4, CountUp
  <2>2. Cardinality(At(i)) = IF i < balance THEN n + 1 ELSE n
    BY <1>3 DEF Turn
  <2> QED
    BY <1>2, <1>4, <2>1, <2>2
<1>6. \E m \in Nat : Turn(m)'
  <2>1. CASE balance = instance
    <3>1. balance' = 1
      BY <1>1, <1>2, <2>1
    <3>2. \A i \in 1 .. instance : Cardinality(At(i))' = IF i < balance' THEN n + 2 ELSE n + 1
      BY <1>2, <1>5, <2>1, <3>1
    <3>3. n + 1 \in Nat /\ (n + 1) + 1 = n + 2
      OBVIOUS
    <3> QED
      BY <3>2, <3>3 DEF Turn
  <2>2. CASE balance # instance
    <3>1. balance' = balance + 1
      BY <1>1, <1>2, <1>4, <2>2
    <3>2. \A i \in 1 .. instance : Cardinality(At(i))' = IF i < balance' THEN n + 1 ELSE n
      BY <1>2, <1>4, <1>5, <3>1
    <3> QED
      BY <3>2 DEF Turn
  <2> QED BY <2>1, <2>2
<1>7. balance' \in 1 .. instance
  BY <1>1, <1>2, <1>4
<1>8. /\ pc' \in [Visitor -> {"new", "auth", "login", "end"}]
      /\ slave' \in [Visitor -> 0 .. instance]
      /\ \A d \in Visitor : pc'[d] = "new" => slave'[d] = 0
  BY <1>1, <1>2, <1>4 DEF LoginInv
<1>9. LoginInv'
  BY <1>1, <1>6, <1>7, <1>8 DEF LoginInv
<1>10. ASSUME Locked PROVE Locked'
  <2>1. \A d \in Visitor : pc'[d] = "login" <=> pc[d] = "login"
    BY <1>1 DEF LoginInv
  <2> QED
    BY <1>1, <1>10, <2>1 DEF Locked
<1> QED
  BY <1>9, <1>10

\* The steps after that leave the slaves alone.
LEMMA PlacesKept ==
    ASSUME LoginInv, NEW c \in Visitor, pc[c] # "new", NEW t \in {"login", "end"},
           pc' = [pc EXCEPT ![c] = t], user_login' \in [User -> BOOLEAN],
           UNCHANGED <<uid, slave, balance>>
    PROVE  LoginInv'
<1>1. PICK n \in Nat : Turn(n)
  BY DEF LoginInv
<1>2. Turn(n)'
  BY <1>1 DEF Turn, At
<1>3. /\ pc' \in [Visitor -> {"new", "auth", "login", "end"}]
      /\ \A d \in Visitor : pc'[d] = "new" => slave'[d] = 0
  BY DEF LoginInv
<1> QED
  BY <1>2, <1>3 DEF LoginInv

LEMMA LoggingStep ==
    ASSUME LoginInv, NEW c \in Visitor,
           Login!Refused(c) \/ Login!Login(c) \/ Login!NotAcceptable(c) \/ Login!LoggedIn(c)
    PROVE  LoginInv' /\ (~multilogin /\ Locked => Locked')
<1>1. CASE Login!Refused(c) \/ Login!NotAcceptable(c)
  <2>1. /\ pc[c] = "auth" /\ pc' = [pc EXCEPT ![c] = "end"]
        /\ UNCHANGED <<uid, slave, balance, user_login>>
    BY <1>1 DEF Login!Refused, Login!NotAcceptable, Login!Finish
  <2>2. LoginInv'
    BY <2>1, PlacesKept DEF LoginInv
  <2>3. \A d \in Visitor : pc'[d] = "login" <=> pc[d] = "login"
    BY <2>1 DEF LoginInv
  <2> QED
    BY <2>1, <2>2, <2>3 DEF Locked
<1>2. CASE Login!Login(c)
  <2>1. /\ pc[c] = "auth" /\ pc' = [pc EXCEPT ![c] = "login"]
        /\ user_login' = IF multilogin THEN user_login ELSE [user_login EXCEPT ![uid[c]] = TRUE]
        /\ multilogin \/ ~user_login[uid[c]]
        /\ UNCHANGED <<uid, slave, balance>>
    BY <1>2 DEF Login!Login
  <2>2. user_login' \in [User -> BOOLEAN] /\ uid[c] \in User
    BY <2>1 DEF LoginInv
  <2>3. LoginInv'
    BY <2>1, <2>2, PlacesKept
  <2>4. ASSUME ~multilogin, Locked PROVE Locked'
    <3>1. \A d \in Visitor : pc'[d] = "login" <=> pc[d] = "login" \/ d = c
      BY <2>1 DEF LoginInv
    <3>2. \A d \in Visitor : pc[d] = "login" => uid[d] # uid[c]
      BY <2>1, <2>2, <2>4 DEF Locked
    <3>3. \A v \in User : user_login'[v] <=> user_login[v] \/ v = uid[c]
      BY <2>1, <2>2, <2>4 DEF LoginInv
    <3> QED
      BY <2>1, <2>4, <3>1, <3>2, <3>3 DEF Locked
  <2> QED BY <2>3, <2>4
<1>3. CASE Login!LoggedIn(c)
  <2>1. /\ pc[c] = "login" /\ pc' = [pc EXCEPT ![c] = "end"]
        /\ user_login' = [user_login EXCEPT ![uid[c]] = FALSE]
        /\ UNCHANGED <<uid, slave, balance>>
    BY <1>3 DEF Login!LoggedIn, Login!Finish
  <2>2. user_login' \in [User -> BOOLEAN] /\ uid[c] \in User
    BY <2>1 DEF LoginInv
  <2>3. LoginInv'
    BY <2>1, <2>2, PlacesKept
  <2>4. ASSUME Locked PROVE Locked'
    <3>1. \A d \in Visitor : pc'[d] = "login" <=> pc[d] = "login" /\ d # c
      BY <2>1 DEF LoginInv
    <3>2. \A d \in Visitor : pc[d] = "login" /\ d # c => uid[d] # uid[c]
      BY <2>1, <2>4 DEF Locked
    <3>3. \A v \in User : user_login'[v] <=> user_login[v] /\ v # uid[c]
      BY <2>1, <2>2 DEF LoginInv
    <3> QED
      BY <2>1, <2>4, <3>1, <3>2, <3>3 DEF Locked
  <2> QED BY <2>3, <2>4
<1> QED
  BY <1>1, <1>2, <1>3

LEMMA LoginStutter ==
    ASSUME LoginInv, UNCHANGED <<pc, uid, slave, balance, user_login>>
    PROVE  LoginInv' /\ (Locked => Locked')
<1>1. \A n : Turn(n)' <=> Turn(n)
  BY DEF Turn, At
<1> QED
  BY <1>1 DEF LoginInv, Locked

LEMMA LoginInit == WebInit => LoginInv /\ Locked
<1> SUFFICES ASSUME Login!Init PROVE LoginInv /\ Locked
  BY DEF WebInit
<1>1. /\ pc = [c \in Visitor |-> "new"] /\ uid \in [Visitor -> User]
      /\ slave = [c \in Visitor |-> 0] /\ balance = 1 /\ user_login = [v \in User |-> FALSE]
  BY DEF Login!Init
<1>2. instance \in Nat \ {0}
  BY ServerAssumptions DEF Login!LoginAssumption
<1>3. Turn(0)
  <2> SUFFICES ASSUME NEW i \in 1 .. instance PROVE Cardinality(At(i)) = 0 /\ ~(i < balance)
    BY DEF Turn
  <2>1. At(i) = {}
    BY <1>1, <1>2 DEF At
  <2> QED
    BY <1>1, <1>2, <2>1, FS_EmptySet
<1>4. LoginInv
  BY <1>1, <1>2, <1>3 DEF LoginInv
<1> QED
  BY <1>1, <1>4 DEF Locked

LEMMA LoginStep ==
    /\ LoginInv /\ [WebNext]_web => LoginInv'
    /\ ~multilogin /\ LoginInv /\ Locked /\ [WebNext]_web => Locked'
<1> SUFFICES ASSUME LoginInv, [WebNext]_web
             PROVE  LoginInv' /\ (~multilogin /\ Locked => Locked')
  OBVIOUS
<1>1. CASE Login!Next
  <2> SUFFICES ASSUME NEW c \in Visitor,
                      \/ Login!Accept(c) \/ Login!Refused(c) \/ Login!Login(c)
                      \/ Login!NotAcceptable(c) \/ Login!LoggedIn(c) \/ Login!Fail(c)
               PROVE  LoginInv' /\ (~multilogin /\ Locked => Locked')
    BY <1>1 DEF Login!Next
  <2>1. CASE Login!Accept(c)
    BY <2>1, AcceptStep
  <2>2. CASE Login!Refused(c) \/ Login!Login(c) \/ Login!NotAcceptable(c) \/ Login!LoggedIn(c)
    BY <2>2, LoggingStep
  <2>3. CASE Login!Fail(c)
    BY <2>3, LoginStutter DEF Login!Fail
  <2> QED BY <2>1, <2>2, <2>3
<1>2. CASE UNCHANGED login_vars
  BY <1>2, LoginStutter DEF login_vars
<1>3. Login!Next \/ UNCHANGED login_vars
  BY DEF WebNext, In, web
<1> QED
  BY <1>1, <1>2, <1>3

LEMMA SlavesBalanced == LoginInv => Login!Balanced
<1> SUFFICES ASSUME LoginInv, NEW i \in 1 .. instance, NEW j \in 1 .. instance
             PROVE  Cardinality(At(i)) <= Cardinality(At(j)) + 1
  BY DEF Login!Balanced, At, Login!Cardinality, Cardinality, Login!IsFiniteSet, IsFiniteSet
<1>1. PICK n \in Nat : Turn(n)
  BY DEF LoginInv
<1>2. (Cardinality(At(i)) = n \/ Cardinality(At(i)) = n + 1)
  BY <1>1 DEF Turn
<1>3. (Cardinality(At(j)) = n \/ Cardinality(At(j)) = n + 1)
  BY <1>1 DEF Turn
<1> QED
  BY ONLY n \in Nat, <1>2, <1>3

\* Without multilogin nobody is in login twice at once, and a user is locked
\* exactly while one of his logins is under way, whoever fails or goes
\* (loginserver.lua).
THEOREM LoginsLocked == ~multilogin /\ WebSpec => []Login!OneLogin
<1>1. Locked => Login!OneLogin
  BY DEF Locked, Login!OneLogin
<1>2. ~multilogin /\ LoginInv /\ Locked /\ [WebNext]_web => Locked'
  BY LoginStep
<1>3. LoginInv /\ [WebNext]_web => LoginInv'
  BY LoginStep
<1>4. SUFFICES ASSUME ~multilogin PROVE WebSpec => []Login!OneLogin
  OBVIOUS
<1> QED
  BY <1>1, <1>2, <1>3, <1>4, LoginInit, PTL DEF WebSpec

\* No slave of the login server has more than one connection more than another.
THEOREM SlavesInTurn == WebSpec => []Login!Balanced
<1>1. LoginInv /\ [WebNext]_web => LoginInv'
  BY LoginStep
<1> QED
  BY <1>1, LoginInit, SlavesBalanced, PTL DEF WebSpec
=============================================================================
