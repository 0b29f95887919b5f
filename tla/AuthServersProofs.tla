------------------------- MODULE AuthServersProofs -------------------------
(***************************************************************************)
(* Proofs about AuthServers, for any number of servers and callers.        *)
(*                                                                         *)
(* The search of _connect_auth_server is described by what its holder of   *)
(* the lock has done so far: after level - 1 failures the list is the one  *)
(* found on entry, turned by level - 1 places, and exactly the servers in  *)
(* the places passed have been tried.                                      *)
(***************************************************************************)
EXTENDS AuthServers, TLAPS

N == Len(ConfOrder)
Searching == {"resolve", "open"}

\* A list that holds every configured server.
Complete(list) ==
    /\ list \in Seq(Servers) /\ Len(list) = N
    /\ \A s \in Servers : \E j \in 1 .. N : list[j] = s

\* Exactly the holder of the lock is searching.
HolderOK == \A t \in Threads : pc[t] \in Searching <=> lock = t

\* The list has been turned by level - 1 places since the search began.
Turned ==
    \A j \in 1 .. N :
        auth_servers[j] = IF j + level - 1 <= N THEN before[j + level - 1]
                          ELSE before[j + level - 1 - N]

SearchOK ==
    lock # Free =>
        /\ Complete(before) /\ level \in 1 .. (N + 1)
        /\ Turned
        /\ tried = {before[j] : j \in 1 .. (level - 1)}
        /\ pc[lock] = "open" => level <= N

\* A thread that sends a request or waits for the answer is connected.
SocketsOK == \A t \in Threads : pc[t] \in {"online", "sent"} => sock[t] \in Servers

Inv ==
    /\ TypeOK /\ Complete(auth_servers) /\ HolderOK /\ SearchOK /\ SocketsOK
    /\ lock = Free => level = 0
    /\ WhitelistCovers /\ PassthroughMatches

\* The configured list is complete.
LEMMA ConfComplete == N \in Nat \ {0} /\ Complete(ConfOrder)
  BY ServersAssumption DEF N, Complete, Servers

\* What mark_auth_server_bad makes of a list.
LEMMA BadFacts ==
    ASSUME NEW list, Complete(list)
    PROVE  /\ Complete(mark_auth_server_bad(list))
           /\ \A j \in 1 .. (N - 1) : mark_auth_server_bad(list)[j] = list[j + 1]
           /\ mark_auth_server_bad(list)[N] = list[1]
           /\ Head(list) = list[1] /\ list[1] \in Servers
  <1> DEFINE r == mark_auth_server_bad(list)
  <1>0. N \in Nat \ {0} /\ list \in Seq(Servers) /\ Len(list) = N
    BY ConfComplete DEF Complete
  <1>1. Head(list) = list[1] /\ list[1] \in Servers
    BY <1>0
  <1>2. Tail(list) \in Seq(Servers) /\ Len(Tail(list)) = N - 1
    BY <1>0
  <1>3. \A j \in 1 .. (N - 1) : Tail(list)[j] = list[j + 1]
    BY <1>0
  <1>4. r \in Seq(Servers) /\ Len(r) = N
    BY <1>0, <1>1, <1>2 DEF mark_auth_server_bad
  <1>5. \A j \in 1 .. (N - 1) : r[j] = list[j + 1]
    BY <1>0, <1>1, <1>2, <1>3 DEF mark_auth_server_bad
  <1>6. r[N] = list[1]
    BY <1>0, <1>1, <1>2 DEF mark_auth_server_bad
  <1>7. \A s \in Servers : \E j \in 1 .. N : r[j] = s
    <2> TAKE s \in Servers
    <2>1. PICK j \in 1 .. N : list[j] = s
      BY DEF Complete
    <2>2. CASE j = 1
      BY <1>0, <1>6, <2>1, <2>2
    <2>3. CASE j # 1
      <3>1. j - 1 \in 1 .. (N - 1) /\ j - 1 \in 1 .. N /\ (j - 1) + 1 = j
        BY <1>0, <2>3
      <3> QED
        BY <1>5, <2>1, <3>1
    <2> QED
      BY <2>2, <2>3
  <1> QED
    BY <1>1, <1>4, <1>5, <1>6, <1>7 DEF Complete

\* The times are counted up to a positive limit.
LEMMA LimitNat == Limit \in Nat \ {0}
  BY NetworkAssumption DEF Limit

\* Before the first call.
LEMMA InitInv == Init => Inv
  <1> SUFFICES ASSUME Init PROVE Inv
    OBVIOUS
  <1>1. Complete(auth_servers) /\ N \in Nat \ {0}
    BY ConfComplete DEF Init
  <1>2. TypeOK
    <2>1. auth_servers \in Seq(Servers) /\ before \in Seq(Servers)
      BY <1>1 DEF Init, Complete
    <2>2. level \in 0 .. (Len(ConfOrder) + 1)
      BY <1>1 DEF Init, N
    <2>3. age \in [Links -> 0 .. Limit] /\ gap \in [Links -> 0 .. Limit]
      BY LimitNat DEF Init
    <2>4. /\ seen \in [Links -> BOOLEAN] /\ heard \in BOOLEAN
          /\ authdown \in BOOLEAN /\ settled \in Worlds \cup {"no"}
      BY DEF Init
    <2>5. /\ lock \in Threads \cup {Free} /\ pc \in [Threads -> Labels]
          /\ auth_server \in [Threads -> Servers \cup {NULL}]
          /\ sock \in [Threads -> Servers \cup {NULL}]
      BY DEF Init, Labels
    <2> QED
      BY <2>1, <2>2, <2>3, <2>4, <2>5 DEF Init, TypeOK
  <1>3. HolderOK /\ SearchOK /\ SocketsOK
    BY CallersAssumption DEF Init, HolderOK, SearchOK, SocketsOK, Searching
  <1>4. WhitelistCovers /\ PassthroughMatches
    BY DEF Init, WhitelistCovers, PassthroughMatches
  <1> QED
    BY <1>1, <1>2, <1>3, <1>4 DEF Inv, Init

-----------------------------------------------------------------------------
(* The search.                                                             *)

SearchInv ==
    /\ Complete(auth_servers) /\ HolderOK /\ SearchOK
    /\ lock = Free => level = 0

\* The thread that searches is alone and knows what it has done.
LEMMA HolderFacts ==
    ASSUME Inv, NEW t \in Threads, pc[t] \in Searching
    PROVE  /\ lock = t /\ lock # Free /\ \A u \in Threads \ {t} : pc[u] \notin Searching
           /\ Complete(before) /\ level \in 1 .. (N + 1) /\ Turned
           /\ tried = {before[j] : j \in 1 .. (level - 1)}
           /\ pc[t] = "open" => level <= N
  <1>1. lock = t /\ lock # Free
    BY CallersAssumption DEF Inv, HolderOK
  <1>2. \A u \in Threads \ {t} : pc[u] \notin Searching
    BY <1>1 DEF Inv, HolderOK
  <1> QED
    BY <1>1, <1>2 DEF Inv, SearchOK

\* Steps of a thread that is not searching leave the search alone.
LEMMA SearchOutside ==
    ASSUME Inv, NEW t \in Threads, pc[t] \notin Searching, pc'[t] \notin Searching,
           \A u \in Threads \ {t} : pc'[u] = pc[u],
           UNCHANGED <<lock, auth_servers, level, before, tried>>
    PROVE  SearchInv'
  <1>1. HolderOK'
    BY DEF Inv, HolderOK
  <1>2. lock # Free => lock # t /\ pc'[lock] = pc[lock]
    BY DEF Inv, TypeOK, HolderOK
  <1>3. Turned' <=> Turned
    BY DEF Turned
  <1>4. /\ Complete(before)' <=> Complete(before)
        /\ Complete(auth_servers)' <=> Complete(auth_servers)
    BY DEF Complete
  <1>5. SearchOK'
    BY <1>2, <1>3, <1>4 DEF Inv, SearchOK
  <1> QED
    BY <1>1, <1>4, <1>5 DEF Inv, SearchInv

\* A search begins with the list as it is.
LEMMA SearchBegins ==
    ASSUME Inv, NEW t \in Threads, Acquire(t)
    PROVE  SearchInv'
  <1>1. /\ lock = Free /\ lock' = t /\ level' = 1 /\ before' = auth_servers /\ tried' = {}
        /\ auth_servers' = auth_servers /\ pc'[t] = "resolve"
        /\ \A u \in Threads \ {t} : pc'[u] = pc[u] /\ pc[u] \notin Searching
    BY CallersAssumption DEF Acquire, Goto, Inv, TypeOK, HolderOK
  <1>2. HolderOK'
    BY <1>1 DEF HolderOK, Searching
  <1>3. Complete(auth_servers)' /\ Complete(before)'
    BY <1>1 DEF Inv, Complete
  <1>4. Turned' /\ tried' = {before'[j] : j \in 1 .. (level' - 1)} /\ level' \in 1 .. (N + 1)
    BY <1>1, ConfComplete DEF Turned
  <1> QED
    BY <1>1, <1>2, <1>3, <1>4, CallersAssumption DEF SearchInv, SearchOK

\* A search ends: the lock is given up.
LEMMA SearchEnds ==
    ASSUME Inv, NEW t \in Threads, pc[t] \in Searching, pc'[t] \notin Searching,
           \A u \in Threads \ {t} : pc'[u] = pc[u],
           lock' = Free, level' = 0, auth_servers' = auth_servers
    PROVE  SearchInv'
  <1>1. \A u \in Threads : pc'[u] \notin Searching
    BY HolderFacts
  <1>2. HolderOK'
    BY <1>1, CallersAssumption DEF HolderOK
  <1> QED
    BY <1>2 DEF Inv, SearchInv, SearchOK, Complete

\* The head is put last and the next level begins.
LEMMA SearchTurns ==
    ASSUME Inv, NEW t \in Threads, pc[t] \in Searching, level <= N, TryNext(t)
    PROVE  SearchInv'
  <1>1. /\ lock = t /\ lock # Free /\ \A u \in Threads \ {t} : pc[u] \notin Searching
        /\ Complete(before) /\ level \in 1 .. (N + 1) /\ Turned
        /\ tried = {before[j] : j \in 1 .. (level - 1)}
    BY HolderFacts
  <1>2. /\ lock' = lock /\ before' = before /\ level' = level + 1 /\ pc'[t] = "resolve"
        /\ \A u \in Threads \ {t} : pc'[u] = pc[u]
        /\ auth_servers' = mark_auth_server_bad(auth_servers)
        /\ tried' = tried \cup {Head(auth_servers)}
    BY DEF TryNext, Goto, Inv, TypeOK
  <1>3. /\ N \in Nat \ {0} /\ Complete(auth_servers)' /\ Head(auth_servers) = auth_servers[1]
        /\ \A j \in 1 .. (N - 1) : auth_servers'[j] = auth_servers[j + 1]
        /\ auth_servers'[N] = auth_servers[1]
    <2>1. Complete(auth_servers)
      BY DEF Inv
    <2>2. Complete(auth_servers)' <=> Complete(mark_auth_server_bad(auth_servers))
      BY <1>2 DEF Complete
    <2> QED
      BY <1>2, <2>1, <2>2, BadFacts, ConfComplete
  <1>4. HolderOK'
    BY <1>1, <1>2 DEF HolderOK, Searching
  <1>5. auth_servers[1] = before[level]
    BY <1>1, <1>3 DEF Turned
  <1>6. Turned'
    <2> SUFFICES ASSUME NEW j \in 1 .. N
                 PROVE  auth_servers'[j] = IF j + level <= N THEN before[j + level]
                                           ELSE before[j + level - N]
      BY <1>1, <1>2 DEF Turned
    <2>1. CASE j = N
      BY <1>1, <1>3, <1>5, <2>1
    <2>2. CASE j # N
      <3>1. j \in 1 .. (N - 1) /\ j + 1 \in 1 .. N
        BY <1>3, <2>2
      <3>2. auth_servers[j + 1] = IF j + 1 + level - 1 <= N THEN before[j + 1 + level - 1]
                                  ELSE before[j + 1 + level - 1 - N]
        BY <1>1, <3>1 DEF Turned
      <3>3. j + 1 + level - 1 = j + level /\ j + 1 + level - 1 - N = j + level - N
        BY <1>1, <1>3
      <3> QED
        BY <1>3, <3>1, <3>2, <3>3
    <2> QED
      BY <2>1, <2>2
  <1>7. tried' = {before[j] : j \in 1 .. level}
    <2>1. 1 .. level = 1 .. (level - 1) \cup {level}
      BY <1>1
    <2> QED
      BY <1>1, <1>2, <1>3, <1>5, <2>1
  <1>8. level' \in 1 .. (N + 1) /\ level' - 1 = level
    BY <1>1, <1>2, <1>3
  <1>9. SearchOK'
    <2>1. Complete(before)'
      BY <1>1, <1>2 DEF Complete
    <2>2. tried' = {before'[j] : j \in 1 .. (level' - 1)}
      BY <1>2, <1>7, <1>8
    <2>3. pc'[lock'] # "open"
      BY <1>1, <1>2
    <2> QED
      BY <1>6, <1>8, <2>1, <2>2, <2>3 DEF SearchOK
  <1> QED
    BY <1>1, <1>2, <1>3, <1>4, <1>9 DEF SearchInv

\* Every step preserves what is said of the search.
LEMMA SearchStep ==
    ASSUME Inv, [Next]_vars
    PROVE  SearchInv'
  <1> USE DEF vars, callVars, holderVars, statusVars, downVars
  <1>1. ASSUME NEW t \in Threads, Call(t) \/ Failed(t) \/ Send(t) \/ Answer(t)
        PROVE  SearchInv'
    <2>1. /\ pc[t] \notin Searching /\ pc'[t] \notin Searching
          /\ \A u \in Threads \ {t} : pc'[u] = pc[u]
          /\ UNCHANGED <<lock, auth_servers, level, before, tried>>
      BY <1>1 DEF Call, Failed, Send, Answer, Goto, Searching, Inv, TypeOK
    <2> QED
      BY <2>1, SearchOutside
  <1>2. ASSUME NEW t \in Threads,
               TooManyLevels(t) \/ NoNetwork(t) \/ NoSocket(t) \/ Connected(t)
        PROVE  SearchInv'
    <2>1. /\ pc[t] \in Searching /\ pc'[t] \notin Searching
          /\ \A u \in Threads \ {t} : pc'[u] = pc[u]
          /\ lock' = Free /\ level' = 0 /\ auth_servers' = auth_servers
      BY <1>2 DEF TooManyLevels, NoNetwork, NoSocket, Connected, GiveUp, Goto, Searching, Inv, TypeOK
    <2> QED
      BY <2>1, SearchEnds
  <1>3. ASSUME NEW t \in Threads, Unresolved(t) \/ Refused(t)
        PROVE  SearchInv'
    <2>1. pc[t] \in Searching /\ TryNext(t)
      BY <1>3 DEF Unresolved, Refused, Searching
    <2>2. level <= N
      BY <1>3, <2>1, HolderFacts DEF Unresolved, Refused, Inv, Complete
    <2> QED
      BY <2>1, <2>2, SearchTurns
  <1>4. ASSUME NEW t \in Threads, Resolved(t)
        PROVE  SearchInv'
    <2>1. /\ pc[t] = "resolve" /\ pc'[t] = "open" /\ level <= N
          /\ \A u \in Threads \ {t} : pc'[u] = pc[u]
          /\ UNCHANGED <<lock, auth_servers, level, before, tried>>
      BY <1>4 DEF Resolved, Goto, Inv, TypeOK, Complete
    <2>2. HolderOK'
      BY <2>1 DEF Inv, HolderOK, Searching
    <2>3. Turned' <=> Turned
      BY <2>1 DEF Turned
    <2>4. SearchOK'
      BY <2>1, <2>3, HolderFacts DEF Searching, SearchOK, Complete
    <2> QED
      BY <2>1, <2>2, <2>4 DEF Inv, SearchInv, Complete
  <1>5. CASE Tick \/ Settle \/ UNCHANGED vars
    <2>1. UNCHANGED <<lock, auth_servers, level, before, tried, pc>>
      BY <1>5 DEF Tick, Settle
    <2>2. /\ Turned' <=> Turned
          /\ Complete(before)' <=> Complete(before)
          /\ Complete(auth_servers)' <=> Complete(auth_servers)
      BY <2>1 DEF Turned, Complete
    <2> QED
      BY <2>1, <2>2 DEF Inv, SearchInv, SearchOK, HolderOK
  <1> QED
    BY <1>1, <1>2, <1>3, <1>4, <1>5, SearchBegins DEF Next, Step

-----------------------------------------------------------------------------
(* Types.  Those of the search follow from SearchInv.                      *)

\* The threads' locals, the addresses, the status and ping()'s flag.
CallTypes ==
    /\ pc \in [Threads -> Labels]
    /\ auth_server \in [Threads -> Servers \cup {NULL}]
    /\ sock \in [Threads -> Servers \cup {NULL}]
    /\ heard \in BOOLEAN
AddressTypes ==
    /\ last_ip \in [Servers -> Addresses \cup {NULL}]
    /\ whitelist \subseteq Addresses \ {ZeroAddress}
StatusTypes ==
    /\ seen \in [Links -> BOOLEAN]
    /\ age \in [Links -> 0 .. Limit]
    /\ gap \in [Links -> 0 .. Limit]
    /\ settled \in Worlds \cup {"no"}
DownTypes == authdown \in BOOLEAN /\ down_rules \in Nat

\* The head of the list is a configured server.
LEMMA HeadTyped == Inv => Head(auth_servers) \in Servers
  BY BadFacts DEF Inv

\* Calls keep their locals typed.
LEMMA CallStep ==
    ASSUME Inv, [Next]_vars
    PROVE  CallTypes' /\ SocketsOK'
  <1> USE DEF vars, callVars, holderVars, statusVars, downVars
  <1>0. CallTypes /\ SocketsOK /\ Head(auth_servers) \in Servers
    BY HeadTyped DEF Inv, TypeOK, CallTypes
  <1>1. ASSUME NEW t \in Threads, NEW l \in Labels \ {"online", "sent"}, Goto(t, l),
               \/ UNCHANGED sock
               \/ \E x \in Servers \cup {NULL} : sock' = [sock EXCEPT ![t] = x],
               \/ UNCHANGED auth_server
               \/ \E x \in Servers \cup {NULL} : auth_server' = [auth_server EXCEPT ![t] = x],
               heard' \in BOOLEAN
        PROVE  CallTypes' /\ SocketsOK'
    <2>2. /\ pc' \in [Threads -> Labels]
          /\ auth_server' \in [Threads -> Servers \cup {NULL}]
          /\ sock' \in [Threads -> Servers \cup {NULL}]
      BY <1>0, <1>1 DEF CallTypes, Goto
    <2>3. SocketsOK'
      BY <1>0, <1>1 DEF CallTypes, SocketsOK, Goto
    <2> QED
      BY <1>1, <2>2, <2>3 DEF CallTypes
  <1>h. heard \in BOOLEAN
    BY <1>0 DEF CallTypes
  <1>2. \A t \in Threads : Call(t) \/ Acquire(t) => CallTypes' /\ SocketsOK'
    BY <1>0, <1>1, <1>h DEF Call, Acquire, Labels
  <1>3. \A t \in Threads : TooManyLevels(t) \/ NoNetwork(t) \/ NoSocket(t) => CallTypes' /\ SocketsOK'
    BY <1>1, <1>h DEF TooManyLevels, NoNetwork, NoSocket, GiveUp, Labels
  <1>4. \A t \in Threads : Unresolved(t) \/ Refused(t) \/ Resolved(t) => CallTypes' /\ SocketsOK'
    BY <1>1, <1>h DEF Unresolved, Refused, Resolved, TryNext, Labels
  <1>5. \A t \in Threads : Failed(t) => CallTypes' /\ SocketsOK'
    BY <1>0, <1>1, <1>h DEF Failed, Labels
  <1>c. \A t \in Threads : Connected(t) => CallTypes' /\ SocketsOK'
    BY <1>0 DEF Connected, Goto, CallTypes, SocketsOK, Labels
  <1>6. ASSUME NEW t \in Threads, Answer(t)
        PROVE  CallTypes' /\ SocketsOK'
    <2>1. PICK o \in Outcome(sock[t]) : heard' = IF t = Ping THEN o = "up" ELSE heard
      BY <1>6 DEF Answer
    <2>2. heard' \in BOOLEAN
      BY <1>0, <2>1 DEF CallTypes
    <2> QED
      BY <1>1, <1>6, <2>2 DEF Answer, Labels
  <1>7. ASSUME NEW t \in Threads, Send(t)
        PROVE  CallTypes' /\ SocketsOK'
    <2>1. /\ pc[t] = "online" /\ Goto(t, "sent") /\ UNCHANGED <<auth_server, sock, heard>>
      BY <1>7 DEF Send
    <2>2. sock[t] \in Servers
      BY <2>1 DEF Inv, SocketsOK
    <2> QED
      BY <1>0, <2>1, <2>2 DEF CallTypes, SocketsOK, Goto, Labels
  <1>8. CASE Tick \/ Settle \/ UNCHANGED vars
    BY <1>0, <1>8 DEF Tick, Settle, CallTypes, SocketsOK
  <1> QED
    BY <1>2, <1>3, <1>4, <1>5, <1>c, <1>6, <1>7, <1>8 DEF Next, Step

\* The whitelist covers every known address when it is written, and an
\* address that is forgotten needs no cover.
LEMMA AddressStep ==
    ASSUME Inv, [Next]_vars
    PROVE  AddressTypes' /\ WhitelistCovers'
  <1> USE DEF vars, callVars, holderVars, statusVars, downVars
  <1>0. AddressTypes /\ WhitelistCovers /\ Head(auth_servers) \in Servers
    BY HeadTyped DEF Inv, TypeOK, AddressTypes
  <1>1. CASE UNCHANGED <<last_ip, whitelist>>
    BY <1>0, <1>1 DEF AddressTypes, WhitelistCovers
  <1>2. ASSUME NEW t \in Threads, Unresolved(t)
        PROVE  AddressTypes' /\ WhitelistCovers'
    BY <1>0, <1>2 DEF Unresolved, AddressTypes, WhitelistCovers
  <1>3. ASSUME NEW t \in Threads, Resolved(t)
        PROVE  AddressTypes' /\ WhitelistCovers'
    <2>1. PICK a \in Addresses :
            /\ last_ip' = [last_ip EXCEPT ![Head(auth_servers)] = a]
            /\ \/ last_ip[Head(auth_servers)] # a /\ set_authservers(last_ip')
               \/ last_ip[Head(auth_servers)] = a /\ UNCHANGED whitelist
      BY <1>3 DEF Resolved
    <2>2. last_ip' \in [Servers -> Addresses \cup {NULL}]
      BY <1>0, <2>1 DEF AddressTypes
    <2>3. CASE last_ip[Head(auth_servers)] # a
      BY <2>1, <2>2, <2>3 DEF set_authservers, AddressTypes, WhitelistCovers
    <2>4. CASE last_ip[Head(auth_servers)] = a
      <3>1. last_ip' = last_ip
        BY <1>0, <2>1, <2>4 DEF AddressTypes
      <3> QED
        BY <1>1, <2>1, <2>4, <3>1
    <2> QED
      BY <2>3, <2>4
  <1> QED
    BY <1>1, <1>2, <1>3 DEF Next, Step, Call, Acquire, TooManyLevels, NoNetwork, NoSocket,
       Refused, Connected, Failed, Send, Answer, Tick, Settle

\* The status stays within its limits.
LEMMA StatusStep ==
    ASSUME Inv, [Next]_vars
    PROVE  StatusTypes'
  <1> USE DEF vars, callVars, holderVars, statusVars, downVars
  <1>0. StatusTypes /\ Limit \in Nat \ {0} /\ {"net", "auth"} \subseteq Links
    BY LimitNat DEF Inv, TypeOK, StatusTypes, Links
  <1>1. CASE UNCHANGED <<seen, age, gap, settled>>
    BY <1>0, <1>1 DEF StatusTypes
  <1>2. CASE mark_on /\ UNCHANGED settled
    BY <1>0, <1>2 DEF mark_on, StatusTypes
  <1>3. CASE mark_online /\ UNCHANGED settled
    <2>1. seen' \in [Links -> BOOLEAN]
      BY <1>0, <1>3, Zenon DEF mark_online, StatusTypes
    <2>2. age' \in [Links -> 0 .. Limit] /\ gap' \in [Links -> 0 .. Limit]
      BY <1>0, <1>3 DEF mark_online, StatusTypes
    <2> QED
      BY <1>0, <1>3, <2>1, <2>2 DEF StatusTypes
  <1>4. ASSUME NEW S, mark_off(S), UNCHANGED <<seen, age, settled>>
        PROVE  StatusTypes'
    BY <1>0, <1>4 DEF mark_off, StatusTypes
  <1>5. CASE Tick
    <2>1. \A n \in 0 .. Limit : Cap(n + 1) \in 0 .. Limit
      BY <1>0 DEF Cap
    <2> QED
      BY <1>0, <1>5, <2>1 DEF Tick, StatusTypes
  <1>6. CASE Settle
    BY <1>0, <1>6 DEF Settle, StatusTypes
  <1> QED
    BY <1>1, <1>2, <1>3, <1>4, <1>5, <1>6 DEF Next, Step, Call, Acquire, TooManyLevels, NoNetwork,
       NoSocket, Unresolved, Resolved, Refused, Connected, Failed, Send, Answer

\* ping() adds its rule once and removes it.
LEMMA DownStep ==
    ASSUME Inv, [Next]_vars
    PROVE  DownTypes' /\ PassthroughMatches'
  <1> USE DEF vars, callVars, holderVars, statusVars, downVars
  <1>0. DownTypes /\ PassthroughMatches /\ HasRuleset \in BOOLEAN
    BY NetworkAssumption DEF Inv, TypeOK, DownTypes
  <1>1. CASE UNCHANGED <<authdown, down_rules>>
    BY <1>0, <1>1 DEF DownTypes, PassthroughMatches
  <1>2. CASE fw_set_authdown
    BY <1>0, <1>2 DEF fw_set_authdown, DownTypes, PassthroughMatches
  <1>3. CASE fw_set_authup
    BY <1>0, <1>3 DEF fw_set_authup, DownTypes, PassthroughMatches
  <1> QED
    BY <1>1, <1>2, <1>3 DEF Next, Step, Call, Acquire, TooManyLevels, NoNetwork, NoSocket,
       Unresolved, Resolved, Refused, Connected, Failed, Send, Answer, Tick, Settle

\* The holder's variables are typed because of what the search says of them.
LEMMA HolderStep ==
    ASSUME Inv, [Next]_vars, SearchInv'
    PROVE  TypeOK'
  <1> USE DEF vars, callVars, holderVars, statusVars, downVars
  <1>1. CallTypes' /\ AddressTypes' /\ StatusTypes' /\ DownTypes'
    BY CallStep, AddressStep, StatusStep, DownStep
  <1>2. auth_servers' \in Seq(Servers)
    BY DEF SearchInv, Complete
  <1>3. lock' \in Threads \cup {Free}
    BY DEF Inv, TypeOK, Next, Step, Call, Acquire, TooManyLevels, NoNetwork, NoSocket, GiveUp,
       TryNext, Unresolved, Resolved, Refused, Connected, Failed, Send, Answer, Tick, Settle
  <1>4. before' \in Seq(Servers) /\ tried' \subseteq Servers
    <2>1. <<>> \in Seq(Servers) /\ Head(auth_servers) \in Servers
      BY HeadTyped
    <2>2. before' \in {before, <<>>, auth_servers}
      BY DEF Next, Step, Call, Acquire, TooManyLevels, NoNetwork, NoSocket, GiveUp, TryNext,
         Unresolved, Resolved, Refused, Connected, Failed, Send, Answer, Tick, Settle
    <2>3. tried' \in {tried, {}, tried \cup {Head(auth_servers)}}
      BY DEF Next, Step, Call, Acquire, TooManyLevels, NoNetwork, NoSocket, GiveUp, TryNext,
         Unresolved, Resolved, Refused, Connected, Failed, Send, Answer, Tick, Settle
    <2> QED
      BY <2>1, <2>2, <2>3 DEF Inv, TypeOK
  <1>5. level' \in 0 .. (Len(ConfOrder) + 1)
    BY ConfComplete DEF SearchInv, SearchOK, N
  <1> QED
    BY <1>1, <1>2, <1>3, <1>4, <1>5 DEF TypeOK, CallTypes, AddressTypes, StatusTypes, DownTypes

\* Every step preserves the invariant.
LEMMA InvStep == Inv /\ [Next]_vars => Inv'
  BY SearchStep, CallStep, AddressStep, DownStep, HolderStep DEF Inv, SearchInv

\* The inductive invariant holds in every state.
LEMMA Invariant == Spec => []Inv
  BY InitInv, InvStep, PTL DEF Spec

\* Type correctness of the search for an auth server.
THEOREM AuthTypeCorrect == Spec => []TypeOK
  BY Invariant, PTL DEF Inv

\* A known auth server address is always whitelisted, for any number of
\* servers that change, lose and share addresses.
THEOREM WhitelistSafe == Spec => []WhitelistCovers
  BY Invariant, PTL DEF Inv

\* The passthrough rule is in place exactly while ping() believes the auth
\* server down.
THEOREM PassthroughSafe == Spec => []PassthroughMatches
  BY Invariant, PTL DEF Inv

\* A search that is too deep has tried every server.
LEMMA TriedAll == Inv => EveryServerTried
  <1> SUFFICES ASSUME Inv, level > Len(auth_servers)
               PROVE  tried = Servers /\ auth_servers = before
    BY DEF EveryServerTried
  <1>1. N \in Nat \ {0} /\ Len(auth_servers) = N /\ auth_servers \in Seq(Servers)
    BY ConfComplete DEF Inv, Complete
  <1>2. lock # Free
    BY <1>1 DEF Inv
  <1>3. /\ before \in Seq(Servers) /\ Len(before) = N
        /\ \A s \in Servers : \E j \in 1 .. N : before[j] = s
    BY <1>2 DEF Inv, SearchOK, Complete
  <1>4. level = N + 1 /\ Turned /\ tried = {before[j] : j \in 1 .. (level - 1)}
    BY <1>1, <1>2 DEF Inv, SearchOK
  <1>5. tried = Servers
    <2>1. tried = {before[j] : j \in 1 .. N}
      BY <1>1, <1>4
    <2> QED
      BY <1>3, <2>1
  <1>6. \A j \in 1 .. N : auth_servers[j] = before[j]
    BY <1>1, <1>4 DEF Turned
  <1> QED
    BY <1>1, <1>3, <1>5, <1>6

\* connect_auth_server gives up only after it has tried every configured
\* server once, and then leaves the list in the order it found.
THEOREM SearchComplete == Spec => []EveryServerTried
  BY Invariant, TriedAll, PTL

=============================================================================
