---------------------------- MODULE AuthServers ----------------------------
(***************************************************************************)
(* How the gateway finds an auth server: the list config.auth_servers and  *)
(* its rotation (mark_auth_server_bad), connect_auth_server with its       *)
(* recursion over the list, the AUTHSERVERS whitelist kept in step with    *)
(* the resolved addresses, the reachability status of wd_util.c and the    *)
(* heartbeat of ping_thread.c with its AUTH_IS_DOWN rule.                  *)
(*                                                                         *)
(* The ping thread and the workers (request handlers, sync thread) call    *)
(* connect_auth_server concurrently.  It holds config_mutex ("lock") over  *)
(* name resolution and connect(), but its callers pick the server they     *)
(* format the request for before, and set the status after, without it.    *)
(***************************************************************************)
EXTENDS Integers, Sequences

CONSTANTS
    Ping, Workers,  \* the thread of thread_ping, and every other caller
    Free,           \* value of lock when nobody holds config_mutex
    ConfOrder,      \* the auth servers in the order of the configuration
    Addresses,      \* what a name may resolve to
    ZeroAddress,    \* 0.0.0.0, which is never whitelisted
    HasRuleset,     \* whether the configuration has an auth-is-down ruleset
    Interval,       \* checkinterval, in ticks
    Worlds,         \* the ways the network may settle in the long run
    FinalHealth     \* FinalHealth[w][s]: what then becomes of server s

Threads == Workers \cup {Ping}
Servers == {ConfOrder[j] : j \in 1 .. Len(ConfOrder)}
NULL == "NULL"

\* What an attempt may meet: no name resolves, popular servers included; only
\* this name does not; connect() fails; no socket is left; the server accepts
\* the connection but sends no usable answer; it answers.
Healths == {"offline", "unresolved", "refused", "nosocket", "mute", "up"}

ASSUME CallersAssumption == Ping \notin Workers /\ Free \notin Threads
ASSUME ServersAssumption ==
    /\ ConfOrder \in Seq(Servers) /\ Len(ConfOrder) > 0
    /\ \A i, j \in 1 .. Len(ConfOrder) : ConfOrder[i] = ConfOrder[j] => i = j
ASSUME AddressAssumption == Addresses # {} /\ NULL \notin Addresses
ASSUME NetworkAssumption ==
    /\ "no" \notin Worlds
    /\ FinalHealth \in [Worlds -> [Servers -> Healths]]
    /\ HasRuleset \in BOOLEAN
    /\ Interval \in Nat \ {0}

VARIABLES
    lock,           \* the thread that holds config_mutex, or Free
    auth_servers,   \* config.auth_servers, head first
    last_ip,        \* of each server
    whitelist,      \* addresses accepted by the AUTHSERVERS chains
    pc,
    auth_server,    \* the local of that name in the caller: who to talk to
    sock,           \* the server the caller's socket is connected to
    level,          \* recursion level of _connect_auth_server (lock holder)
    seen, age, gap, \* the status times, see below
    authdown,       \* the static flag of ping()
    down_rules,     \* rules in the AUTH_IS_DOWN chain
    heard,          \* ghost: whether the last heartbeat was answered
    settled,        \* the world the network settled on, "no" before
    before, tried   \* ghosts: the list and the servers tried in this call

callVars == <<auth_server, sock, heard>>
holderVars == <<level, before, tried>>
statusVars == <<seen, age, gap>>
downVars == <<authdown, down_rules>>
vars == <<lock, auth_servers, last_ip, whitelist, pc, callVars, holderVars,
          statusVars, downVars, settled>>

-----------------------------------------------------------------------------
(* wd_util.c.  For the network ("net") and the auth server ("auth") the    *)
(* code keeps the time of the last success and of the last failure and     *)
(* only asks whether the failure came 2 * checkinterval or more after the  *)
(* success.  So the ticks since the last success ("age") and the distance  *)
(* from it to the last failure ("gap", 0 when the success is later) are    *)
(* counted up to that limit; "seen" is last_..._online_time != 0.          *)

Links == {"net", "auth"}
Limit == 2 * Interval
Cap(n) == IF n > Limit THEN Limit ELSE n

mark_on ==
    /\ seen' = [k \in Links |-> TRUE]
    /\ age' = [k \in Links |-> 0]
    /\ gap' = [k \in Links |-> 0]

\* mark_online alone.
mark_online ==
    /\ seen' = [seen EXCEPT !["net"] = TRUE]
    /\ age' = [age EXCEPT !["net"] = 0]
    /\ gap' = [gap EXCEPT !["net"] = 0]

\* mark_offline (S = Links) and mark_auth_offline (S = {"auth"}).
\* Mutants: the failure is noted as if it had come with the last success, or
\* one tick after it came.
MarkOffLater(S) == gap' = [k \in Links |-> IF k \in S THEN age[k] + 1 ELSE gap[k]]
MarkOffAtSuccess(S) == gap' = [k \in Links |-> IF k \in S THEN 0 ELSE gap[k]]
mark_off(S) == gap' = [k \in Links |-> IF k \in S THEN age[k] ELSE gap[k]]

Recent(k) == seen[k] /\ gap[k] < Limit
is_online == Recent("net")
is_auth_online == is_online /\ Recent("auth")

-----------------------------------------------------------------------------
(* conf.c and fw_iptables.c.                                               *)

\* The bad server goes to the end of the list; a single one stays.
\* Mutant: it stays where it is.
KeepFirst(list) == list
mark_auth_server_bad(list) == Append(Tail(list), Head(list))

\* fw_clear_authservers, then fw_set_authservers with the addresses "known".
\* Mutant: the whitelist is cleared and not set again.
ClearOnly(known) == whitelist' = {}
set_authservers(known) == whitelist' = {known[s] : s \in Servers} \ {NULL, ZeroAddress}

\* iptables_fw_auth_unreachable and iptables_fw_auth_reachable, with the test
\* of authdown that ping() makes first.
\* Mutant: the rule is added for every ping that fails.
DownAgain ==
    /\ authdown' = TRUE
    /\ down_rules' = IF HasRuleset THEN down_rules + 1 ELSE down_rules
fw_set_authdown ==
    /\ authdown' = TRUE
    /\ down_rules' = IF ~authdown /\ HasRuleset THEN down_rules + 1 ELSE down_rules
fw_set_authup ==
    /\ authdown' = FALSE
    /\ down_rules' = IF authdown /\ HasRuleset THEN 0 ELSE down_rules

-----------------------------------------------------------------------------
(* centralserver.c.                                                        *)

Goto(t, label) == pc' = [pc EXCEPT ![t] = label]

\* Attempts made before the network settles may meet anything.
Outcome(s) == IF settled = "no" THEN Healths ELSE {FinalHealth[settled][s]}

\* auth_server_request and ping begin with get_auth_server(), unlocked.
Call(t) ==
    /\ pc[t] = "idle"
    /\ auth_server' = [auth_server EXCEPT ![t] = Head(auth_servers)]
    /\ Goto(t, "connect")
    /\ UNCHANGED <<lock, auth_servers, last_ip, whitelist, sock, heard, holderVars,
                   statusVars, downVars, settled>>

\* connect_auth_server: LOCK_CONFIG and the first level of the recursion.
Acquire(t) ==
    /\ pc[t] = "connect" /\ lock = Free
    /\ lock' = t
    /\ level' = 1 /\ before' = auth_servers /\ tried' = {}
    /\ Goto(t, "resolve")
    /\ UNCHANGED <<auth_servers, last_ip, whitelist, callVars, statusVars, downVars, settled>>

\* -1 is returned through every level, and the lock given up.
GiveUp(t) ==
    /\ lock' = Free
    /\ level' = 0 /\ before' = <<>> /\ tried' = {}
    /\ Goto(t, "failed")

\* The server is put last and the next level starts with the new head.
TryNext(t) ==
    /\ auth_servers' = mark_auth_server_bad(auth_servers)
    /\ level' = level + 1
    /\ tried' = tried \cup {Head(auth_servers)}
    /\ Goto(t, "resolve")
    /\ UNCHANGED <<lock, before>>

\* Every server was tried once.
TooManyLevels(t) ==
    /\ pc[t] = "resolve" /\ level > Len(auth_servers)
    /\ GiveUp(t)
    /\ UNCHANGED <<auth_servers, last_ip, whitelist, callVars, statusVars, downVars, settled>>

\* Neither the server's name nor a popular one resolves: mark_offline.
NoNetwork(t) ==
    /\ pc[t] = "resolve" /\ level <= Len(auth_servers)
    /\ "offline" \in Outcome(Head(auth_servers))
    /\ mark_off(Links)
    /\ GiveUp(t)
    /\ UNCHANGED <<auth_servers, last_ip, whitelist, callVars, seen, age, downVars, settled>>

\* Only the server's name does not resolve: its address is forgotten.
Unresolved(t) ==
    /\ pc[t] = "resolve" /\ level <= Len(auth_servers)
    /\ "unresolved" \in Outcome(Head(auth_servers))
    /\ last_ip' = [last_ip EXCEPT ![Head(auth_servers)] = NULL]
    /\ TryNext(t)
    /\ UNCHANGED <<whitelist, callVars, statusVars, downVars, settled>>

\* The name resolves: mark_online, and the whitelist follows a new address.
Resolved(t) ==
    /\ pc[t] = "resolve" /\ level <= Len(auth_servers)
    /\ Outcome(Head(auth_servers)) \ {"offline", "unresolved"} # {}
    /\ mark_online
    /\ \E a \in Addresses :
         /\ last_ip' = [last_ip EXCEPT ![Head(auth_servers)] = a]
         /\ \/ last_ip[Head(auth_servers)] # a /\ set_authservers(last_ip')
            \/ last_ip[Head(auth_servers)] = a /\ UNCHANGED whitelist
    /\ Goto(t, "open")
    /\ UNCHANGED <<lock, auth_servers, callVars, holderVars, downVars, settled>>

NoSocket(t) ==
    /\ pc[t] = "open"
    /\ "nosocket" \in Outcome(Head(auth_servers))
    /\ GiveUp(t)
    /\ UNCHANGED <<auth_servers, last_ip, whitelist, callVars, statusVars, downVars, settled>>

Refused(t) ==
    /\ pc[t] = "open"
    /\ Outcome(Head(auth_servers)) \cap {"offline", "unresolved", "refused"} # {}
    /\ TryNext(t)
    /\ UNCHANGED <<last_ip, whitelist, callVars, statusVars, downVars, settled>>

Connected(t) ==
    /\ pc[t] = "open"
    /\ Outcome(Head(auth_servers)) \cap {"mute", "up"} # {}
    /\ sock' = [sock EXCEPT ![t] = Head(auth_servers)]
    /\ lock' = Free
    /\ level' = 0 /\ before' = <<>> /\ tried' = {}
    /\ Goto(t, "online")
    /\ UNCHANGED <<auth_servers, last_ip, whitelist, auth_server, heard, statusVars, downVars, settled>>

-----------------------------------------------------------------------------
(* The end of connect_auth_server and of its callers, unlocked.            *)

\* mark_auth_offline; http_get refuses the socket -1, ping() opens the way.
Failed(t) ==
    /\ pc[t] = "failed"
    /\ mark_off({"auth"})
    /\ heard' = (t # Ping /\ heard)
    /\ Goto(t, "idle")
    /\ auth_server' = [auth_server EXCEPT ![t] = NULL]
    /\ \/ t = Ping /\ fw_set_authdown
       \/ t # Ping /\ UNCHANGED downVars
    /\ UNCHANGED <<lock, auth_servers, last_ip, whitelist, sock, holderVars, seen, age, settled>>

\* mark_auth_online; the request, formatted for auth_server, goes out on sock.
Send(t) ==
    /\ pc[t] = "online"
    /\ mark_on
    /\ Goto(t, "sent")
    /\ UNCHANGED <<lock, auth_servers, last_ip, whitelist, callVars, holderVars, downVars, settled>>

\* http_get returns an answer, or nothing after 30 seconds; ping() looks for
\* Pong.  A server that does not answer keeps its place on the list.
Answer(t) ==
    /\ pc[t] = "sent"
    /\ \E o \in Outcome(sock[t]) :
         /\ heard' = IF t = Ping THEN o = "up" ELSE heard
         /\ \/ t = Ping /\ o = "up" /\ fw_set_authup
            \/ t = Ping /\ o # "up" /\ fw_set_authdown
            \/ t # Ping /\ UNCHANGED downVars
    /\ Goto(t, "idle")
    /\ sock' = [sock EXCEPT ![t] = NULL]
    /\ auth_server' = [auth_server EXCEPT ![t] = NULL]
    /\ UNCHANGED <<lock, auth_servers, last_ip, whitelist, holderVars, statusVars, settled>>

-----------------------------------------------------------------------------

Tick ==
    /\ \E k \in Links : age[k] < Limit
    /\ age' = [k \in Links |-> Cap(age[k] + 1)]
    /\ UNCHANGED <<lock, auth_servers, last_ip, whitelist, pc, callVars, holderVars,
                   seen, gap, downVars, settled>>

Settle ==
    /\ settled = "no"
    /\ settled' \in Worlds
    /\ UNCHANGED <<lock, auth_servers, last_ip, whitelist, pc, callVars, holderVars,
                   statusVars, downVars>>

Init ==
    /\ lock = Free
    /\ auth_servers = ConfOrder
    /\ last_ip = [s \in Servers |-> NULL]
    /\ whitelist = {}
    /\ pc = [t \in Threads |-> "idle"]
    /\ auth_server = [t \in Threads |-> NULL]
    /\ sock = [t \in Threads |-> NULL]
    /\ heard = FALSE
    /\ level = 0 /\ before = <<>> /\ tried = {}
    /\ seen = [k \in Links |-> FALSE]
    /\ age = [k \in Links |-> Limit]
    /\ gap = [k \in Links |-> 0]
    /\ authdown = FALSE /\ down_rules = 0
    /\ settled = "no"

Step(t) ==
    \/ Acquire(t) \/ TooManyLevels(t) \/ NoNetwork(t) \/ Unresolved(t) \/ Resolved(t)
    \/ NoSocket(t) \/ Refused(t) \/ Connected(t)
    \/ Failed(t) \/ Send(t) \/ Answer(t)

Next ==
    \/ \E t \in Threads : Call(t) \/ Step(t)
    \/ Tick
    \/ Settle

Fairness ==
    /\ \A t \in Threads : SF_vars(Step(t))
    /\ WF_vars(Call(Ping))
    /\ WF_vars(Tick)

Spec == Init /\ [][Next]_vars
FairSpec == Spec /\ Fairness

-----------------------------------------------------------------------------
(* Properties.                                                             *)

Labels == {"idle", "connect", "resolve", "open", "failed", "online", "sent"}

\* Every variable has the type the code gives it.
TypeOK ==
    /\ lock \in Threads \cup {Free}
    /\ auth_servers \in Seq(Servers)
    /\ last_ip \in [Servers -> Addresses \cup {NULL}]
    /\ whitelist \subseteq Addresses \ {ZeroAddress}
    /\ pc \in [Threads -> Labels]
    /\ auth_server \in [Threads -> Servers \cup {NULL}]
    /\ sock \in [Threads -> Servers \cup {NULL}]
    /\ heard \in BOOLEAN
    /\ level \in 0 .. (Len(ConfOrder) + 1)
    /\ before \in Seq(Servers)
    /\ tried \subseteq Servers
    /\ seen \in [Links -> BOOLEAN]
    /\ age \in [Links -> 0 .. Limit]
    /\ gap \in [Links -> 0 .. Limit]
    /\ authdown \in BOOLEAN /\ down_rules \in Nat
    /\ settled \in Worlds \cup {"no"}

\* When _connect_auth_server gives up because the recursion is too deep, it
\* has tried every configured server, and the rotations have brought the list
\* back to the order it found: an outage does not change the preference.
EveryServerTried ==
    level > Len(auth_servers) => tried = Servers /\ auth_servers = before

\* Clients can reach every auth server whose address is known, whatever the
\* order in which servers change, lose and regain their addresses.
WhitelistCovers ==
    \A s \in Servers : last_ip[s] \notin {NULL, ZeroAddress} => last_ip[s] \in whitelist

\* The way is open for everybody (AUTH_IS_DOWN) exactly while ping() believes
\* the auth server down, with one rule: no series of failed pings stacks up
\* rules or leaves one behind.
PassthroughMatches ==
    down_rules = IF authdown /\ HasRuleset THEN 1 ELSE 0

Answering(w) == {s \in Servers : FinalHealth[w][s] = "up"}

\* wifidog.conf: servers are tried in order until one responds.  Once the
\* network has settled with a server that answers, the heartbeat is answered.
TriedUntilOneResponds ==
    \A w \in {v \in Worlds : Answering(v) # {}} : settled = w ~> heard

\* With some server that answers and the others refusing or unresolvable,
\* every thread ends up on a server that answers, the status says so and the
\* way for everybody is closed, for good.
FailsOver(w) ==
    /\ Answering(w) # {}
    /\ \A s \in Servers \ Answering(w) : FinalHealth[w][s] \in {"unresolved", "refused"}
Recovered(w) ==
    /\ Head(auth_servers) \in Answering(w)
    /\ is_auth_online /\ ~authdown
FailoverConverges ==
    \A w \in {v \in Worlds : FailsOver(v)} : settled = w ~> []Recovered(w)

\* When no server can be connected to any more, the gateway notices: the
\* status turns to offline and the way is opened, for good.
Outage(w) == \A s \in Servers : FinalHealth[w][s] \in {"offline", "unresolved", "refused"}
OutageNoticed ==
    \A w \in {v \in Worlds : Outage(v)} : settled = w ~> [](~is_auth_online /\ authdown)
=============================================================================
