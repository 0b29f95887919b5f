------------------------ MODULE SessionsRefinement ------------------------
(***************************************************************************)
(* ClientSessions implements Sessions: every step of the threads is, seen  *)
(* through the mapping Promise, one step in the life of one session or     *)
(* none that shows.  For every set of threads, addresses, MACs and tokens  *)
(* and for every bound.                                                    *)
(***************************************************************************)
EXTENDS ClientSessionsProofs

-----------------------------------------------------------------------------
(* A session ends without access: who takes a client off the list has      *)
(* denied it before, and nobody else comes in between.                     *)

DeniedFirst ==
    \A t \in Threads :
        (pc[t] \in Locking /\ after[t] # "unlock") =>
            node[cur[t]].fw_connection_state = FW_MARK_NONE

\* At first no thread works on a client.
LEMMA DeniedInit == Init => DeniedFirst
  BY DEF Init, DeniedFirst, Locking

\* While the list is unlocked nobody is at a firewall command, so a thread
\* that does not start one disturbs nothing.
LEMMA DeniedIdle ==
    ASSUME TypeInv, NodesInv, NEW t \in Threads, lock = Free,
           pc'[t] \notin Locking, \A u \in Threads \ {t} : pc'[u] = pc[u]
    PROVE  DeniedFirst'
  BY ThreadsAssumption DEF NodesInv, LockOK, DeniedFirst

\* Nor does a thread without a firewall command that leaves the clients alone.
LEMMA DeniedFrame ==
    ASSUME DeniedFirst, NEW t \in Threads, pc'[t] \notin Locking,
           \A u \in Threads \ {t} : pc'[u] = pc[u] /\ cur'[u] = cur[u] /\ after'[u] = after[u],
           node' = node
    PROVE  DeniedFirst'
  BY DEF DeniedFirst

\* fw_deny takes the mark away first; after fw_allow the client stays.
LEMMA DeniedStart ==
    ASSUME TypeInv, NodesInv, NEW t \in Threads, lock = Free, NEW i \in list, NEW x \in Tokens,
           \/ \E next \in {"unlock", "delete", "logout"} : fw_deny(t, i, x, next)
           \/ \E k \in Marks : fw_allow(t, i, k, x)
    PROVE  DeniedFirst'
  <1>1. \A u \in Threads \ {t} : pc'[u] = pc[u] /\ pc[u] \notin Locking
    BY ThreadsAssumption DEF NodesInv, LockOK, fw_deny, fw_allow, Goto, TypeInv, TypeOK
  <1>2. i \in Ids
    BY DEF TypeInv, TypeOK
  <1>3. CASE \E next \in {"unlock", "delete", "logout"} : fw_deny(t, i, x, next)
    <2>1. cur'[t] = i /\ SetState(i, FW_MARK_NONE, x)
      BY <1>3 DEF fw_deny, TypeInv, TypeOK
    <2>2. node'[i].fw_connection_state = FW_MARK_NONE
      BY <1>2, <2>1, SetStateFacts DEF TypeInv, Marks
    <2> QED
      BY <1>1, <2>1, <2>2 DEF DeniedFirst
  <1>4. CASE \E k \in Marks : fw_allow(t, i, k, x)
    <2>1. after'[t] = "unlock"
      BY <1>4 DEF fw_allow, TypeInv, TypeOK
    <2> QED
      BY <1>1, <2>1 DEF DeniedFirst
  <1> QED
    BY <1>3, <1>4

\* The firewall commands change no client, and the thread keeps its own.
LEMMA DeniedFirewall ==
    ASSUME TypeInv, NodesInv, DeniedFirst, NEW t \in Threads, FirewallStep(t) \/ LogoutStep(t)
    PROVE  DeniedFirst'
  <1> USE DEF listVars, ruleVars, localVars, syncVars, envVars, ghostVars
  <1>1. node' = node
    BY DEF FirewallStep, LogoutStep, GrantOut, GrantIn, ClearOut, ClearIn, ReportLogout, FreeNode
  <1>2. CASE /\ pc[t] \in Locking /\ \E l \in Locking : Goto(t, l)
             /\ UNCHANGED <<cur, after>>
    BY <1>1, <1>2 DEF DeniedFirst, Goto, TypeInv, TypeOK
  <1>3. CASE Return(t)
    <2>1. /\ pc'[t] \notin Locking
          /\ \A u \in Threads \ {t} : pc'[u] = pc[u] /\ cur'[u] = cur[u] /\ after'[u] = after[u]
      BY <1>3 DEF Return, Goto, Idle, Locking, TypeInv, TypeOK
    <2> QED
      BY <1>1, <2>1, DeniedFrame
  <1>4. CASE (Goto(t, "report") \/ Goto(t, "free")) /\ UNCHANGED <<cur, after>>
    <2>1. pc'[t] \notin Locking /\ \A u \in Threads \ {t} : pc'[u] = pc[u]
      BY <1>4 DEF Goto, Locking, TypeInv, TypeOK
    <2> QED
      BY <1>1, <1>4, <2>1, DeniedFrame
  <1> QED
    BY <1>2, <1>3, <1>4 DEF FirewallStep, LogoutStep, GrantOut, GrantIn, ClearOut, ClearIn,
                            ReportLogout, FreeNode, RemoveThenUnlock, Locking

\* A request either adds a client, or remembers its address, or logs out.
LEMMA DeniedArrival ==
    ASSUME TypeInv, NodesInv, NEW h \in Handlers, Arrival(h)
    PROVE  DeniedFirst'
  <1>1. h \in Threads /\ pc[h] = "idle" /\ lock = Free
    BY DEF Threads, Arrival, HttpAuth, HttpDisconnect, WdctlReset
  <1>2. CASE \E i \in list : logout_client(h, i)
    <2>1. \A i \in list : node[i].token \in Tokens
      BY DEF TypeInv, TypeOK, Client
    <2> QED
      BY <1>1, <1>2, <2>1, DeniedStart DEF logout_client
  <1>3. CASE Goto(h, "dup") \/ UNCHANGED pc
    <2>1. pc'[h] \notin Locking /\ \A u \in Threads \ {h} : pc'[u] = pc[u]
      BY <1>1, <1>3 DEF Goto, Locking, TypeInv, TypeOK
    <2> QED
      BY <1>1, <2>1, DeniedIdle
  <1> QED
    BY <1>2, <1>3, ZenonT(60) DEF Arrival, HttpAuth, HttpDisconnect, WdctlReset, ByIp, ByMac, ByIpMac

\* authenticate_client.
LEMMA DeniedLogin ==
    ASSUME TypeInv, NodesInv, DeniedFirst, NEW h \in Handlers,
           AuthDup(h) \/ LoginReply(h) \/ LoginVerdict(h)
    PROVE  DeniedFirst'
  <1> USE DEF listVars, ruleVars, localVars, syncVars, envVars, ghostVars
  <1>1. h \in Threads
    BY DEF Threads
  <1>2. CASE AuthDup(h) \/ LoginReply(h)
    <2>1. /\ pc'[h] \notin Locking /\ node' = node
          /\ \A u \in Threads \ {h} : pc'[u] = pc[u] /\ cur'[u] = cur[u] /\ after'[u] = after[u]
      BY <1>1, <1>2 DEF AuthDup, LoginReply, Return, Goto, Idle, Locking, TypeInv, TypeOK
    <2> QED
      BY <1>1, <2>1, DeniedFrame
  <1>3. CASE LoginVerdict(h)
    <2>1. pc[h] = "verdict" /\ lock = Free /\ tok[h] \in Tokens
      BY <1>1, <1>3 DEF LoginVerdict, TypeInv, LocalsOK, WithToken
    <2>2. CASE Return(h)
      <3>1. pc'[h] \notin Locking /\ \A u \in Threads \ {h} : pc'[u] = pc[u]
        BY <1>1, <2>2 DEF Return, Goto, Idle, Locking, TypeInv, TypeOK
      <3> QED
        BY <1>1, <2>1, <3>1, DeniedIdle
    <2>3. CASE \E i \in list : \/ fw_deny(h, i, tok[h], "unlock")
                               \/ \E k \in Marks : fw_allow(h, i, k, tok[h])
      BY <1>1, <2>1, <2>3, DeniedStart
    <2> QED
      BY <1>3, <2>2, <2>3 DEF LoginVerdict, LoginPage, find_by_client, Marks
  <1> QED
    BY <1>2, <1>3

\* The sync thread.
LEMMA DeniedSync ==
    ASSUME TypeInv, NodesInv, DeniedFirst,
           \/ SyncListOut \/ SyncListIn \/ SyncLine \/ SyncDup
           \/ SyncRequest \/ SyncDone \/ SyncCheck
    PROVE  DeniedFirst'
  <1> USE DEF listVars, ruleVars, localVars, syncVars, envVars, ghostVars
  <1>1. Sync \in Threads
    BY DEF Threads
  <1>2. CASE SyncListOut \/ SyncListIn \/ SyncLine \/ SyncDup \/ SyncRequest \/ SyncDone
    <2>1. /\ pc'[Sync] \notin Locking /\ node' = node
          /\ \A u \in Threads \ {Sync} : pc'[u] = pc[u] /\ cur'[u] = cur[u] /\ after'[u] = after[u]
      BY <1>1, <1>2 DEF SyncListOut, SyncListIn, SyncLine, SyncDup, SyncRequest, SyncDone, Goto,
                        Locking, TypeInv, TypeOK
    <2> QED
      BY <1>1, <2>1, DeniedFrame
  <1>3. CASE SyncCheck
    <2>1. lock = Free /\ \A i \in list : node[i].token \in Tokens
      BY <1>3 DEF SyncCheck, TypeInv, TypeOK, Client
    <2>2. CASE Return(Sync)
      <3>1. pc'[Sync] \notin Locking /\ \A u \in Threads \ {Sync} : pc'[u] = pc[u]
        BY <1>1, <2>2 DEF Return, Goto, Idle, Locking, TypeInv, TypeOK
      <3> QED
        BY <1>1, <2>1, <3>1, DeniedIdle
    <2>3. CASE \E i \in list : \/ \E next \in {"delete", "logout"} : fw_deny(Sync, i, node[i].token, next)
                               \/ \E k \in Marks : fw_allow(Sync, i, k, node[i].token)
      BY <1>1, <2>1, <2>3, DeniedStart
    <2> QED
      BY <1>3, <2>2, <2>3 DEF SyncCheck, logout_client, find_by_client, Marks
  <1> QED
    BY <1>2, <1>3

\* Every step keeps the clients that are about to go without access.
LEMMA DeniedStep == TypeInv /\ NodesInv /\ DeniedFirst /\ [Next]_vars => DeniedFirst'
  <1> SUFFICES ASSUME TypeInv, NodesInv, DeniedFirst, [Next]_vars PROVE DeniedFirst'
    OBVIOUS
  <1>1. CASE TimePasses \/ Settle \/ UNCHANGED vars
    BY <1>1 DEF TimePasses, Settle, vars, listVars, ruleVars, localVars, syncVars, envVars, ghostVars,
                DeniedFirst
  <1>2. CASE SyncStep
    BY <1>2, DeniedSync, DeniedFirewall DEF SyncStep, Threads
  <1>3. CASE \E h \in Handlers : Arrival(h) \/ HandlerStep(h)
    BY <1>3, DeniedArrival, DeniedLogin, DeniedFirewall DEF HandlerStep, Threads
  <1> QED
    BY <1>1, <1>2, <1>3 DEF Next

\* Whoever is taken off the list has lost the access before.
LEMMA DeniedInvariant == Spec => []DeniedFirst
  BY TypeInvariant, NodesInvariant, DeniedInit, DeniedStep, PTL DEF Spec

-----------------------------------------------------------------------------
(* What the steps of the code are in Sessions.                             *)

Shown == UNCHANGED <<Promise!vars>> \/ Promise!Next

\* A step that touches neither the clients nor the ghosts does not show.
LEMMA Hidden ==
    ASSUME UNCHANGED <<list, node, granted, reported>>
    PROVE  UNCHANGED Promise!vars
  BY DEF Promise!vars

\* The sessions begun so far are the ids handed out.
LEMMA BegunIds == TypeOK => Promise!Begun = Ids
  BY DEF TypeOK, Promise!Begun

\* A new client is a session that begins.
LEMMA AddBegins ==
    ASSUME TypeInv, NEW a \in Ips, NEW m \in Macs, NEW x \in Tokens,
           ByIpMac(a, m) = {}, client_list_add(a, m, x), UNCHANGED <<granted, reported>>
    PROVE  Promise!Begin(client_id, <<a, m>>) /\ client_id \in 1 .. MaxId
  <1>1. /\ client_id \in 1 .. MaxId
        /\ Ids' = Ids \cup {client_id} /\ client_id \notin Ids
        /\ list' = list \cup {client_id}
        /\ node' \in [Ids' -> Client]
        /\ node'[client_id] = [ip |-> a, mac |-> m, token |-> x,
                               fw_connection_state |-> FW_MARK_NONE]
        /\ \A j \in Ids : node'[j] = node[j]
    BY AddFacts, BoundsAssumption DEF TypeInv, TypeOK, client_list_add
  <1>2. DOMAIN node = Ids /\ DOMAIN node' = Ids \cup {client_id}
    BY <1>1 DEF TypeInv, TypeOK
  <1>3. \A j \in Ids : client_id > j
    BY DEF Ids, TypeInv, TypeOK
  <1>4. \A j \in list : <<node[j].ip, node[j].mac>> # <<a, m>>
    BY DEF ByIpMac
  <1>5. list \subseteq Ids
    BY DEF TypeInv, TypeOK
  <1> QED
    BY <1>1, <1>2, <1>3, <1>4, <1>5 DEF Promise!Begin, Promise!Begun

\* A change of mark is a grant of what the session is entitled to, or a
\* withdrawal, or, when only the token changes, nothing that shows.
LEMMA SetShows ==
    ASSUME TypeInv, NEW i \in list, NEW k \in Marks, NEW x \in Tokens, SetState(i, k, x),
           k \in {FW_MARK_NONE, node[i].fw_connection_state} \/ <<i, k>> \in granted,
           UNCHANGED <<list, granted, reported>>
    PROVE  Shown
  <1>1. i \in Ids /\ list \subseteq Ids
    BY DEF TypeInv, TypeOK
  <1>2. /\ DOMAIN node = Ids /\ DOMAIN node' = Ids
        /\ node'[i].ip = node[i].ip /\ node'[i].mac = node[i].mac
        /\ node'[i].fw_connection_state = k
        /\ \A j \in Ids : j # i => node'[j] = node[j]
    BY <1>1, SetStateFacts DEF TypeInv, TypeOK
  <1>3. [j \in DOMAIN node' |-> <<node'[j].ip, node'[j].mac>>]
        = [j \in DOMAIN node |-> <<node[j].ip, node[j].mac>>]
    BY <1>2
  <1>4. [j \in DOMAIN node' |-> node'[j].fw_connection_state]
        = [[j \in DOMAIN node |-> node[j].fw_connection_state] EXCEPT ![i] = k]
    BY <1>1, <1>2
  <1>5. CASE k = FW_MARK_NONE
    <2>1. Promise!Withdraw(i)
      BY <1>3, <1>4, <1>5 DEF Promise!Withdraw
    <2> QED
      BY <1>1, <2>1, BegunIds DEF Shown, Promise!Next, TypeInv
  <1>6. CASE k = node[i].fw_connection_state
    <2>1. [j \in DOMAIN node' |-> node'[j].fw_connection_state]
          = [j \in DOMAIN node |-> node[j].fw_connection_state]
      BY <1>2, <1>6
    <2> QED
      BY <1>3, <2>1 DEF Shown, Promise!vars
  <1>7. CASE k # FW_MARK_NONE /\ <<i, k>> \in granted
    <2>1. Promise!Grant(i, k)
      BY <1>3, <1>4, <1>7 DEF Promise!Grant
    <2> QED
      BY <1>1, <1>7, <2>1, BegunIds DEF Shown, Promise!Next, TypeInv
  <1> QED
    BY <1>5, <1>6, <1>7

\* The iptables commands do not show, but for the last one of a logout or a
\* deletion, which ends a session; the report follows.
LEMMA FirewallShows ==
    ASSUME TypeInv, NodesInv, DeniedFirst, NEW t \in Threads, FirewallStep(t) \/ LogoutStep(t)
    PROVE  Shown
  <1> USE DEF listVars, ruleVars, localVars, syncVars, envVars, ghostVars
  <1>1. CASE UNCHANGED <<list, node, granted, reported>>
    BY <1>1, Hidden DEF Shown
  <1>2. CASE ClearIn(t) /\ list' = list \ {cur[t]} /\ after[t] # "unlock"
    <2>1. /\ cur[t] \in list /\ node[cur[t]].fw_connection_state = FW_MARK_NONE
          /\ UNCHANGED <<node, granted, reported>>
      BY <1>2 DEF ClearIn, NodesInv, OnList, DeniedFirst, Locking
    <2>2. cur[t] \in Ids /\ DOMAIN node = Ids
      BY <2>1 DEF TypeInv, TypeOK
    <2>3. Promise!End(cur[t])
      BY <1>2, <2>1, <2>2 DEF Promise!End
    <2> QED
      BY <2>2, <2>3, BegunIds DEF Shown, Promise!Next, TypeInv
  <1>3. CASE ReportLogout(t)
    <2>1. /\ cur[t] \in Ids /\ cur[t] \notin list \cup reported
          /\ reported' = reported \cup {cur[t]} /\ UNCHANGED <<list, node, granted>>
      BY <1>3 DEF ReportLogout, TypeInv, LocalsOK, WithClient, WithNode, NodesInv, LogoutReportedOnce
    <2>2. Promise!Report(cur[t])
      BY <2>1 DEF Promise!Report
    <2> QED
      BY <2>1, <2>2, BegunIds DEF Shown, Promise!Next, TypeInv
  <1> QED
    BY <1>1, <1>2, <1>3 DEF FirewallStep, LogoutStep, GrantOut, GrantIn, ClearOut, ClearIn,
                            FreeNode, RemoveThenUnlock

\* A request begins a session, withdraws the access of one, or does not show.
LEMMA ArrivalShows ==
    ASSUME TypeInv, NEW h \in Handlers, Arrival(h)
    PROVE  Shown
  <1> USE DEF listVars, ruleVars, localVars, syncVars, envVars, ghostVars
  <1>1. UNCHANGED <<granted, reported>>
    BY DEF Arrival, HttpAuth, HttpDisconnect, WdctlReset
  <1>2. CASE (\E i \in list : logout_client(h, i)) /\ UNCHANGED list
    <2>1. PICK i \in list : logout_client(h, i)
      BY <1>2
    <2>2. node[i].token \in Tokens /\ FW_MARK_NONE \in Marks
      BY DEF TypeInv, TypeOK, Client, Marks
    <2> QED
      BY <1>1, <1>2, <2>1, <2>2, SetShows DEF logout_client, fw_deny
  <1>3. CASE UNCHANGED <<list, node>>
    BY <1>1, <1>3, Hidden DEF Shown
  <1>4. CASE \E a \in Ips, m \in Macs, x \in Tokens : ByIpMac(a, m) = {} /\ client_list_add(a, m, x)
    <2>1. PICK a \in Ips, m \in Macs, x \in Tokens : ByIpMac(a, m) = {} /\ client_list_add(a, m, x)
      BY <1>4
    <2>2. Promise!Begin(client_id, <<a, m>>) /\ client_id \in 1 .. MaxId
      BY <1>1, <2>1, AddBegins
    <2> QED
      BY <2>2 DEF Shown, Promise!Next
  <1>5. CASE HttpAuth(h)
    BY <1>2, <1>3, <1>4, <1>5, ArpAssumption, ZenonT(90) DEF HttpAuth, ByIpMac
  <1>6. CASE HttpDisconnect(h) \/ WdctlReset(h)
    BY <1>2, <1>6 DEF HttpDisconnect, WdctlReset, ByIp, ByMac
  <1> QED
    BY <1>5, <1>6 DEF Arrival

\* authenticate_client entitles by its question and grants by its verdict.
LEMMA LoginShows ==
    ASSUME TypeInv, AccessInv, NEW h \in Handlers, AuthDup(h) \/ LoginReply(h) \/ LoginVerdict(h)
    PROVE  Shown
  <1> USE DEF listVars, ruleVars, localVars, syncVars, envVars, ghostVars
  <1>1. h \in Threads
    BY DEF Threads
  <1>2. CASE AuthDup(h)
    BY <1>2, Hidden DEF AuthDup, Shown
  <1>3. CASE LoginReply(h)
    <2>1. PICK c \in Reply(tok[h]) :
            granted' = granted \cup ({<<cur[h], MarkOf(c)>>} \ {<<cur[h], FW_MARK_NONE>>})
      BY <1>3 DEF LoginReply
    <2>2. cur[h] \in Ids /\ UNCHANGED <<list, node, reported>>
      BY <1>1, <1>3 DEF LoginReply, TypeInv, LocalsOK, WithClient
    <2>3. CASE MarkOf(c) = FW_MARK_NONE
      <3>1. UNCHANGED granted
        BY <2>1, <2>3
      <3> QED
        BY <2>2, <3>1, Hidden DEF Shown
    <2>4. CASE MarkOf(c) # FW_MARK_NONE
      <3>1. MarkOf(c) \in Marks
        BY DEF MarkOf, Marks
      <3>2. granted' = granted \cup {<<cur[h], MarkOf(c)>>}
        BY <2>1, <2>4
      <3>3. Promise!Entitle(cur[h], MarkOf(c))
        BY <2>2, <3>2 DEF Promise!Entitle
      <3> QED
        BY <2>2, <2>4, <3>1, <3>3, BegunIds DEF Shown, Promise!Next, TypeInv
    <2> QED
      BY <2>3, <2>4
  <1>4. CASE LoginVerdict(h)
    <2>1. pc[h] = "verdict" /\ tok[h] \in Tokens /\ UNCHANGED <<list, granted, reported>>
      BY <1>1, <1>4 DEF LoginVerdict, TypeInv, LocalsOK, WithToken
    <2>2. CASE UNCHANGED node
      BY <2>1, <2>2, Hidden DEF Shown
    <2>3. CASE \E i \in list : \E k \in Marks :
                 /\ SetState(i, k, tok[h])
                 /\ k \in {FW_MARK_NONE, node[i].fw_connection_state} \/ <<i, k>> \in granted
      BY <2>1, <2>3, SetShows
    <2>4. \A i \in find_by_client(h) :
            /\ i \in list /\ node[i].fw_connection_state \in Marks
            /\ code[h] = "ALLOWED" => <<i, FW_MARK_KNOWN>> \in granted
            /\ code[h] = "VALIDATION" => <<i, FW_MARK_PROBATION>> \in granted
      BY <1>1, <2>1 DEF find_by_client, AccessInv, VerdictGranted, TypeInv, TypeOK, Client
    <2>5. {FW_MARK_KNOWN, FW_MARK_PROBATION, FW_MARK_NONE} \subseteq Marks
      BY DEF Marks
    <2> QED
      BY <1>4, <2>2, <2>3, <2>4, <2>5 DEF LoginVerdict, LoginPage, fw_deny, fw_allow
  <1> QED
    BY <1>2, <1>3, <1>4

\* So does fw_sync_with_authserver.
LEMMA SyncShows ==
    ASSUME TypeInv, AccessInv,
           \/ SyncListOut \/ SyncListIn \/ SyncLine \/ SyncDup
           \/ SyncRequest \/ SyncDone \/ SyncCheck
    PROVE  Shown
  <1> USE DEF listVars, ruleVars, localVars, syncVars, envVars, ghostVars
  <1>1. Sync \in Threads
    BY DEF Threads
  <1>2. CASE SyncListOut \/ SyncListIn \/ SyncLine \/ SyncDup \/ SyncDone
    BY <1>2, Hidden DEF SyncListOut, SyncListIn, SyncLine, SyncDup, SyncDone, Shown
  <1>3. CASE SyncRequest
    <2>1. PICK w \in worklist : \E c \in Reply(w.token) :
            granted' = granted \cup (IF c = "ALLOWED" THEN {<<w.id, FW_MARK_KNOWN>>} ELSE {})
      BY <1>3 DEF SyncRequest
    <2>2. w.id \in Ids /\ UNCHANGED <<list, node, reported>>
      BY <1>3 DEF SyncRequest, TypeInv, TypeOK
    <2>3. CASE UNCHANGED granted
      BY <2>2, <2>3, Hidden DEF Shown
    <2>4. CASE granted' = granted \cup {<<w.id, FW_MARK_KNOWN>>}
      <3>1. Promise!Entitle(w.id, FW_MARK_KNOWN)
        BY <2>2, <2>4 DEF Promise!Entitle
      <3>2. FW_MARK_KNOWN \in Marks \ {FW_MARK_NONE}
        BY DEF Marks, FW_MARK_KNOWN, FW_MARK_NONE
      <3> QED
        BY <2>2, <3>1, <3>2, BegunIds DEF Shown, Promise!Next, TypeInv
    <2> QED
      BY <2>1, <2>3, <2>4
  <1>4. CASE SyncCheck
    <2>1. pc[Sync] = "check" /\ UNCHANGED <<list, granted, reported>>
      BY <1>4 DEF SyncCheck
    <2>2. CASE UNCHANGED node
      BY <2>1, <2>2, Hidden DEF Shown
    <2>3. CASE \E i \in list : \E k \in Marks :
                 /\ SetState(i, k, node[i].token)
                 /\ k = FW_MARK_NONE \/ <<i, k>> \in granted
      <3>1. \A i \in list : node[i].token \in Tokens
        BY DEF TypeInv, TypeOK, Client
      <3> QED
        BY <2>1, <2>3, <3>1, SetShows
    <2>4. \A i \in find_by_client(Sync) :
            i \in list /\ (code[Sync] = "ALLOWED" => <<i, FW_MARK_KNOWN>> \in granted)
      BY <1>1, <2>1 DEF find_by_client, AccessInv, VerdictGranted
    <2>5. {FW_MARK_KNOWN, FW_MARK_NONE} \subseteq Marks
      BY DEF Marks
    <2> QED
      BY <1>4, <2>2, <2>3, <2>4, <2>5 DEF SyncCheck, logout_client, fw_deny, fw_allow
  <1> QED
    BY <1>2, <1>3, <1>4

\* Before the first request no session has begun.
LEMMA PromiseInit == Init => Promise!Init
  BY DEF Init, Promise!Init

\* Every step is a step of Sessions or does not show.
LEMMA PromiseStep ==
    TypeInv /\ NodesInv /\ AccessInv /\ DeniedFirst /\ [Next]_vars
        => [Promise!Next]_(Promise!vars)
  <1> SUFFICES ASSUME TypeInv, NodesInv, AccessInv, DeniedFirst, [Next]_vars PROVE Shown
    BY DEF Shown
  <1>1. CASE TimePasses \/ Settle \/ UNCHANGED vars
    BY <1>1, Hidden DEF TimePasses, Settle, vars, listVars, ruleVars, localVars, syncVars, envVars,
                        ghostVars, Shown
  <1>2. CASE SyncStep
    BY <1>2, SyncShows, FirewallShows DEF SyncStep, Threads
  <1>3. CASE \E h \in Handlers : Arrival(h) \/ HandlerStep(h)
    BY <1>3, ArrivalShows, LoginShows, FirewallShows DEF HandlerStep, Threads
  <1> QED
    BY <1>1, <1>2, <1>3 DEF Next

\* Whatever the threads, their copies and replies, the lock and the firewall
\* commands do amounts to sessions that begin, are granted what the auth
\* server agreed to, lose their access, end and are reported, one after the
\* other (authenticate_client, logout_client, fw_sync_with_authserver).
THEOREM Refinement == Spec => ImplementsSessions
  BY TypeInvariant, NodesInvariant, AccessInvariant, DeniedInvariant, PromiseInit, PromiseStep, PTL
     DEF Spec, ImplementsSessions, Promise!Spec

=============================================================================
