------------------------ MODULE ClientSessionsProofs ------------------------
(***************************************************************************)
(* Proofs about ClientSessions for every set of threads, addresses, MACs   *)
(* and tokens and for every bound.                                         *)
(***************************************************************************)
EXTENDS ClientSessions, TLAPS

-----------------------------------------------------------------------------
(* Types.  A thread that works on a client has its id, and a thread that   *)
(* asks the auth server has a token to ask with.                           *)

WithClient == WithNode \cup {"login", "verdict", "check"}
WithToken == {"dup", "login", "verdict"}

LocalsOK ==
    \A t \in Threads :
        /\ pc[t] \in WithClient => cur[t] \in Ids
        /\ pc[t] \in WithToken => tok[t] \in Tokens

TypeInv == TypeOK /\ LocalsOK

USE DEF FW_MARK_NONE, FW_MARK_PROBATION, FW_MARK_KNOWN, NULL

\* SetState replaces the mark and the token of one client and keeps the rest.
LEMMA SetStateFacts ==
    ASSUME TypeOK, NEW i \in Ids, NEW mark \in Marks, NEW x \in Tokens,
           SetState(i, mark, x)
    PROVE  /\ node' \in [Ids -> Client]
           /\ node'[i].ip = node[i].ip
           /\ node'[i].mac = node[i].mac
           /\ node'[i].token = x
           /\ node'[i].fw_connection_state = mark
           /\ \A j \in Ids : j # i => node'[j] = node[j]
  BY DEF TypeOK, SetState, Client

\* A new client gets the next id, is on the list and has no mark; the others
\* keep their nodes (client_list_add).
LEMMA AddFacts ==
    ASSUME TypeOK, NEW a \in Ips, NEW m \in Macs, NEW x \in Tokens,
           client_list_add(a, m, x)
    PROVE  /\ client_id' \in 1 .. (MaxId + 1)
           /\ Ids' = Ids \cup {client_id}
           /\ client_id \notin Ids
           /\ list' = list \cup {client_id}
           /\ node' \in [Ids' -> Client]
           /\ node'[client_id] = [ip |-> a, mac |-> m, token |-> x,
                                  fw_connection_state |-> FW_MARK_NONE]
           /\ \A j \in Ids : node'[j] = node[j]
  <1>1. client_id' \in 1 .. (MaxId + 1) /\ client_id \notin Ids
    BY BoundsAssumption DEF TypeOK, client_list_add, Ids
  <1>2. Ids' = 1 .. client_id /\ Ids' = Ids \cup {client_id}
    BY BoundsAssumption DEF TypeOK, client_list_add, Ids
  <1>3. \A j \in Ids : node[j] \in Client
    BY DEF TypeOK
  <1>4. [ip |-> a, mac |-> m, token |-> x,
         fw_connection_state |-> FW_MARK_NONE] \in Client
    BY DEF Client, Marks
  <1> QED
    BY <1>1, <1>2, <1>3, <1>4 DEF client_list_add

\* Appending and deleting rules keep a chain a chain of rule counts.
LEMMA ChainTyped ==
    ASSUME NEW S, NEW chain \in [S -> Nat], NEW rule \in S
    PROVE  /\ Append(chain, rule) \in [S -> Nat]
           /\ Delete(chain, rule) \in [S -> Nat]
  BY DEF Append, Delete

\* The rule and the address a thread works on are rules of the chains.
LEMMA RuleTyped ==
    ASSUME TypeOK, NEW t \in Threads, cur[t] \in Ids, NEW k \in Marks
    PROVE  /\ Rule(t, k) \in Ips \X Macs \X Marks
           /\ Address(t) \in Ips
           /\ node[cur[t]].fw_connection_state \in Marks
  BY DEF TypeOK, Client, Rule, Address

\* A reply code is worth one of the marks.
LEMMA MarkOfType == \A c \in Codes : MarkOf(c) \in Marks
  BY DEF MarkOf, Codes, Marks

\* The initial state is well typed.
LEMMA TypeInit == Init => TypeInv
  <1> SUFFICES ASSUME Init PROVE TypeInv
    OBVIOUS
  <1>1. Ids = {}
    BY DEF Init, Ids
  <1>2. node \in [Ids -> Client]
    BY <1>1 DEF Init
  <1>3. TypeOK
    <2>1. /\ lock \in Threads \cup {Free}
          /\ client_id \in 1 .. (MaxId + 1)
          /\ faults \in 0 .. MaxFaults
          /\ list \subseteq Ids /\ freed \subseteq Ids /\ expired \subseteq Ids
      BY BoundsAssumption DEF Init
    <2>2. /\ outgoing \in [Ips \X Macs \X Marks -> Nat]
          /\ incoming \in [Ips -> Nat]
      BY DEF Init
    <2>3. /\ pc \in [Threads -> Labels]
          /\ cur \in [Threads -> Ids \cup {NULL}]
          /\ addr \in [Threads -> Ips \cup {NULL}]
          /\ tok \in [Threads -> Tokens \cup {NULL}]
          /\ code \in [Threads -> Codes]
          /\ old \in [Threads -> Marks]
          /\ after \in [Threads -> {"unlock", "delete", "logout"}]
      BY DEF Init, Labels, Codes, Marks
    <2>4. /\ lines \subseteq Ips
          /\ worklist \subseteq [id : Ids, token : Tokens]
          /\ settled \in Worlds \cup {"no"}
          /\ granted \subseteq Ids \X Marks
          /\ reported \subseteq Ids
      BY DEF Init
    <2> QED
      BY <1>2, <2>1, <2>2, <2>3, <2>4 DEF TypeOK
  <1>4. LocalsOK
    BY DEF Init, LocalsOK, WithClient, WithToken, WithNode
  <1> QED
    BY <1>3, <1>4 DEF TypeInv
\* What the three ways of changing thread t's control leave in its locals.
ControlTyped ==
    /\ lock' \in Threads \cup {Free}
    /\ pc' \in [Threads -> Labels]
    /\ cur' \in [Threads -> Ids \cup {NULL}]
    /\ old' \in [Threads -> Marks]
    /\ after' \in [Threads -> {"unlock", "delete", "logout"}]

\* The end of a handler's last critical section keeps the locals typed.
LEMMA ReturnTyped ==
    ASSUME TypeInv, NEW t \in Threads, Return(t)
    PROVE  /\ ControlTyped
           /\ addr' \in [Threads -> Ips \cup {NULL}]
           /\ tok' \in [Threads -> Tokens \cup {NULL}]
           /\ code' \in [Threads -> Codes]
           /\ \A u \in Threads : /\ pc'[u] \in WithClient => cur'[u] \in Ids
                                 /\ pc'[u] \in WithToken => tok'[u] \in Tokens
  BY DEF TypeInv, TypeOK, LocalsOK, Return, Goto, Idle, ControlTyped, Labels, Marks,
         Codes, WithClient, WithNode, WithToken

\* The start of fw_deny keeps the thread's locals and the nodes typed.
LEMMA DenyTyped ==
    ASSUME TypeInv, NEW t \in Threads, NEW i \in Ids, NEW x \in Tokens,
           NEW next \in {"unlock", "delete", "logout"}, fw_deny(t, i, x, next)
    PROVE  /\ ControlTyped
           /\ node' \in [Ids -> Client]
           /\ \A u \in Threads : /\ pc'[u] \in WithClient => cur'[u] \in Ids
                                 /\ pc'[u] \in WithToken => tok[u] \in Tokens
  <1>1. node' \in [Ids -> Client]
    BY SetStateFacts DEF fw_deny, TypeInv, Marks
  <1>2. node[i].fw_connection_state \in Marks
    BY DEF TypeInv, TypeOK, Client
  <1> QED
    BY <1>1, <1>2 DEF TypeInv, TypeOK, LocalsOK, fw_deny, Goto, ControlTyped, Labels,
                      WithClient, WithNode, WithToken

\* The start of fw_allow keeps the thread's locals and the nodes typed.
LEMMA AllowTyped ==
    ASSUME TypeInv, NEW t \in Threads, NEW i \in Ids, NEW x \in Tokens,
           NEW mark \in Marks, fw_allow(t, i, mark, x)
    PROVE  /\ ControlTyped
           /\ node' \in [Ids -> Client]
           /\ \A u \in Threads : /\ pc'[u] \in WithClient => cur'[u] \in Ids
                                 /\ pc'[u] \in WithToken => tok[u] \in Tokens
  <1>1. node' \in [Ids -> Client]
    BY SetStateFacts DEF fw_allow, TypeInv
  <1>2. node[i].fw_connection_state \in Marks
    BY DEF TypeInv, TypeOK, Client
  <1> QED
    BY <1>1, <1>2 DEF TypeInv, TypeOK, LocalsOK, fw_allow, Goto, ControlTyped, Labels,
                      WithClient, WithNode, WithToken

\* logout_client denies a client of the list with the token it has.
LEMMA LogoutTyped ==
    ASSUME TypeInv, NEW t \in Threads, NEW i \in list, logout_client(t, i)
    PROVE  /\ ControlTyped
           /\ node' \in [Ids -> Client]
           /\ \A u \in Threads : /\ pc'[u] \in WithClient => cur'[u] \in Ids
                                 /\ pc'[u] \in WithToken => tok[u] \in Tokens
  <1>1. i \in Ids /\ node[i].token \in Tokens
    BY DEF TypeInv, TypeOK, Client
  <1> QED
    BY <1>1, DenyTyped DEF logout_client

\* The iptables commands and the steps of logout_client are typed.
LEMMA TypeFirewall ==
    ASSUME TypeInv, NEW t \in Threads, FirewallStep(t) \/ LogoutStep(t)
    PROVE  TypeInv'
  <1> USE DEF listVars, ruleVars, localVars, syncVars, envVars, ghostVars
  <1>0. Ids' = Ids
    BY DEF FirewallStep, LogoutStep, GrantOut, GrantIn, ClearOut, ClearIn,
           ReportLogout, FreeNode, Ids
  <1>1. CASE GrantOut(t)
    <2>1. cur[t] \in Ids
      BY <1>1 DEF GrantOut, TypeInv, LocalsOK, WithClient, WithNode
    <2>3. outgoing' \in [Ips \X Macs \X Marks -> Nat] /\ faults' \in 0 .. MaxFaults
      <3>1. Rule(t, node[cur[t]].fw_connection_state) \in Ips \X Macs \X Marks /\ outgoing \in [Ips \X Macs \X Marks -> Nat]
        BY <2>1, RuleTyped DEF TypeInv, TypeOK, Marks
      <3>2. Append(outgoing, Rule(t, node[cur[t]].fw_connection_state)) \in [Ips \X Macs \X Marks -> Nat]
        BY <3>1, ChainTyped
      <3>3. outgoing' \in [Ips \X Macs \X Marks -> Nat]
        BY <1>1, <3>1, <3>2 DEF GrantOut
      <3>4. faults' \in 0 .. MaxFaults
        BY <1>1, BoundsAssumption
           DEF GrantOut, TypeInv, TypeOK, CommandSucceeds, CommandFails
      <3> QED
        BY <3>3, <3>4
    <2>4. pc' \in [Threads -> Labels] /\ LocalsOK'
      BY <1>0, <1>1, <2>1 DEF GrantOut, Goto, TypeInv, TypeOK, LocalsOK, Labels, WithClient,
                        WithNode, WithToken
    <2> QED
      BY <1>0, <1>1, <2>3, <2>4 DEF GrantOut, TypeInv, TypeOK
  <1>2. CASE GrantIn(t)
    <2>1. cur[t] \in Ids
      BY <1>2 DEF GrantIn, TypeInv, LocalsOK, WithClient, WithNode
    <2>2. incoming' \in [Ips -> Nat] /\ faults' \in 0 .. MaxFaults
      <3>1. Address(t) \in Ips /\ incoming \in [Ips -> Nat]
        BY <2>1, RuleTyped DEF TypeInv, TypeOK, Marks
      <3>2. Append(incoming, Address(t)) \in [Ips -> Nat]
        BY <3>1, ChainTyped
      <3>3. incoming' \in [Ips -> Nat]
        BY <1>2, <3>1, <3>2 DEF GrantIn
      <3>4. faults' \in 0 .. MaxFaults
        BY <1>2, BoundsAssumption
           DEF GrantIn, TypeInv, TypeOK, CommandSucceeds, CommandFails
      <3> QED
        BY <3>3, <3>4
    <2>3. CASE old[t] # FW_MARK_NONE
      <3>1. pc' \in [Threads -> Labels] /\ LocalsOK'
        BY <1>0, <1>2, <2>1, <2>3 DEF GrantIn, Goto, TypeInv, TypeOK, LocalsOK, Labels,
                          WithClient, WithNode, WithToken
      <3> QED
        BY <1>0, <1>2, <2>2, <2>3, <3>1 DEF GrantIn, TypeInv, TypeOK
    <2>4. CASE old[t] = FW_MARK_NONE
      <3>1. Return(t)
        BY <1>2, <2>4 DEF GrantIn
      <3> QED
        BY <1>0, <1>2, <2>2, <2>4, <3>1, ReturnTyped
           DEF GrantIn, TypeInv, TypeOK, LocalsOK, ControlTyped
    <2> QED
      BY <2>3, <2>4
  <1>3. CASE ClearOut(t)
    <2>1. cur[t] \in Ids
      BY <1>3 DEF ClearOut, TypeInv, LocalsOK, WithClient, WithNode
    <2>2. outgoing' \in [Ips \X Macs \X Marks -> Nat] /\ faults' \in 0 .. MaxFaults
      <3>1. Rule(t, old[t]) \in Ips \X Macs \X Marks /\ outgoing \in [Ips \X Macs \X Marks -> Nat]
        BY <2>1, RuleTyped DEF TypeInv, TypeOK, Marks
      <3>2. Delete(outgoing, Rule(t, old[t])) \in [Ips \X Macs \X Marks -> Nat]
        BY <3>1, ChainTyped
      <3>3. outgoing' \in [Ips \X Macs \X Marks -> Nat]
        BY <1>3, <3>1, <3>2 DEF ClearOut
      <3>4. faults' \in 0 .. MaxFaults
        BY <1>3, BoundsAssumption
           DEF ClearOut, TypeInv, TypeOK, CommandSucceeds, CommandFails
      <3> QED
        BY <3>3, <3>4
    <2>3. pc' \in [Threads -> Labels] /\ LocalsOK'
      BY <1>0, <1>3, <2>1 DEF ClearOut, Goto, TypeInv, TypeOK, LocalsOK, Labels, WithClient,
                        WithNode, WithToken
    <2> QED
      BY <1>0, <1>3, <2>2, <2>3 DEF ClearOut, TypeInv, TypeOK
  <1>4. CASE ClearIn(t)
    <2>1. cur[t] \in Ids
      BY <1>4 DEF ClearIn, TypeInv, LocalsOK, WithClient, WithNode
    <2>2. incoming' \in [Ips -> Nat] /\ faults' \in 0 .. MaxFaults
      <3>1. Address(t) \in Ips /\ incoming \in [Ips -> Nat]
        BY <2>1, RuleTyped DEF TypeInv, TypeOK, Marks
      <3>2. Delete(incoming, Address(t)) \in [Ips -> Nat]
        BY <3>1, ChainTyped
      <3>3. incoming' \in [Ips -> Nat]
        BY <1>4, <3>1, <3>2 DEF ClearIn
      <3>4. faults' \in 0 .. MaxFaults
        BY <1>4, BoundsAssumption
           DEF ClearIn, TypeInv, TypeOK, CommandSucceeds, CommandFails
      <3> QED
        BY <3>3, <3>4
    <2>3. CASE RemoveThenUnlock(t)
      <3>1. pc' \in [Threads -> Labels] /\ LocalsOK'
        BY <1>0, <2>1, <2>3 DEF RemoveThenUnlock, Goto, TypeInv, TypeOK, LocalsOK, Labels,
                          WithClient, WithNode, WithToken
      <3> QED
        BY <1>0, <1>4, <2>2, <2>3, <3>1 DEF ClearIn, RemoveThenUnlock, TypeInv, TypeOK
    <2>4. CASE Return(t) /\ list' \subseteq Ids /\ freed' \subseteq Ids
      BY <1>0, <1>4, <2>2, <2>4, ReturnTyped
         DEF ClearIn, TypeInv, TypeOK, LocalsOK, ControlTyped
    <2> QED
      BY <1>4, <2>1, <2>3, <2>4 DEF ClearIn, TypeInv, TypeOK
  <1>5. CASE ReportLogout(t)
    <2>1. cur[t] \in Ids
      BY <1>5 DEF ReportLogout, TypeInv, LocalsOK, WithClient, WithNode
    <2>2. pc' \in [Threads -> Labels] /\ LocalsOK'
      BY <1>0, <1>5, <2>1 DEF ReportLogout, Goto, TypeInv, TypeOK, LocalsOK, Labels,
                        WithClient, WithNode, WithToken
    <2> QED
      BY <1>0, <1>5, <2>1, <2>2 DEF ReportLogout, TypeInv, TypeOK
  <1>6. CASE FreeNode(t)
    <2>1. cur[t] \in Ids
      BY <1>6 DEF FreeNode, TypeInv, LocalsOK, WithClient, WithNode
    <2> QED
      BY <1>0, <1>6, <2>1, ReturnTyped
         DEF FreeNode, TypeInv, TypeOK, LocalsOK, ControlTyped
  <1> QED
    BY <1>1, <1>2, <1>3, <1>4, <1>5, <1>6 DEF FirewallStep, LogoutStep

\* The arrival of a request (HTTP auth, disconnect, wdctl reset) is typed.
LEMMA TypeArrival ==
    ASSUME TypeInv, NEW h \in Handlers, Arrival(h)
    PROVE  TypeInv'
  <1> USE DEF listVars, ruleVars, localVars, syncVars, envVars, ghostVars
  <1>h. h \in Threads
    BY DEF Threads
  <1>1. CASE HttpAuth(h)
    <2>1. PICK a \in Ips, x \in Tokens, m \in Macs :
            \/ /\ ByIpMac(a, m) = {}
               /\ client_list_add(a, m, x)
               /\ \/ UNCHANGED <<pc, addr, tok>>
                  \/ /\ Goto(h, "dup")
                     /\ addr' = [addr EXCEPT ![h] = a]
                     /\ tok' = [tok EXCEPT ![h] = x]
               /\ UNCHANGED <<lock, cur, old, after>>
            \/ /\ \E i \in ByIpMac(a, m) : logout_client(h, i)
               /\ UNCHANGED <<list, client_id, addr, tok>>
            \/ /\ Goto(h, "dup")
               /\ addr' = [addr EXCEPT ![h] = a]
               /\ tok' = [tok EXCEPT ![h] = x]
               /\ UNCHANGED <<lock, list, client_id, node, cur, old, after>>
      BY <1>1, ArpAssumption DEF HttpAuth
    <2>u. UNCHANGED <<freed, ruleVars, code, syncVars, envVars, ghostVars>>
      BY <1>1 DEF HttpAuth
    <2>2. CASE client_list_add(a, m, x) /\ UNCHANGED <<lock, cur, old, after>>
                 /\ (UNCHANGED <<pc, addr, tok>>
                     \/ (Goto(h, "dup") /\ addr' = [addr EXCEPT ![h] = a]
                                        /\ tok' = [tok EXCEPT ![h] = x]))
      <3>1. /\ client_id' \in 1 .. (MaxId + 1)
            /\ Ids \subseteq Ids' /\ list' \subseteq Ids'
            /\ node' \in [Ids' -> Client]
        BY <2>2, AddFacts DEF TypeInv, TypeOK
      <3>2. /\ pc' \in [Threads -> Labels]
            /\ addr' \in [Threads -> Ips \cup {NULL}]
            /\ tok' \in [Threads -> Tokens \cup {NULL}]
        BY <1>h, <2>2 DEF TypeInv, TypeOK, Goto, Labels
      <3>3. LocalsOK'
        BY <1>h, <2>2, <3>1 DEF TypeInv, TypeOK, LocalsOK, Goto, WithClient, WithNode, WithToken
      <3>4. /\ cur' \in [Threads -> Ids' \cup {NULL}]
            /\ freed' \subseteq Ids' /\ expired' \subseteq Ids' /\ reported' \subseteq Ids'
            /\ granted' \subseteq Ids' \X Marks
            /\ worklist' \subseteq [id : Ids', token : Tokens]
        BY <2>2, <2>u, <3>1 DEF TypeInv, TypeOK
      <3> QED
        BY <2>2, <2>u, <3>1, <3>2, <3>3, <3>4 DEF TypeInv, TypeOK
    <2>3. CASE (\E i \in ByIpMac(a, m) : logout_client(h, i))
                 /\ UNCHANGED <<list, client_id, addr, tok>>
      <3>1. PICK i \in list : logout_client(h, i)
        BY <2>3 DEF ByIpMac
      <3>2. Ids' = Ids
        BY <2>3 DEF Ids
      <3> QED
        BY <1>h, <2>3, <2>u, <3>1, <3>2, LogoutTyped DEF TypeInv, TypeOK, LocalsOK, ControlTyped
    <2>4. CASE Goto(h, "dup") /\ addr' = [addr EXCEPT ![h] = a]
                 /\ tok' = [tok EXCEPT ![h] = x]
                 /\ UNCHANGED <<lock, list, client_id, node, cur, old, after>>
      <3>1. Ids' = Ids
        BY <2>4 DEF Ids
      <3>2. pc' \in [Threads -> Labels] /\ LocalsOK'
        BY <1>h, <2>4, <3>1 DEF TypeInv, TypeOK, LocalsOK, Goto, Labels, WithClient, WithNode, WithToken
      <3> QED
        BY <1>h, <2>4, <2>u, <3>1, <3>2 DEF TypeInv, TypeOK
    <2> QED
      BY <2>1, <2>2, <2>3, <2>4
  <1>2. CASE HttpDisconnect(h) \/ WdctlReset(h)
    <2>1. PICK i \in list : logout_client(h, i)
      BY <1>2 DEF HttpDisconnect, WdctlReset, ByIp, ByMac
    <2>2. UNCHANGED <<list, client_id, freed, ruleVars, addr, tok, code, syncVars, envVars, ghostVars>>
      BY <1>2 DEF HttpDisconnect, WdctlReset
    <2>3. Ids' = Ids
      BY <2>2 DEF Ids
    <2> QED
      BY <1>h, <2>1, <2>2, <2>3, LogoutTyped DEF TypeInv, TypeOK, LocalsOK, ControlTyped
  <1> QED
    BY <1>1, <1>2 DEF Arrival

\* The auth server's answer is one of the codes, before and after it settles.
LEMMA ReplyTyped ==
    ASSUME TypeOK, NEW x \in Tokens
    PROVE  Reply(x) \subseteq Codes
  BY EnvironmentAssumption DEF Reply, TypeOK

\* The steps of authenticate_client are typed.
LEMMA TypeLogin ==
    ASSUME TypeInv, NEW h \in Handlers, AuthDup(h) \/ LoginReply(h) \/ LoginVerdict(h)
    PROVE  TypeInv'
  <1> USE DEF listVars, ruleVars, localVars, syncVars, envVars, ghostVars
  <1>h. h \in Threads
    BY DEF Threads
  <1>0. Ids' = Ids
    BY DEF AuthDup, LoginReply, LoginVerdict, Ids
  <1>1. CASE AuthDup(h)
    <2>1. CASE Return(h)
      BY <1>0, <1>1, <1>h, <2>1, ReturnTyped DEF AuthDup, TypeInv, TypeOK, LocalsOK, ControlTyped
    <2>2. CASE \E i \in list : /\ cur' = [cur EXCEPT ![h] = i] /\ Goto(h, "login")
                               /\ UNCHANGED <<lock, addr, tok, code, old, after>>
      <3>1. pc' \in [Threads -> Labels] /\ LocalsOK'
            /\ cur' \in [Threads -> Ids \cup {NULL}]
        BY <1>0, <1>1, <1>h, <2>2 DEF AuthDup, TypeInv, TypeOK, LocalsOK, Goto, Labels, WithClient,
                                      WithNode, WithToken
      <3> QED
        BY <1>0, <1>1, <2>2, <3>1 DEF AuthDup, TypeInv, TypeOK
    <2> QED
      BY <1>1, <2>1, <2>2 DEF AuthDup, ByIp
  <1>2. CASE LoginReply(h)
    <2>1. cur[h] \in Ids /\ tok[h] \in Tokens
      BY <1>2, <1>h DEF LoginReply, TypeInv, LocalsOK, WithClient, WithToken
    <2>2. PICK c \in Reply(tok[h]) :
            /\ code' = [code EXCEPT ![h] = c]
            /\ granted' = granted \cup ({<<cur[h], MarkOf(c)>>} \ {<<cur[h], FW_MARK_NONE>>})
      BY <1>2 DEF LoginReply
    <2>3. c \in Codes
      BY <2>1, <2>2, ReplyTyped DEF TypeInv
    <2>4. MarkOf(c) \in Marks
      BY <2>3, MarkOfType
    <2>5. code' \in [Threads -> Codes] /\ granted' \subseteq Ids \X Marks
      BY <1>h, <2>1, <2>2, <2>3, <2>4 DEF TypeInv, TypeOK
    <2>6. pc' \in [Threads -> Labels] /\ LocalsOK'
      BY <1>0, <1>2, <1>h, <2>1 DEF LoginReply, TypeInv, TypeOK, LocalsOK, Goto, Labels, WithClient,
                                    WithNode, WithToken
    <2> QED
      BY <1>0, <1>2, <2>5, <2>6 DEF LoginReply, TypeInv, TypeOK
  <1>3. CASE LoginVerdict(h)
    <2>1. cur[h] \in Ids /\ tok[h] \in Tokens
      BY <1>3, <1>h DEF LoginVerdict, TypeInv, LocalsOK, WithClient, WithToken
    <2>2. CASE Return(h) /\ UNCHANGED node
      BY <1>0, <1>3, <1>h, <2>2, ReturnTyped DEF LoginVerdict, TypeInv, TypeOK, LocalsOK, ControlTyped
    <2>3. CASE \E i \in Ids : fw_deny(h, i, tok[h], "unlock") /\ UNCHANGED <<code, addr, tok>>
      BY <1>0, <1>3, <1>h, <2>1, <2>3, DenyTyped DEF LoginVerdict, TypeInv, TypeOK, LocalsOK, ControlTyped
    <2>4. CASE \E i \in Ids : \E k \in Marks :
                   fw_allow(h, i, k, tok[h]) /\ UNCHANGED <<code, addr, tok>>
      BY <1>0, <1>3, <1>h, <2>1, <2>4, AllowTyped DEF LoginVerdict, TypeInv, TypeOK, LocalsOK, ControlTyped
    <2>5. CASE \E i \in Ids : LoginPage(h, i)
      <3>1. PICK i \in Ids : LoginPage(h, i)
        BY <2>5
      <3>2. node[i].fw_connection_state \in Marks
        BY DEF TypeInv, TypeOK, Client
      <3>3. node' \in [Ids -> Client]
        BY <2>1, <3>1, <3>2, SetStateFacts DEF LoginPage, TypeInv
      <3> QED
        BY <1>0, <1>3, <1>h, <3>1, <3>3, ReturnTyped
           DEF LoginPage, LoginVerdict, TypeInv, TypeOK, LocalsOK, ControlTyped
    <2> QED
      BY <1>3, <2>2, <2>3, <2>4, <2>5 DEF LoginVerdict, find_by_client, TypeInv, TypeOK, Marks
  <1> QED
    BY <1>1, <1>2, <1>3

\* The steps of fw_sync_with_authserver are typed.
LEMMA TypeSync ==
    ASSUME TypeInv,
           \/ SyncListOut \/ SyncListIn \/ SyncLine \/ SyncDup
           \/ SyncRequest \/ SyncDone \/ SyncCheck
    PROVE  TypeInv'
  <1> USE DEF listVars, ruleVars, localVars, syncVars, envVars, ghostVars
  <1>t. Sync \in Threads
    BY DEF Threads
  <1>0. Ids' = Ids
    BY DEF SyncListOut, SyncListIn, SyncLine, SyncDup, SyncRequest, SyncDone, SyncCheck, Ids
  <1>1. CASE SyncListOut \/ SyncListIn
    <2>1. pc' \in [Threads -> Labels] /\ LocalsOK'
      BY <1>0, <1>1, <1>t, SMTT(30) DEF SyncListOut, SyncListIn, TypeInv, TypeOK, LocalsOK, Goto, Labels,
                              WithClient, WithNode, WithToken
    <2>2. lines' \subseteq Ips
      BY <1>1 DEF SyncListOut, SyncListIn
    <2>3. faults' \in 0 .. MaxFaults
      BY <1>1, BoundsAssumption DEF SyncListOut, SyncListIn, TypeInv, TypeOK, CommandSucceeds, CommandFails
    <2> QED
      BY <1>0, <1>1, <2>1, <2>2, <2>3 DEF SyncListOut, SyncListIn, TypeInv, TypeOK
  <1>2. CASE SyncLine
    <2>1. LocalsOK'
      BY <1>0, <1>2 DEF SyncLine, TypeInv, LocalsOK
    <2>2. /\ lines' \subseteq Ips
          /\ expired' \subseteq Ids
      BY <1>2 DEF SyncLine, TypeInv, TypeOK
    <2>3. outgoing' \in [Ips \X Macs \X Marks -> Nat] /\ incoming' \in [Ips -> Nat]
      BY <1>2 DEF SyncLine, iptables_fw_destroy_mention, TypeInv, TypeOK
    <2> QED
      BY <1>0, <1>2, <2>1, <2>2, <2>3 DEF SyncLine, TypeInv, TypeOK
  <1>3. CASE SyncDup \/ SyncDone
    <2>1. pc' \in [Threads -> Labels] /\ LocalsOK'
      BY <1>0, <1>3, <1>t DEF SyncDup, SyncDone, TypeInv, TypeOK, LocalsOK, Goto, Labels,
                              WithClient, WithNode, WithToken
    <2>2. worklist' \subseteq [id : Ids, token : Tokens]
      BY <1>3 DEF SyncDup, SyncDone, TypeInv, TypeOK, Client
    <2> QED
      BY <1>0, <1>3, <2>1, <2>2 DEF SyncDup, SyncDone, TypeInv, TypeOK
  <1>4. CASE SyncRequest
    <2>1. PICK w \in worklist :
            /\ worklist' = worklist \ {w}
            /\ cur' = [cur EXCEPT ![Sync] = w.id]
            /\ \E c \in Reply(w.token) :
                 /\ code' = [code EXCEPT ![Sync] = c]
                 /\ granted' = granted \cup
                      (IF c = "ALLOWED" THEN {<<w.id, FW_MARK_KNOWN>>} ELSE {})
      BY <1>4 DEF SyncRequest, AdvanceFrom
    <2>2. w.id \in Ids /\ w.token \in Tokens
      BY <2>1 DEF TypeInv, TypeOK
    <2>3. Reply(w.token) \subseteq Codes
      BY <2>2, ReplyTyped DEF TypeInv
    <2>4. /\ code' \in [Threads -> Codes]
          /\ cur' \in [Threads -> Ids \cup {NULL}]
          /\ granted' \subseteq Ids \X Marks
          /\ worklist' \subseteq [id : Ids, token : Tokens]
      BY <1>t, <2>1, <2>2, <2>3 DEF TypeInv, TypeOK, Marks
    <2>5. pc' \in [Threads -> Labels] /\ LocalsOK'
      BY <1>0, <1>4, <1>t, <2>1, <2>2 DEF SyncRequest, TypeInv, TypeOK, LocalsOK, Goto, Labels,
                                    WithClient, WithNode, WithToken
    <2> QED
      BY <1>0, <1>4, <2>4, <2>5 DEF SyncRequest, TypeInv, TypeOK
  <1>5. CASE SyncCheck
    <2>1. CASE Return(Sync) /\ UNCHANGED node
      BY <1>0, <1>5, <1>t, <2>1, ReturnTyped DEF SyncCheck, TypeInv, TypeOK, LocalsOK, ControlTyped
    <2>2. CASE \E i \in list : logout_client(Sync, i) /\ UNCHANGED <<code, addr, tok>>
      BY <1>0, <1>5, <1>t, <2>2, LogoutTyped DEF SyncCheck, TypeInv, TypeOK, LocalsOK, ControlTyped
    <2>3. CASE \E i \in list : /\ fw_deny(Sync, i, node[i].token, "delete")
                               /\ UNCHANGED <<code, addr, tok>>
      <3>1. PICK i \in list : /\ fw_deny(Sync, i, node[i].token, "delete")
                              /\ UNCHANGED <<code, addr, tok>>
        BY <2>3
      <3>2. i \in Ids /\ node[i].token \in Tokens
        BY DEF TypeInv, TypeOK, Client
      <3> QED
        BY <1>0, <1>5, <1>t, <3>1, <3>2, DenyTyped DEF SyncCheck, TypeInv, TypeOK, LocalsOK, ControlTyped
    <2>4. CASE \E i \in list : /\ fw_allow(Sync, i, FW_MARK_KNOWN, node[i].token)
                               /\ UNCHANGED <<code, addr, tok>>
      <3>1. PICK i \in list : /\ fw_allow(Sync, i, FW_MARK_KNOWN, node[i].token)
                              /\ UNCHANGED <<code, addr, tok>>
        BY <2>4
      <3>2. i \in Ids /\ node[i].token \in Tokens /\ FW_MARK_KNOWN \in Marks
        BY DEF TypeInv, TypeOK, Client, Marks
      <3> QED
        BY <1>0, <1>5, <1>t, <3>1, <3>2, AllowTyped DEF SyncCheck, TypeInv, TypeOK, LocalsOK, ControlTyped
    <2> QED
      BY <1>5, <2>1, <2>2, <2>3, <2>4 DEF SyncCheck, find_by_client
  <1> QED
    BY <1>1, <1>2, <1>3, <1>4, <1>5

\* The steps of the environment are typed.
LEMMA TypeEnvironment ==
    ASSUME TypeInv, TimePasses \/ Settle \/ UNCHANGED vars
    PROVE  TypeInv'
  <1> USE DEF vars, listVars, ruleVars, localVars, syncVars, envVars, ghostVars
  <1>0. Ids' = Ids
    BY DEF TimePasses, Settle, Ids
  <1>1. LocalsOK'
    BY <1>0 DEF TypeInv, LocalsOK, TimePasses, Settle
  <1>2. expired' \subseteq Ids /\ settled' \in Worlds \cup {"no"}
    BY DEF TypeInv, TypeOK, TimePasses, Settle
  <1> QED
    BY <1>0, <1>1, <1>2 DEF TypeInv, TypeOK, TimePasses, Settle

\* Every step preserves the types.
LEMMA TypeStep == TypeInv /\ [Next]_vars => TypeInv'
  BY TypeFirewall, TypeArrival, TypeLogin, TypeSync, TypeEnvironment
     DEF Next, HandlerStep, SyncStep, Threads

\* The types and the locals a program point relies on, in every state.
LEMMA TypeInvariant == Spec => []TypeInv
  BY TypeInit, TypeStep, PTL DEF Spec

\* Type correctness of the sessions, whatever the handlers, the sync thread
\* and the auth server do.
THEOREM TypeCorrect == Spec => []TypeOK
  BY TypeInvariant, PTL DEF TypeInv

-----------------------------------------------------------------------------
(* The lock and the ownership of nodes.  A thread is between its first and *)
(* its last iptables command exactly when it holds the lock, and works on  *)
(* a client of the list then; a reported client is on the list no more.    *)

LockOK == \A t \in Threads : pc[t] \in Locking <=> lock = t

OnList ==
    /\ \A t \in Threads : pc[t] \in Locking => cur[t] \in list
    /\ list \cap reported = {}

NodesInv == LockOK /\ OnList /\ NodesAccounted /\ LogoutReportedOnce

\* Before the first request there is no node and nobody has the lock.
LEMMA NodesInit == Init => NodesInv
  <1> SUFFICES ASSUME Init PROVE NodesInv
    OBVIOUS
  <1>1. \A t \in Threads : pc[t] \notin WithNode /\ lock # t
    BY ThreadsAssumption DEF Init, WithNode
  <1>2. Ids = {} /\ list = {} /\ freed = {} /\ reported = {}
    BY DEF Init, Ids
  <1> QED
    BY <1>1, <1>2 DEF NodesInv, LockOK, OnList, NodesAccounted, LogoutReportedOnce, Holds,
                      Detached, Locking, WithNode

\* A thread that starts fw_allow or fw_deny on a client of the list, with the
\* lock free, becomes the only one to hold that client.
LEMMA NodesStart ==
    ASSUME TypeInv, NodesInv, NEW t \in Threads, NEW i \in list, lock = Free,
           pc[t] \notin WithNode, lock' = t, cur' = [cur EXCEPT ![t] = i],
           Goto(t, "grant_out") \/ Goto(t, "clear_out"),
           UNCHANGED <<list, freed, client_id, reported>>
    PROVE  NodesInv'
  <1>1. \A u \in Threads \ {t} : pc'[u] = pc[u] /\ cur'[u] = cur[u] /\ pc[u] \notin Locking
    BY ThreadsAssumption DEF LockOK, NodesInv, TypeInv, TypeOK, Goto
  <1>2. pc'[t] \in Locking /\ cur'[t] = i
    BY DEF TypeInv, TypeOK, Goto, Locking
  <1>3. LockOK' /\ OnList' /\ LogoutReportedOnce'
    BY <1>1, <1>2, ThreadsAssumption
       DEF NodesInv, LockOK, OnList, LogoutReportedOnce, Locking
  <1>4. \A u \in Threads \ {t} : pc[u] \in WithNode => Detached(u) /\ cur[u] # i
    BY <1>1 DEF NodesInv, NodesAccounted, Detached, WithNode, Locking
  <1>5. NodesAccounted'
    <2>1. \A u \in Threads \ {t} : (Holds(u)' <=> Holds(u)) /\ (Detached(u)' <=> Detached(u))
      BY <1>1 DEF Holds, Detached
    <2>2. Holds(t)' /\ ~Detached(t)' /\ ~Detached(t)
      BY <1>2 DEF Holds, Detached, Locking, WithNode
    <2>3. \A u, v \in Threads : (Holds(u)' /\ Holds(v)' /\ cur'[u] = cur'[v]) => u = v
      BY <1>1, <1>2, <1>4, <2>1, <2>2 DEF NodesInv, NodesAccounted, Holds
    <2>4. /\ \A u \in Threads : Holds(u)' => cur'[u] \notin freed
          /\ \A u \in Threads : Detached(u)' => cur'[u] \notin list
      BY <1>1, <1>2, <2>1, <2>2 DEF NodesInv, NodesAccounted
    <2>5. \A j \in Ids \ (list \cup freed) : \E u \in Threads : Detached(u)' /\ cur'[u] = j
      BY <1>1, <2>1, <2>2 DEF NodesInv, NodesAccounted
    <2>6. list \cap freed = {} /\ Ids' = Ids
      BY DEF NodesInv, NodesAccounted, Ids
    <2> QED
      BY <2>3, <2>4, <2>5, <2>6 DEF NodesAccounted
  <1> QED
    BY <1>3, <1>5 DEF NodesInv

\* Steps of a thread that holds no node, before and after, move no node.
LEMMA NodesIdle ==
    ASSUME TypeInv, NodesInv, NEW t \in Threads,
           pc[t] \notin WithNode, pc'[t] \notin WithNode,
           \A u \in Threads \ {t} : pc'[u] = pc[u] /\ cur'[u] = cur[u],
           lock' = lock,
           UNCHANGED <<list, freed, client_id, reported>>
    PROVE  NodesInv'
  <1>1. LockOK' /\ OnList' /\ LogoutReportedOnce'
    BY DEF NodesInv, Locking, WithNode, LockOK, OnList, LogoutReportedOnce
  <1>2. NodesAccounted'
    <2>1. \A u \in Threads : /\ pc'[u] \in WithNode => u # t
                             /\ pc[u] \in WithNode => u # t
      OBVIOUS
    <2> QED
      BY <2>1 DEF NodesInv, NodesAccounted, Holds, Detached, WithNode, Ids
  <1> QED
    BY <1>1, <1>2 DEF NodesInv

\* A new client is on the list and nowhere else.
LEMMA NodesAdd ==
    ASSUME TypeInv, NodesInv, NEW t \in Threads,
           NEW a \in Ips, NEW m \in Macs, NEW x \in Tokens, client_list_add(a, m, x),
           pc[t] \notin WithNode, pc'[t] \notin WithNode,
           \A u \in Threads \ {t} : pc'[u] = pc[u],
           UNCHANGED <<lock, cur, freed, reported>>
    PROVE  NodesInv'
  <1>1. /\ Ids' = Ids \cup {client_id} /\ client_id \notin Ids
        /\ list' = list \cup {client_id}
    BY AddFacts DEF TypeInv
  <1>2. \A u \in Threads : Holds(u) => cur[u] \in Ids
    BY DEF TypeInv, LocalsOK, WithClient, Holds
  <1> QED
    BY <1>1, <1>2 DEF TypeInv, TypeOK, NodesInv, Locking, WithNode, Holds, Detached, LockOK,
         OnList, NodesAccounted, LogoutReportedOnce

\* A thread that returns from its critical section without a list change.
LEMMA NodesReturn ==
    ASSUME TypeInv, NodesInv, NEW t \in Threads, Return(t),
           lock \in {Free, t}, ~Detached(t),
           UNCHANGED <<list, freed, client_id, reported>>
    PROVE  NodesInv'
  <1>1. /\ pc'[t] \notin WithNode
        /\ lock' = Free
        /\ \A u \in Threads \ {t} : pc'[u] = pc[u] /\ cur'[u] = cur[u]
    BY DEF Return, Goto, Idle, WithNode, TypeInv, TypeOK
  <1> QED
    BY <1>1, ThreadsAssumption DEF NodesInv, Locking, WithNode, Holds, Detached, LockOK,
         OnList, NodesAccounted, LogoutReportedOnce, Ids

\* The iptables commands keep the node with its thread; the last one may
\* take it off the list.
LEMMA NodesFirewall ==
    ASSUME TypeInv, NodesInv, NEW t \in Threads, FirewallStep(t)
    PROVE  NodesInv'
  <1> USE DEF listVars, ruleVars, localVars, syncVars, envVars, ghostVars
  <1>1. lock = t /\ pc[t] \in Locking /\ cur[t] \in list /\ ~Detached(t)
    BY DEF FirewallStep, GrantOut, GrantIn, ClearOut, ClearIn, NodesInv, LockOK, OnList,
           Locking, Detached
  <1>2. CASE /\ \E l \in Locking : Goto(t, l)
             /\ UNCHANGED <<lock, list, freed, client_id, reported, cur>>
    BY <1>1, <1>2 DEF TypeInv, TypeOK, NodesInv, Goto, Locking, WithNode, Holds, Detached, LockOK,
         OnList, NodesAccounted, LogoutReportedOnce, Ids
  <1>3. CASE Return(t) /\ UNCHANGED <<list, freed, client_id, reported>>
    BY <1>1, <1>3, NodesReturn
  <1>4. CASE /\ Return(t) /\ list' = list \ {cur[t]} /\ freed' = freed \cup {cur[t]}
             /\ UNCHANGED <<client_id, reported>>
    <2>1. /\ pc'[t] \notin WithNode
          /\ lock' = Free
          /\ \A u \in Threads \ {t} : pc'[u] = pc[u] /\ cur'[u] = cur[u]
      BY <1>4 DEF Return, Goto, Idle, WithNode, TypeInv, TypeOK
    <2> QED
      BY <1>1, <1>4, <2>1, ThreadsAssumption DEF NodesInv, Locking, WithNode, Holds, Detached, LockOK,
         OnList, NodesAccounted, LogoutReportedOnce, Ids
  <1>5. CASE RemoveThenUnlock(t) /\ UNCHANGED <<client_id, reported>>
    <2>1. /\ pc'[t] = "report"
          /\ lock' = Free
          /\ list' = list \ {cur[t]}
          /\ UNCHANGED <<freed, cur>>
          /\ \A u \in Threads \ {t} : pc'[u] = pc[u]
      BY <1>5 DEF RemoveThenUnlock, Goto, TypeInv, TypeOK
    <2> QED
      BY <1>1, <1>5, <2>1, ThreadsAssumption DEF NodesInv, Locking, WithNode, Holds, Detached, LockOK,
         OnList, NodesAccounted, LogoutReportedOnce, Ids
  <1> QED
    BY <1>2, <1>3, <1>4, <1>5 DEF FirewallStep, GrantOut, GrantIn, ClearOut, ClearIn, Locking

\* logout_client reports and frees a node that only its thread can reach.
LEMMA NodesLogout ==
    ASSUME TypeInv, NodesInv, NEW t \in Threads, LogoutStep(t)
    PROVE  NodesInv'
  <1> USE DEF listVars, ruleVars, localVars, syncVars, envVars, ghostVars
  <1>1. CASE ReportLogout(t)
    <2>1. /\ pc[t] = "report" /\ pc'[t] = "free"
          /\ \A u \in Threads \ {t} : pc'[u] = pc[u]
          /\ reported' = reported \cup {cur[t]}
          /\ UNCHANGED <<lock, list, freed, client_id, cur>>
      BY <1>1 DEF ReportLogout, Goto, TypeInv, TypeOK
    <2> QED
      BY <2>1 DEF NodesInv, Locking, WithNode, Holds, Detached, LockOK,
         OnList, NodesAccounted, LogoutReportedOnce, Ids
  <1>2. CASE FreeNode(t)
    <2>1. /\ pc[t] = "free" /\ pc'[t] \notin WithNode
          /\ lock = Free /\ lock' = Free
          /\ \A u \in Threads \ {t} : pc'[u] = pc[u] /\ cur'[u] = cur[u]
          /\ freed' = freed \cup {cur[t]}
          /\ UNCHANGED <<list, client_id, reported>>
      BY <1>2 DEF FreeNode, Return, Goto, Idle, WithNode, TypeInv, TypeOK
    <2> QED
      BY <2>1, ThreadsAssumption DEF NodesInv, Locking, WithNode, Holds, Detached, LockOK,
         OnList, NodesAccounted, LogoutReportedOnce, Ids
  <1> QED
    BY <1>1, <1>2 DEF LogoutStep

\* A request may add a node or take the lock for one on the list.
LEMMA NodesArrival ==
    ASSUME TypeInv, NodesInv, NEW h \in Handlers, Arrival(h)
    PROVE  NodesInv'
  <1> USE DEF listVars, ruleVars, localVars, syncVars, envVars, ghostVars
  <1>1. h \in Threads /\ pc[h] = "idle" /\ pc[h] \notin WithNode /\ lock = Free
    BY DEF Threads, Arrival, HttpAuth, HttpDisconnect, WdctlReset, WithNode
  <1>2. UNCHANGED <<freed, reported>>
    BY DEF Arrival, HttpAuth, HttpDisconnect, WdctlReset
  <1>3. CASE (\E i \in list : logout_client(h, i)) /\ UNCHANGED <<list, client_id>>
    BY <1>1, <1>2, <1>3, NodesStart DEF logout_client, fw_deny
  <1>4. CASE Goto(h, "dup") /\ UNCHANGED <<lock, list, client_id, cur>>
    <2>1. pc'[h] \notin WithNode /\ \A u \in Threads \ {h} : pc'[u] = pc[u]
      BY <1>1, <1>4 DEF Goto, WithNode, TypeInv, TypeOK
    <2> QED
      BY <1>1, <1>2, <1>4, <2>1, NodesIdle
  <1>5. CASE /\ \E a \in Ips, m \in Macs, x \in Tokens : client_list_add(a, m, x)
             /\ Goto(h, "dup") \/ UNCHANGED pc
             /\ UNCHANGED <<lock, cur>>
    <2>1. pc'[h] \notin WithNode /\ \A u \in Threads \ {h} : pc'[u] = pc[u]
      BY <1>1, <1>5 DEF Goto, WithNode, TypeInv, TypeOK
    <2> QED
      BY <1>1, <1>2, <1>5, <2>1, NodesAdd
  <1>6. CASE HttpAuth(h)
    BY <1>3, <1>4, <1>5, <1>6, ArpAssumption, ZenonT(90) DEF HttpAuth, ByIpMac
  <1>7. CASE HttpDisconnect(h) \/ WdctlReset(h)
    BY <1>3, <1>7 DEF HttpDisconnect, WdctlReset, ByIp, ByMac
  <1> QED
    BY <1>6, <1>7 DEF Arrival

\* authenticate_client holds an id, not a node, while it has no lock.
LEMMA NodesLogin ==
    ASSUME TypeInv, NodesInv, NEW h \in Handlers, AuthDup(h) \/ LoginReply(h) \/ LoginVerdict(h)
    PROVE  NodesInv'
  <1> USE DEF listVars, ruleVars, localVars, syncVars, envVars, ghostVars
  <1>1. h \in Threads /\ pc[h] \notin WithNode /\ ~Detached(h)
    BY DEF Threads, AuthDup, LoginReply, LoginVerdict, WithNode, Detached
  <1>2. UNCHANGED <<list, freed, client_id, reported>>
    BY DEF AuthDup, LoginReply, LoginVerdict
  <1>3. CASE AuthDup(h) \/ LoginReply(h)
    <2>1. CASE Return(h) /\ lock = Free
      BY <1>1, <1>2, <2>1, NodesReturn
    <2>2. CASE (Goto(h, "login") \/ Goto(h, "verdict")) /\ lock' = lock
               /\ \A u \in Threads \ {h} : cur'[u] = cur[u]
      <3>1. pc'[h] \notin WithNode /\ \A u \in Threads \ {h} : pc'[u] = pc[u]
        BY <1>1, <2>2 DEF Goto, WithNode, TypeInv, TypeOK
      <3> QED
        BY <1>1, <1>2, <2>2, <3>1, NodesIdle
    <2> QED
      BY <1>3, <2>1, <2>2 DEF AuthDup, LoginReply, TypeInv, TypeOK
  <1>4. CASE LoginVerdict(h)
    <2>1. lock = Free
      BY <1>4 DEF LoginVerdict
    <2>2. CASE Return(h)
      BY <1>1, <1>2, <2>1, <2>2, NodesReturn
    <2>3. CASE \E i \in list : \/ fw_deny(h, i, tok[h], "unlock")
                               \/ \E k \in Marks : fw_allow(h, i, k, tok[h])
      BY <1>1, <1>2, <2>1, <2>3, NodesStart DEF fw_deny, fw_allow
    <2> QED
      BY <1>4, <2>2, <2>3 DEF LoginVerdict, LoginPage, find_by_client, Marks
  <1> QED
    BY <1>3, <1>4

\* The sync thread holds ids of copies, not nodes, while it has no lock.
LEMMA NodesSync ==
    ASSUME TypeInv, NodesInv,
           \/ SyncListOut \/ SyncListIn \/ SyncLine \/ SyncDup
           \/ SyncRequest \/ SyncDone \/ SyncCheck
    PROVE  NodesInv'
  <1> USE DEF listVars, ruleVars, localVars, syncVars, envVars, ghostVars
  <1>1. Sync \in Threads /\ pc[Sync] \notin WithNode /\ ~Detached(Sync)
    BY DEF Threads, SyncListOut, SyncListIn, SyncLine, SyncDup, SyncRequest, SyncDone,
           SyncCheck, WithNode, Detached
  <1>2. UNCHANGED <<list, freed, client_id, reported>>
    BY DEF SyncListOut, SyncListIn, SyncLine, SyncDup, SyncRequest, SyncDone, SyncCheck
  <1>3. CASE SyncCheck
    <2>1. lock = Free
      BY <1>3 DEF SyncCheck
    <2>2. CASE Return(Sync)
      BY <1>1, <1>2, <2>1, <2>2, NodesReturn
    <2>3. CASE \E i \in list : \/ logout_client(Sync, i)
                               \/ fw_deny(Sync, i, node[i].token, "delete")
                               \/ fw_allow(Sync, i, FW_MARK_KNOWN, node[i].token)
      BY <1>1, <1>2, <2>1, <2>3, NodesStart DEF logout_client, fw_deny, fw_allow
    <2> QED
      BY <1>3, <2>2, <2>3 DEF SyncCheck, find_by_client
  <1>4. CASE \/ SyncListOut \/ SyncListIn \/ SyncLine \/ SyncDup \/ SyncRequest \/ SyncDone
    <2>1. /\ pc'[Sync] \notin WithNode
          /\ \A u \in Threads \ {Sync} : pc'[u] = pc[u] /\ cur'[u] = cur[u]
          /\ lock' = lock
      BY <1>1, <1>4 DEF SyncListOut, SyncListIn, SyncLine, SyncDup, SyncRequest, SyncDone, Goto,
                        WithNode, TypeInv, TypeOK
    <2> QED
      BY <1>1, <1>2, <2>1, NodesIdle
  <1> QED
    BY <1>3, <1>4

\* Every step preserves the ownership of nodes.
LEMMA NodesStep == TypeInv /\ NodesInv /\ [Next]_vars => NodesInv'
  <1> SUFFICES ASSUME TypeInv, NodesInv, [Next]_vars PROVE NodesInv'
    OBVIOUS
  <1>1. CASE TimePasses \/ Settle \/ UNCHANGED vars
    BY <1>1 DEF TimePasses, Settle, vars, listVars, ruleVars, localVars, syncVars, envVars, ghostVars,
           NodesInv, LockOK, OnList, NodesAccounted, LogoutReportedOnce, Holds, Detached, Ids
  <1>2. CASE SyncStep
    BY <1>2, NodesSync, NodesFirewall, NodesLogout DEF SyncStep, Threads
  <1>3. CASE \E h \in Handlers : Arrival(h) \/ HandlerStep(h)
    BY <1>3, NodesArrival, NodesLogin, NodesFirewall, NodesLogout DEF HandlerStep, Threads
  <1> QED
    BY <1>1, <1>2, <1>3 DEF Next

\* Lock discipline and ownership of nodes, in every state.
LEMMA NodesInvariant == Spec => []NodesInv
  BY TypeInvariant, NodesInit, NodesStep, PTL DEF Spec

\* No client node is leaked, freed twice or used after it was freed, although
\* logout_client gives up the lock while it works on the node.
THEOREM NodesSafe == Spec => []NodesAccounted
  BY NodesInvariant, PTL DEF NodesInv

\* Racing logouts report a session once and only after it left the list.
THEOREM ReportsSafe == Spec => []LogoutReportedOnce
  BY NodesInvariant, PTL DEF NodesInv

-----------------------------------------------------------------------------
(* Sessions and grants.  A reply that a thread is about to apply has been  *)
(* recorded as a grant for the id the thread remembers.                    *)

VerdictGranted ==
    \A t \in Threads :
        /\ (pc[t] \in {"verdict", "check"} /\ code[t] = "ALLOWED") =>
               <<cur[t], FW_MARK_KNOWN>> \in granted
        /\ (pc[t] = "verdict" /\ code[t] = "VALIDATION") =>
               <<cur[t], FW_MARK_PROBATION>> \in granted

AccessInv == SessionsUnique /\ AccessNeedsGrant /\ VerdictGranted

\* Thread t is not about to apply a reply, and the other threads have not moved.
OthersStay(t) ==
    /\ pc'[t] \notin {"verdict", "check"}
    /\ \A u \in Threads \ {t} : pc'[u] = pc[u] /\ cur'[u] = cur[u] /\ code'[u] = code[u]

\* Before the first request nobody has access.
LEMMA AccessInit == Init => AccessInv
  BY DEF Init, AccessInv, SessionsUnique, AccessNeedsGrant, VerdictGranted

\* Clients may leave the list and grants may be added.
LEMMA AccessFrame ==
    ASSUME AccessInv, NEW t \in Threads, OthersStay(t),
           list' \subseteq list, node' = node, granted \subseteq granted'
    PROVE  AccessInv'
  BY DEF AccessInv, SessionsUnique, AccessNeedsGrant, VerdictGranted, OthersStay, HasAccess, State

\* A client of the list gets no mark, its own or one it was granted.
LEMMA AccessSet ==
    ASSUME TypeInv, AccessInv, NEW t \in Threads, OthersStay(t),
           NEW i \in list, NEW k \in Marks, NEW x \in Tokens, SetState(i, k, x),
           k \in {FW_MARK_NONE, node[i].fw_connection_state} \/ <<i, k>> \in granted,
           UNCHANGED <<list, granted>>
    PROVE  AccessInv'
  <1>0. list \subseteq Ids
    BY DEF TypeInv, TypeOK
  <1>1. /\ node'[i].fw_connection_state = k
        /\ \A j \in list : node'[j].ip = node[j].ip /\ node'[j].mac = node[j].mac
        /\ \A j \in list : j # i => node'[j] = node[j]
    BY <1>0, SetStateFacts DEF TypeInv
  <1>2. SessionsUnique'
    BY <1>1 DEF AccessInv, SessionsUnique
  <1>3. AccessNeedsGrant'
    BY <1>1 DEF AccessInv, AccessNeedsGrant, HasAccess, State
  <1>4. VerdictGranted'
    BY DEF AccessInv, VerdictGranted, OthersStay
  <1> QED
    BY <1>2, <1>3, <1>4 DEF AccessInv

\* The session that http_callback_auth adds is new and has no mark.
LEMMA AccessAdd ==
    ASSUME TypeInv, AccessInv, NEW t \in Threads, OthersStay(t),
           NEW a \in Ips, NEW m \in Macs, NEW x \in Tokens,
           ByIpMac(a, m) = {}, client_list_add(a, m, x), UNCHANGED granted
    PROVE  AccessInv'
  <1>0. list \subseteq Ids
    BY DEF TypeInv, TypeOK
  <1>1. /\ list' = list \cup {client_id} /\ client_id \notin list
        /\ node'[client_id].ip = a /\ node'[client_id].mac = m
        /\ node'[client_id].fw_connection_state = FW_MARK_NONE
        /\ \A j \in list : node'[j] = node[j]
    <2>1. /\ list' = list \cup {client_id} /\ client_id \notin Ids
          /\ node'[client_id] = [ip |-> a, mac |-> m, token |-> x,
                                 fw_connection_state |-> FW_MARK_NONE]
          /\ \A j \in Ids : node'[j] = node[j]
      BY AddFacts DEF TypeInv
    <2> QED
      BY <1>0, <2>1
  <1>2. SessionsUnique'
    BY <1>1 DEF AccessInv, SessionsUnique, ByIpMac
  <1>3. AccessNeedsGrant'
    BY <1>1 DEF AccessInv, AccessNeedsGrant, HasAccess, State
  <1>4. VerdictGranted'
    BY DEF AccessInv, VerdictGranted, OthersStay
  <1> QED
    BY <1>2, <1>3, <1>4 DEF AccessInv

\* logout_client takes the mark away.
LEMMA AccessLogout ==
    ASSUME TypeInv, AccessInv, NEW t \in Threads, NEW i \in list, logout_client(t, i),
           UNCHANGED <<list, granted, code>>
    PROVE  AccessInv'
  <1>1. node[i].token \in Tokens /\ FW_MARK_NONE \in Marks
    BY DEF TypeInv, TypeOK, Client, Marks
  <1>2. OthersStay(t)
    BY DEF logout_client, fw_deny, OthersStay, Goto, TypeInv, TypeOK
  <1> QED
    BY <1>1, <1>2, AccessSet DEF logout_client, fw_deny

\* The iptables commands and the end of a logout change no mark.
LEMMA AccessFirewall ==
    ASSUME TypeInv, AccessInv, NEW t \in Threads, FirewallStep(t) \/ LogoutStep(t)
    PROVE  AccessInv'
  <1> USE DEF listVars, ruleVars, localVars, syncVars, envVars, ghostVars
  <1>1. list' \subseteq list /\ node' = node /\ granted' = granted
    BY DEF FirewallStep, LogoutStep, GrantOut, GrantIn, ClearOut, ClearIn, ReportLogout, FreeNode,
           RemoveThenUnlock
  <1>2. CASE Return(t)
    <2>1. OthersStay(t)
      BY <1>2 DEF Return, Goto, Idle, OthersStay, TypeInv, TypeOK
    <2> QED
      BY <1>1, <2>1, AccessFrame
  <1>3. CASE /\ \E l \in {"grant_in", "clear_out", "clear_in", "report", "free"} : Goto(t, l)
             /\ UNCHANGED <<cur, code>>
    <2>1. OthersStay(t)
      BY <1>3 DEF Goto, OthersStay, TypeInv, TypeOK
    <2> QED
      BY <1>1, <2>1, AccessFrame
  <1> QED
    BY <1>2, <1>3 DEF FirewallStep, LogoutStep, GrantOut, GrantIn, ClearOut, ClearIn,
                      ReportLogout, FreeNode, RemoveThenUnlock

\* A new session starts without a mark.
LEMMA AccessArrival ==
    ASSUME TypeInv, AccessInv, NEW h \in Handlers, Arrival(h)
    PROVE  AccessInv'
  <1> USE DEF listVars, ruleVars, localVars, syncVars, envVars, ghostVars
  <1>1. h \in Threads /\ pc[h] = "idle"
    BY DEF Threads, Arrival, HttpAuth, HttpDisconnect, WdctlReset
  <1>2. UNCHANGED <<granted, code>>
    BY DEF Arrival, HttpAuth, HttpDisconnect, WdctlReset
  <1>3. CASE (\E i \in list : logout_client(h, i)) /\ UNCHANGED list
    BY <1>1, <1>2, <1>3, AccessLogout
  <1>4. CASE /\ (Goto(h, "dup") \/ UNCHANGED pc) /\ UNCHANGED cur
             /\ \/ UNCHANGED <<list, node>>
                \/ \E a \in Ips, m \in Macs, x \in Tokens :
                       ByIpMac(a, m) = {} /\ client_list_add(a, m, x)
    <2>1. OthersStay(h)
      BY <1>1, <1>2, <1>4 DEF Goto, OthersStay, TypeInv, TypeOK
    <2>2. CASE UNCHANGED <<list, node>>
      BY <1>1, <1>2, <2>1, <2>2, AccessFrame
    <2>3. CASE \E a \in Ips, m \in Macs, x \in Tokens :
                   ByIpMac(a, m) = {} /\ client_list_add(a, m, x)
      BY <1>1, <1>2, <2>1, <2>3, AccessAdd
    <2> QED
      BY <1>4, <2>2, <2>3
  <1>5. CASE HttpAuth(h)
    BY <1>3, <1>4, <1>5, ArpAssumption, ZenonT(90) DEF HttpAuth, ByIpMac
  <1>6. CASE HttpDisconnect(h) \/ WdctlReset(h)
    BY <1>3, <1>6 DEF HttpDisconnect, WdctlReset, ByIp, ByMac
  <1> QED
    BY <1>5, <1>6 DEF Arrival

\* authenticate_client applies the reply it got for the session it finds.
LEMMA AccessLogin ==
    ASSUME TypeInv, AccessInv, NEW h \in Handlers, AuthDup(h) \/ LoginReply(h) \/ LoginVerdict(h)
    PROVE  AccessInv'
  <1> USE DEF listVars, ruleVars, localVars, syncVars, envVars, ghostVars
  <1>1. h \in Threads
    BY DEF Threads
  <1>2. CASE AuthDup(h)
    <2>1. OthersStay(h)
      BY <1>1, <1>2 DEF AuthDup, Return, Goto, Idle, OthersStay, TypeInv, TypeOK
    <2> QED
      BY <1>1, <1>2, <2>1, AccessFrame DEF AuthDup
  <1>3. CASE LoginReply(h)
    <2>1. PICK c \in Reply(tok[h]) :
            /\ code' = [code EXCEPT ![h] = c]
            /\ granted' = granted \cup ({<<cur[h], MarkOf(c)>>} \ {<<cur[h], FW_MARK_NONE>>})
      BY <1>3 DEF LoginReply
    <2>2. /\ granted \subseteq granted'
          /\ c = "ALLOWED" => <<cur[h], FW_MARK_KNOWN>> \in granted'
          /\ c = "VALIDATION" => <<cur[h], FW_MARK_PROBATION>> \in granted'
      BY <2>1 DEF MarkOf
    <2>3. /\ pc'[h] = "verdict" /\ code'[h] = c /\ cur' = cur
          /\ \A u \in Threads \ {h} : pc'[u] = pc[u] /\ code'[u] = code[u]
          /\ UNCHANGED <<list, node>>
      BY <1>1, <1>3, <2>1 DEF LoginReply, Goto, TypeInv, TypeOK
    <2>4. VerdictGranted'
      BY <2>2, <2>3 DEF AccessInv, VerdictGranted
    <2> QED
      BY <2>2, <2>3, <2>4 DEF AccessInv, SessionsUnique, AccessNeedsGrant, HasAccess, State
  <1>4. CASE LoginVerdict(h)
    <2>1. /\ pc[h] = "verdict" /\ tok[h] \in Tokens
          /\ UNCHANGED <<list, granted>>
      BY <1>1, <1>4 DEF LoginVerdict, TypeInv, LocalsOK, WithToken
    <2>2. CASE Return(h) /\ UNCHANGED node
      <3>1. OthersStay(h)
        BY <1>1, <2>2 DEF Return, Goto, Idle, OthersStay, TypeInv, TypeOK
      <3> QED
        BY <1>1, <2>1, <2>2, <3>1, AccessFrame
    <2>3. CASE \E i \in list : LoginPage(h, i)
      <3>1. PICK i \in list : LoginPage(h, i)
        BY <2>3
      <3>2. OthersStay(h)
        BY <1>1, <3>1 DEF LoginPage, Return, Goto, Idle, OthersStay, TypeInv, TypeOK
      <3>3. node[i].fw_connection_state \in Marks
        BY DEF TypeInv, TypeOK, Client
      <3> QED
        BY <1>1, <2>1, <3>1, <3>2, <3>3, AccessSet DEF LoginPage
    <2>4. CASE \E i \in list : fw_deny(h, i, tok[h], "unlock") /\ UNCHANGED <<code, addr, tok>>
      <3>1. PICK i \in list : fw_deny(h, i, tok[h], "unlock") /\ UNCHANGED <<code, addr, tok>>
        BY <2>4
      <3>2. OthersStay(h)
        BY <1>1, <3>1 DEF fw_deny, Goto, OthersStay, TypeInv, TypeOK
      <3> QED
        BY <1>1, <2>1, <3>1, <3>2, AccessSet DEF fw_deny, Marks
    <2>5. CASE \E i \in list : \E k \in Marks :
                 /\ fw_allow(h, i, k, tok[h]) /\ <<i, k>> \in granted
                 /\ UNCHANGED <<code, addr, tok>>
      <3>1. PICK i \in list, k \in Marks :
                 /\ fw_allow(h, i, k, tok[h]) /\ <<i, k>> \in granted
                 /\ UNCHANGED <<code, addr, tok>>
        BY <2>5
      <3>2. OthersStay(h)
        BY <1>1, <3>1 DEF fw_allow, Goto, OthersStay, TypeInv, TypeOK
      <3> QED
        BY <1>1, <2>1, <3>1, <3>2, AccessSet DEF fw_allow
    <2>6. \A i \in find_by_client(h) :
            /\ i \in list
            /\ code[h] = "ALLOWED" => <<i, FW_MARK_KNOWN>> \in granted
            /\ code[h] = "VALIDATION" => <<i, FW_MARK_PROBATION>> \in granted
      BY <1>1, <2>1 DEF find_by_client, AccessInv, VerdictGranted
    <2>7. FW_MARK_KNOWN \in Marks /\ FW_MARK_PROBATION \in Marks
      BY DEF Marks
    <2> QED
      BY <1>4, <2>2, <2>3, <2>4, <2>5, <2>6, <2>7 DEF LoginVerdict
  <1> QED
    BY <1>2, <1>3, <1>4

\* fw_sync_with_authserver applies the reply it got for the session it finds.
LEMMA AccessSync ==
    ASSUME TypeInv, AccessInv,
           \/ SyncListOut \/ SyncListIn \/ SyncLine \/ SyncDup
           \/ SyncRequest \/ SyncDone \/ SyncCheck
    PROVE  AccessInv'
  <1> USE DEF listVars, ruleVars, localVars, syncVars, envVars, ghostVars
  <1>1. Sync \in Threads
    BY DEF Threads
  <1>2. CASE SyncListOut \/ SyncListIn \/ SyncLine \/ SyncDup \/ SyncDone
    <2>1. OthersStay(Sync)
      BY <1>1, <1>2 DEF SyncListOut, SyncListIn, SyncLine, SyncDup, SyncDone, Goto, OthersStay,
                        TypeInv, TypeOK
    <2> QED
      BY <1>1, <1>2, <2>1, AccessFrame DEF SyncListOut, SyncListIn, SyncLine, SyncDup, SyncDone
  <1>3. CASE SyncRequest
    <2>1. PICK w \in worklist, c \in Codes :
            /\ cur' = [cur EXCEPT ![Sync] = w.id]
            /\ code' = [code EXCEPT ![Sync] = c]
            /\ granted' = granted \cup
                 (IF c = "ALLOWED" THEN {<<w.id, FW_MARK_KNOWN>>} ELSE {})
      <3>1. \A w \in worklist : Reply(w.token) \subseteq Codes
        BY ReplyTyped DEF TypeInv, TypeOK
      <3> QED
        BY <1>3, <3>1 DEF SyncRequest
    <2>2. /\ pc'[Sync] = "check" /\ code'[Sync] = c /\ cur'[Sync] = w.id
          /\ \A u \in Threads \ {Sync} : pc'[u] = pc[u] /\ cur'[u] = cur[u] /\ code'[u] = code[u]
          /\ UNCHANGED <<list, node>>
      BY <1>1, <1>3, <2>1 DEF SyncRequest, Goto, TypeInv, TypeOK
    <2>3. /\ granted \subseteq granted'
          /\ c = "ALLOWED" => <<w.id, FW_MARK_KNOWN>> \in granted'
      BY <2>1
    <2>4. VerdictGranted'
      BY <2>2, <2>3 DEF AccessInv, VerdictGranted
    <2> QED
      BY <2>2, <2>3, <2>4 DEF AccessInv, SessionsUnique, AccessNeedsGrant, HasAccess, State
  <1>4. CASE SyncCheck
    <2>1. pc[Sync] = "check" /\ UNCHANGED <<list, granted>>
      BY <1>4 DEF SyncCheck
    <2>2. CASE Return(Sync) /\ UNCHANGED node
      <3>1. OthersStay(Sync)
        BY <1>1, <2>2 DEF Return, Goto, Idle, OthersStay, TypeInv, TypeOK
      <3> QED
        BY <1>1, <2>1, <2>2, <3>1, AccessFrame
    <2>3. CASE \E i \in list : logout_client(Sync, i) /\ UNCHANGED code
      BY <1>1, <2>1, <2>3, AccessLogout
    <2>4. CASE \E i \in list : \E k \in Marks :
                 /\ \/ fw_deny(Sync, i, node[i].token, "delete") /\ k = FW_MARK_NONE
                    \/ fw_allow(Sync, i, k, node[i].token) /\ <<i, k>> \in granted
                 /\ UNCHANGED code
      <3>1. PICK i \in list, k \in Marks :
                 /\ \/ fw_deny(Sync, i, node[i].token, "delete") /\ k = FW_MARK_NONE
                    \/ fw_allow(Sync, i, k, node[i].token) /\ <<i, k>> \in granted
                 /\ UNCHANGED code
        BY <2>4
      <3>2. OthersStay(Sync)
        BY <1>1, <3>1 DEF fw_allow, fw_deny, Goto, OthersStay, TypeInv, TypeOK
      <3>3. node[i].token \in Tokens
        BY DEF TypeInv, TypeOK, Client
      <3>4. /\ SetState(i, k, node[i].token)
            /\ k = FW_MARK_NONE \/ <<i, k>> \in granted
        BY <3>1 DEF fw_allow, fw_deny
      <3> QED
        BY <1>1, <2>1, <3>2, <3>3, <3>4, AccessSet
    <2>5. \A i \in find_by_client(Sync) :
            i \in list /\ (code[Sync] = "ALLOWED" => <<i, FW_MARK_KNOWN>> \in granted)
      BY <1>1, <2>1 DEF find_by_client, AccessInv, VerdictGranted
    <2>6. FW_MARK_KNOWN \in Marks /\ FW_MARK_NONE \in Marks
      BY DEF Marks
    <2> QED
      BY <1>4, <2>2, <2>3, <2>4, <2>5, <2>6 DEF SyncCheck
  <1> QED
    BY <1>2, <1>3, <1>4

\* Every step preserves the agreement of marks and grants.
LEMMA AccessStep == TypeInv /\ AccessInv /\ [Next]_vars => AccessInv'
  <1> SUFFICES ASSUME TypeInv, AccessInv, [Next]_vars PROVE AccessInv'
    OBVIOUS
  <1>1. CASE TimePasses \/ Settle \/ UNCHANGED vars
    BY <1>1 DEF TimePasses, Settle, vars, listVars, ruleVars, localVars, syncVars, envVars, ghostVars,
           AccessInv, SessionsUnique, AccessNeedsGrant, VerdictGranted, HasAccess, State
  <1>2. CASE SyncStep
    BY <1>2, AccessSync, AccessFirewall DEF SyncStep, Threads
  <1>3. CASE \E h \in Handlers : Arrival(h) \/ HandlerStep(h)
    BY <1>3, AccessArrival, AccessLogin, AccessFirewall DEF HandlerStep, Threads
  <1> QED
    BY <1>1, <1>2, <1>3 DEF Next

\* Unique sessions and granted marks, in every state.
LEMMA AccessInvariant == Spec => []AccessInv
  BY TypeInvariant, AccessInit, AccessStep, PTL DEF Spec

\* However logins, logouts and rounds of the sync thread overlap, a session
\* has a mark only if the auth server granted that session that mark.
THEOREM AccessSafe == Spec => []AccessNeedsGrant
  BY AccessInvariant, PTL DEF AccessInv

\* Racing logins never create two sessions for an address and a MAC.
THEOREM SessionsSafe == Spec => []SessionsUnique
  BY AccessInvariant, PTL DEF AccessInv

-----------------------------------------------------------------------------
(* The OUTGOING and INCOMING chains agree with the client list, for every  *)
(* instance in which no address is part of the text of another (and, for   *)
(* INCOMING, each address belongs to one machine), and a client's packets  *)
(* are never without a mark while it has access.                           *)
(*                                                                         *)
(* The properties speak of the moments when the list is unlocked.  To be   *)
(* inductive they have to say, for every point between two iptables        *)
(* commands of fw_allow and fw_deny, which rules of the client at work are *)
(* already installed and which are still left over.                        *)

\* The rule for mark k of the client at <<a, m>> has been appended.
Installed(a, m, k) ==
    \E i \in ByIpMac(a, m) :
        State(i) = k /\ \A t \in Threads : pc[t] = "grant_out" => cur[t] # i

\* The rule for the previous mark k of that client is still to be deleted.
Leftover(a, m, k) ==
    \E t \in Threads :
        /\ pc[t] \in {"grant_out", "grant_in", "clear_out"}
        /\ cur[t] \in ByIpMac(a, m) /\ old[t] = k

Expected(a, m, k) ==
    IF k = FW_MARK_NONE THEN 0
    ELSE (IF Installed(a, m, k) THEN 1 ELSE 0) + (IF Leftover(a, m, k) THEN 1 ELSE 0)

RulesExact ==
    faults = 0 => \A a \in Ips, m \in Macs, k \in Marks :
                      outgoing[<<a, m, k>>] = Expected(a, m, k)

\* The same for INCOMING, which is about addresses: the rule for the client
\* at a has been appended, and one appended earlier is still to be deleted.
Accepted(a) ==
    \E i \in ByIp(a) :
        HasAccess(i) /\ \A t \in Threads : pc[t] \in {"grant_out", "grant_in"} => cur[t] # i
Outdated(a) ==
    \E t \in Threads : pc[t] \in Locking /\ cur[t] \in ByIp(a) /\ old[t] # FW_MARK_NONE
ExpectedIn(a) == (IF Accepted(a) THEN 1 ELSE 0) + (IF Outdated(a) THEN 1 ELSE 0)

\* No address is used by two machines, so that no two clients share one.
OneMachine == \A a \in Ips : \A m, n \in ArpAnswers[a] : m = n
IncomingExact ==
    (OneMachine /\ faults = 0) => \A a \in Ips : incoming[a] = ExpectedIn(a)

\* A client has the MAC that arp_get found for its address.
ArpOK == \A i \in list : node[i].mac \in ArpAnswers[node[i].ip]

\* A client that is granted something has a mark and stays on the list; a
\* client that will leave the list has none; rules are cleared for a client
\* that had a mark, or of one that has none.
MarksOK ==
    \A t \in Threads :
        /\ pc[t] \in {"grant_out", "grant_in"} => State(cur[t]) # FW_MARK_NONE /\ after[t] = "unlock"
        /\ (pc[t] \in {"clear_out", "clear_in"} /\ after[t] # "unlock") => State(cur[t]) = FW_MARK_NONE
        /\ (pc[t] \in {"clear_out", "clear_in"} /\ HasAccess(cur[t])) => old[t] # FW_MARK_NONE

RulesInv == RulesExact /\ MarksOK /\ ArpOK /\ IncomingExact
Inv == TypeInv /\ NodesInv /\ AccessInv

ExactMentions == Mentions = {<<a, a>> : a \in Ips}

USE DEF FW_MARK_NONE, FW_MARK_PROBATION, FW_MARK_KNOWN, NULL

\* Before the first request the chain is empty and nothing is expected.
LEMMA RulesInit == Init => RulesInv
  <1> SUFFICES ASSUME Init PROVE RulesInv
    OBVIOUS
  <1>1. \A t \in Threads : pc[t] \in {"sleep", "idle"}
    BY DEF Init
  <1>2. \A a \in Ips, m \in Macs : ByIpMac(a, m) = {}
    BY DEF Init, ByIpMac
  <1>3. \A a \in Ips, m \in Macs, k \in Marks : Expected(a, m, k) = 0
    BY <1>1, <1>2 DEF Expected, Installed, Leftover
  <1>4. \A a \in Ips, m \in Macs, k \in Marks : outgoing[<<a, m, k>>] = 0
    BY DEF Init
  <1>5. MarksOK
    BY <1>1 DEF MarksOK
  <1>6. ArpOK
    BY DEF Init, ArpOK
  <1>7. \A a \in Ips : ExpectedIn(a) = 0
    BY <1>1 DEF Init, ExpectedIn, Accepted, Outdated, ByIp, Locking
  <1>8. IncomingExact
    BY <1>7 DEF Init, IncomingExact
  <1> QED
    BY <1>3, <1>4, <1>5, <1>6, <1>8 DEF RulesInv, RulesExact

\* What is expected depends only on these variables.
LEMMA ExpectedFrame ==
    ASSUME NEW t \in Threads,
           pc[t] \notin Locking, pc'[t] \notin Locking,
           \A u \in Threads \ {t} : pc'[u] = pc[u] /\ cur'[u] = cur[u] /\ old'[u] = old[u],
           list' = list,
           \A i \in list : /\ node'[i].ip = node[i].ip
                           /\ node'[i].mac = node[i].mac
                           /\ node'[i].fw_connection_state = node[i].fw_connection_state
    PROVE  /\ \A a \in Ips, m \in Macs, k \in Marks : Expected(a, m, k)' = Expected(a, m, k)
           /\ \A a \in Ips : ExpectedIn(a)' = ExpectedIn(a)
  <1>4. ASSUME NEW a \in Ips
        PROVE  ExpectedIn(a)' = ExpectedIn(a)
    <2>1. ByIp(a)' = ByIp(a)
      BY DEF ByIp
    <2>2. Accepted(a)' <=> Accepted(a)
      BY <2>1 DEF Accepted, HasAccess, State, Locking, ByIp
    <2>3. Outdated(a)' <=> Outdated(a)
      BY <2>1 DEF Outdated, Locking
    <2> QED
      BY <2>2, <2>3 DEF ExpectedIn
  <1> SUFFICES ASSUME NEW a \in Ips, NEW m \in Macs, NEW k \in Marks
               PROVE  Expected(a, m, k)' = Expected(a, m, k)
    BY <1>4
  <1>1. ByIpMac(a, m)' = ByIpMac(a, m)
    BY DEF ByIpMac
  <1>2. Installed(a, m, k)' <=> Installed(a, m, k)
    BY <1>1 DEF Installed, State, Locking, ByIpMac
  <1>3. Leftover(a, m, k)' <=> Leftover(a, m, k)
    BY <1>1 DEF Leftover, Locking
  <1> QED
    BY <1>2, <1>3 DEF Expected

\* Steps outside the critical sections that change neither rules nor marks.
LEMMA RulesFrame ==
    ASSUME Inv, RulesInv, NEW t \in Threads,
           pc[t] \notin Locking, pc'[t] \notin Locking,
           \A u \in Threads \ {t} : /\ pc'[u] = pc[u] /\ cur'[u] = cur[u]
                                    /\ old'[u] = old[u] /\ after'[u] = after[u],
           list' = list,
           \A i \in list : /\ node'[i].ip = node[i].ip
                           /\ node'[i].mac = node[i].mac
                           /\ node'[i].fw_connection_state = node[i].fw_connection_state,
           outgoing' = outgoing, incoming' = incoming, faults' = 0 => faults = 0
    PROVE  RulesInv'
  <1>1. RulesExact'
    BY ExpectedFrame DEF RulesInv, RulesExact
  <1>2. MarksOK'
    BY DEF Inv, NodesInv, OnList, RulesInv, MarksOK, HasAccess, State, Locking
  <1>3. ArpOK'
    BY DEF RulesInv, ArpOK
  <1>4. IncomingExact'
    BY ExpectedFrame DEF RulesInv, IncomingExact, OneMachine
  <1> QED
    BY <1>1, <1>2, <1>3, <1>4 DEF RulesInv

\* Where no address has two machines, none has two clients.
LEMMA Alone ==
    ASSUME Inv, RulesInv, OneMachine, NEW a \in Ips
    PROVE  \A i, j \in ByIp(a) : i = j
  BY DEF Inv, AccessInv, SessionsUnique, RulesInv, ArpOK, OneMachine, ByIp

\* With the lock free no thread is between two commands.
LEMMA NobodyLocking ==
    ASSUME Inv, lock = Free
    PROVE  \A u \in Threads : pc[u] \notin Locking
  BY ThreadsAssumption DEF Inv, NodesInv, LockOK

\* A new client has no mark and so expects no rule.
LEMMA RulesAdd ==
    ASSUME Inv, RulesInv, NEW t \in Threads, lock = Free,
           NEW a \in Ips, NEW m \in ArpAnswers[a], m \in Macs, NEW x \in Tokens,
           client_list_add(a, m, x), pc'[t] \notin Locking,
           \A u \in Threads \ {t} : pc'[u] = pc[u],
           UNCHANGED <<cur, old, after, outgoing, incoming, faults>>
    PROVE  RulesInv'
  <1>1. \A u \in Threads : pc[u] \notin Locking /\ pc'[u] \notin Locking
    BY NobodyLocking
  <1>2. /\ list' = list \cup {client_id} /\ client_id \notin list
        /\ node'[client_id].fw_connection_state = FW_MARK_NONE
        /\ node'[client_id].ip = a /\ node'[client_id].mac = m
        /\ \A j \in list : node'[j] = node[j]
    <2>1. /\ list' = list \cup {client_id} /\ client_id \notin Ids
          /\ node'[client_id] = [ip |-> a, mac |-> m, token |-> x,
                                 fw_connection_state |-> FW_MARK_NONE]
          /\ \A j \in Ids : node'[j] = node[j]
      BY AddFacts DEF Inv, TypeInv
    <2>2. list \subseteq Ids
      BY DEF Inv, TypeInv, TypeOK
    <2> QED
      BY <2>1, <2>2
  <1>3. ASSUME NEW b \in Ips, NEW n \in Macs, NEW k \in Marks
        PROVE  Expected(b, n, k)' = Expected(b, n, k)
    <2>1. CASE k = FW_MARK_NONE
      BY <2>1 DEF Expected
    <2>2. CASE k # FW_MARK_NONE
      <3>1. Installed(b, n, k)' <=> Installed(b, n, k)
        BY <1>1, <1>2, <2>2 DEF Installed, State, ByIpMac, Locking
      <3>2. ~Leftover(b, n, k)' /\ ~Leftover(b, n, k)
        BY <1>1 DEF Leftover, Locking
      <3> QED
        BY <3>1, <3>2 DEF Expected
    <2> QED
      BY <2>1, <2>2
  <1>4. RulesExact'
    BY <1>3, ZenonT(60) DEF RulesInv, RulesExact
  <1>5. MarksOK'
    BY <1>1 DEF MarksOK, Locking
  <1>6. ArpOK'
    BY <1>2 DEF RulesInv, ArpOK
  <1>7. ASSUME NEW b \in Ips
        PROVE  ExpectedIn(b)' = ExpectedIn(b)
    <2>1. Accepted(b)' <=> Accepted(b)
      BY <1>1, <1>2 DEF Accepted, HasAccess, State, ByIp, Locking
    <2>2. ~Outdated(b)' /\ ~Outdated(b)
      BY <1>1 DEF Outdated
    <2> QED
      BY <2>1, <2>2 DEF ExpectedIn
  <1>8. IncomingExact'
    BY <1>7 DEF RulesInv, IncomingExact, OneMachine
  <1> QED
    BY <1>4, <1>5, <1>6, <1>8 DEF RulesInv

\* fw_allow and fw_deny begin: the rule of the recorded mark becomes the one
\* that is left over.
LEMMA RulesStart ==
    ASSUME Inv, RulesInv, NEW t \in Threads, lock = Free,
           NEW i \in list, NEW k \in Marks, NEW x \in Tokens, SetState(i, k, x),
           cur' = [cur EXCEPT ![t] = i],
           old' = [old EXCEPT ![t] = node[i].fw_connection_state],
           \/ Goto(t, "grant_out") /\ k # FW_MARK_NONE /\ after'[t] = "unlock"
           \/ Goto(t, "clear_out") /\ k = FW_MARK_NONE,
           UNCHANGED <<list, outgoing, incoming, faults>>
    PROVE  RulesInv'
  <1>0. list \subseteq Ids /\ i \in Ids
    BY DEF Inv, TypeInv, TypeOK
  <1>1. /\ \A u \in Threads : pc[u] \notin Locking
        /\ \A u \in Threads \ {t} : pc'[u] \notin Locking
        /\ pc'[t] \in {"grant_out", "clear_out"}
        /\ cur'[t] = i /\ old'[t] = State(i)
    BY NobodyLocking DEF Goto, Inv, TypeInv, TypeOK, State
  <1>2. /\ State(i)' = k
        /\ \A j \in list : node'[j].ip = node[j].ip /\ node'[j].mac = node[j].mac
        /\ \A j \in list : j # i => State(j)' = State(j)
    BY <1>0, SetStateFacts DEF State, Inv, TypeInv
  <1>3. pc'[t] = "grant_out" \/ k = FW_MARK_NONE
    BY DEF Goto, Inv, TypeInv, TypeOK
  <1>4. ASSUME NEW b \in Ips, NEW n \in Macs, NEW l \in Marks
        PROVE  Expected(b, n, l)' = Expected(b, n, l)
    <2>0. ByIpMac(b, n)' = ByIpMac(b, n)
      BY <1>2 DEF ByIpMac
    <2>1. CASE l = FW_MARK_NONE
      BY <2>1 DEF Expected
    <2>2. CASE l # FW_MARK_NONE /\ i \in ByIpMac(b, n)
      <3>1. \A j \in ByIpMac(b, n) : j = i
        BY <2>2 DEF ByIpMac, Inv, AccessInv, SessionsUnique
      <3>2. Installed(b, n, l) <=> State(i) = l
        BY <1>1, <2>2, <3>1 DEF Installed, Locking
      <3>3. ~Leftover(b, n, l)
        BY <1>1 DEF Leftover, Locking
      <3>4. ~Installed(b, n, l)'
        BY <1>1, <1>2, <1>3, <2>0, <2>2, <3>1 DEF Installed
      <3>5. Leftover(b, n, l)' <=> State(i) = l
        BY <1>1, <2>0, <2>2 DEF Leftover, Locking
      <3> QED
        BY <2>2, <3>2, <3>3, <3>4, <3>5 DEF Expected
    <2>3. CASE l # FW_MARK_NONE /\ i \notin ByIpMac(b, n)
      <3>1. Installed(b, n, l)' <=> Installed(b, n, l)
        <4>1. \A j \in ByIpMac(b, n) : j # i /\ State(j)' = State(j)
          BY <1>2, <2>3 DEF ByIpMac
        <4> QED
          BY <1>1, <2>0, <4>1 DEF Installed, Locking
      <3>2. ~Leftover(b, n, l)' /\ ~Leftover(b, n, l)
        BY <1>1, <2>0, <2>3 DEF Leftover, Locking
      <3> QED
        BY <3>1, <3>2 DEF Expected
    <2> QED
      BY <2>1, <2>2, <2>3
  <1>5. RulesExact'
    BY <1>4, ZenonT(60) DEF RulesInv, RulesExact
  <1>6. MarksOK'
    <2>1. State(cur[t])' = k
      BY <1>1, <1>2 DEF State
    <2> QED
      BY <1>1, <2>1 DEF MarksOK, HasAccess, State, Locking, Goto, Inv, TypeInv, TypeOK
  <1>7. ArpOK'
    BY <1>2 DEF RulesInv, ArpOK
  <1>8. IncomingExact'
    <2> SUFFICES ASSUME OneMachine, faults = 0, NEW b \in Ips
                 PROVE  ExpectedIn(b)' = ExpectedIn(b)
      BY DEF RulesInv, IncomingExact, OneMachine
    <2>1. ByIp(b)' = ByIp(b)
      BY <1>2 DEF ByIp
    <2>2. CASE i \in ByIp(b)
      <3>1. \A j \in ByIp(b) : j = i
        BY <2>2, Alone
      <3>2. Accepted(b) <=> State(i) # FW_MARK_NONE
        BY <1>1, <2>2, <3>1 DEF Accepted, HasAccess, Locking
      <3>3. ~Outdated(b)
        BY <1>1 DEF Outdated
      <3>4. ~Accepted(b)'
        BY <1>1, <1>2, <1>3, <2>1, <3>1 DEF Accepted, HasAccess
      <3>5. Outdated(b)' <=> State(i) # FW_MARK_NONE
        BY <1>1, <2>1, <2>2 DEF Outdated, Locking
      <3> QED
        BY <3>2, <3>3, <3>4, <3>5 DEF ExpectedIn
    <2>3. CASE i \notin ByIp(b)
      <3>1. Accepted(b)' <=> Accepted(b)
        <4>1. \A j \in ByIp(b) : j # i /\ State(j)' = State(j)
          BY <1>2, <2>3 DEF ByIp
        <4> QED
          BY <1>1, <2>1, <4>1 DEF Accepted, HasAccess, Locking
      <3>2. ~Outdated(b)' /\ ~Outdated(b)
        BY <1>1, <2>1, <2>3 DEF Outdated
      <3> QED
        BY <3>1, <3>2 DEF ExpectedIn
    <2> QED
      BY <2>2, <2>3
  <1> QED
    BY <1>5, <1>6, <1>7, <1>8 DEF RulesInv

\* The thread between two commands is alone, and its client is the only one
\* with its address and MAC.
LEMMA HolderFacts ==
    ASSUME Inv, NEW t \in Threads, pc[t] \in Locking
    PROVE  /\ cur[t] \in list /\ cur[t] \in Ids
           /\ \A u \in Threads \ {t} : pc[u] \notin Locking
           /\ \A b \in Ips, n \in Macs :
                  cur[t] \in ByIpMac(b, n) =>
                      /\ b = node[cur[t]].ip /\ n = node[cur[t]].mac
                      /\ \A j \in ByIpMac(b, n) : j = cur[t]
           /\ cur[t] \in ByIpMac(node[cur[t]].ip, node[cur[t]].mac)
  <1>1. lock = t /\ cur[t] \in list
    BY DEF Inv, NodesInv, LockOK, OnList
  <1>2. \A u \in Threads \ {t} : pc[u] \notin Locking
    BY <1>1 DEF Inv, NodesInv, LockOK
  <1>3. cur[t] \in Ids
    BY <1>1 DEF Inv, TypeInv, TypeOK
  <1> QED
    BY <1>1, <1>2, <1>3 DEF ByIpMac, Inv, AccessInv, SessionsUnique

\* The last command done: nothing is left over, and a client that leaves the
\* list has no rule.
LEMMA RulesEnd ==
    ASSUME Inv, RulesInv, NEW t \in Threads,
           \/ pc[t] = "grant_in" /\ old[t] = FW_MARK_NONE /\ list' = list
           \/ pc[t] = "clear_in" /\ list' = list
           \/ pc[t] = "clear_in" /\ after[t] # "unlock" /\ list' = list \ {cur[t]},
           pc'[t] \notin Locking,
           \A u \in Threads \ {t} : pc'[u] = pc[u],
           UNCHANGED <<node, outgoing>>, faults' = 0 => faults = 0
    PROVE  RulesExact' /\ MarksOK' /\ ArpOK'
  <1>1. pc[t] \in Locking
    BY DEF Locking
  <1> DEFINE i == cur[t]
  <1>2. /\ i \in list /\ \A u \in Threads \ {t} : pc[u] \notin Locking
        /\ \A b \in Ips, n \in Macs : i \in ByIpMac(b, n) => \A j \in ByIpMac(b, n) : j = i
    BY <1>1, HolderFacts
  <1>3. \A u \in Threads : pc'[u] \notin Locking
    BY <1>2
  <1>4. ASSUME NEW b \in Ips, NEW n \in Macs, NEW l \in Marks
        PROVE  Expected(b, n, l)' = Expected(b, n, l)
    <2>1. CASE l = FW_MARK_NONE
      BY <2>1 DEF Expected
    <2>2. CASE l # FW_MARK_NONE
      <3>1. ~Leftover(b, n, l)'
        BY <1>3 DEF Leftover, Locking
      <3>2. ~Leftover(b, n, l)
        BY <1>2, <2>2 DEF Leftover, Locking
      <3>3. CASE list' = list
        <4>1. ByIpMac(b, n)' = ByIpMac(b, n)
          BY <3>3 DEF ByIpMac
        <4>2. Installed(b, n, l)' <=> Installed(b, n, l)
          BY <1>2, <1>3, <4>1 DEF Installed, State, Locking
        <4> QED
          BY <3>1, <3>2, <4>2 DEF Expected
      <3>4. CASE pc[t] = "clear_in" /\ after[t] # "unlock" /\ list' = list \ {i}
        <4>1. State(i) = FW_MARK_NONE
          BY <3>4 DEF RulesInv, MarksOK
        <4>2. ByIpMac(b, n)' = ByIpMac(b, n) \ {i}
          BY <3>4 DEF ByIpMac
        <4>3. Installed(b, n, l)' <=> Installed(b, n, l)
          BY <1>2, <1>3, <2>2, <3>4, <4>1, <4>2 DEF Installed, State, Locking
        <4> QED
          BY <3>1, <3>2, <4>3 DEF Expected
      <3> QED
        BY <3>3, <3>4
    <2> QED
      BY <2>1, <2>2
  <1>5. RulesExact'
    BY <1>4 DEF RulesInv, RulesExact
  <1>6. MarksOK'
    BY <1>3 DEF MarksOK, Locking
  <1>7. ArpOK'
    BY DEF RulesInv, ArpOK
  <1> QED
    BY <1>5, <1>6, <1>7

\* A command that fails voids the property: faults is not 0 afterwards.
LEMMA FaultFacts ==
    ASSUME TypeOK
    PROVE  /\ CommandFails => faults' # 0
           /\ CommandSucceeds => faults' = faults
  BY BoundsAssumption DEF TypeOK, CommandFails, CommandSucceeds

\* What is expected of the client at work, and of everybody else, when the
\* thread goes on to its next command.
LEMMA ExpectedHolder ==
    ASSUME Inv, NEW t \in Threads, pc[t] \in Locking, pc'[t] \in Locking,
           \A u \in Threads \ {t} : pc'[u] = pc[u],
           UNCHANGED <<list, node, cur, old>>,
           NEW b \in Ips, NEW n \in Macs, NEW l \in Marks
    PROVE  /\ (cur[t] \notin ByIpMac(b, n) \/ l = FW_MARK_NONE) =>
                  Expected(b, n, l)' = Expected(b, n, l)
           /\ (cur[t] \in ByIpMac(b, n) /\ l # FW_MARK_NONE) =>
                  /\ Installed(b, n, l) <=> (State(cur[t]) = l /\ pc[t] # "grant_out")
                  /\ Installed(b, n, l)' <=> (State(cur[t]) = l /\ pc'[t] # "grant_out")
                  /\ Leftover(b, n, l) <=> (old[t] = l /\ pc[t] # "clear_in")
                  /\ Leftover(b, n, l)' <=> (old[t] = l /\ pc'[t] # "clear_in")
  <1>1. /\ \A u \in Threads \ {t} : pc[u] \notin Locking /\ pc'[u] \notin Locking
        /\ cur[t] \in ByIpMac(b, n) => \A j \in ByIpMac(b, n) : j = cur[t]
        /\ ByIpMac(b, n)' = ByIpMac(b, n)
        /\ \A j \in list : State(j)' = State(j)
    BY HolderFacts DEF ByIpMac, State
  <1>2. CASE cur[t] \notin ByIpMac(b, n)
    <2>1. Installed(b, n, l)' <=> Installed(b, n, l)
      BY <1>1, <1>2 DEF Installed, Locking, State
    <2>2. Leftover(b, n, l)' <=> Leftover(b, n, l)
      BY <1>1, <1>2 DEF Leftover, Locking
    <2> QED
      BY <1>2, <2>1, <2>2 DEF Expected
  <1>3. CASE cur[t] \in ByIpMac(b, n) /\ l # FW_MARK_NONE
    <2>1. /\ Installed(b, n, l) <=> (State(cur[t]) = l /\ pc[t] # "grant_out")
          /\ Installed(b, n, l)' <=> (State(cur[t]) = l /\ pc'[t] # "grant_out")
      BY <1>1, <1>3 DEF Installed, Locking, State
    <2>2. /\ Leftover(b, n, l) <=> (old[t] = l /\ pc[t] # "clear_in")
          /\ Leftover(b, n, l)' <=> (old[t] = l /\ pc'[t] # "clear_in")
      BY <1>1, <1>3 DEF Leftover, Locking
    <2> QED
      BY <1>3, <2>1, <2>2
  <1>4. CASE l = FW_MARK_NONE
    BY <1>4 DEF Expected
  <1> QED
    BY <1>2, <1>3, <1>4

\* The same for INCOMING, the end of the critical section included.
LEMMA IncomingHolder ==
    ASSUME Inv, RulesInv, OneMachine, NEW t \in Threads, pc[t] \in Locking,
           \A u \in Threads \ {t} : pc'[u] = pc[u],
           pc'[t] \in Locking => UNCHANGED <<cur, old>>,
           UNCHANGED node,
           \/ UNCHANGED list
           \/ list' = list \ {cur[t]} /\ pc'[t] \notin Locking /\ ~HasAccess(cur[t]),
           NEW b \in Ips
    PROVE  /\ cur[t] \notin ByIp(b) => ExpectedIn(b)' = ExpectedIn(b)
           /\ cur[t] \in ByIp(b) =>
                  /\ Accepted(b) <=> (HasAccess(cur[t]) /\ pc[t] \notin {"grant_out", "grant_in"})
                  /\ Accepted(b)' <=> (HasAccess(cur[t]) /\ pc'[t] \notin {"grant_out", "grant_in"})
                  /\ Outdated(b) <=> old[t] # FW_MARK_NONE
                  /\ Outdated(b)' <=> (old[t] # FW_MARK_NONE /\ pc'[t] \in Locking)
  <1>1. /\ cur[t] \in list /\ \A u \in Threads \ {t} : pc[u] \notin Locking /\ pc'[u] \notin Locking
        /\ cur[t] \in ByIp(b) => \A j \in ByIp(b) : j = cur[t]
        /\ \A j \in list : HasAccess(j)' <=> HasAccess(j)
    BY HolderFacts, Alone DEF HasAccess, State
  <1>2. CASE cur[t] \notin ByIp(b)
    <2>1. ByIp(b)' = ByIp(b) /\ ByIp(b) \subseteq list
      BY <1>2 DEF ByIp
    <2>2. Accepted(b)' <=> Accepted(b)
      BY <1>1, <1>2, <2>1 DEF Accepted, Locking
    <2>3. ~Outdated(b)' /\ ~Outdated(b)
      BY <1>1, <1>2, <2>1 DEF Outdated
    <2> QED
      BY <1>2, <2>2, <2>3 DEF ExpectedIn
  <1>3. CASE cur[t] \in ByIp(b)
    <2>1. ByIp(b)' = IF list' = list THEN ByIp(b) ELSE {}
      BY <1>1, <1>3 DEF ByIp
    <2>2. Accepted(b) <=> (HasAccess(cur[t]) /\ pc[t] \notin {"grant_out", "grant_in"})
      BY <1>1, <1>3 DEF Accepted, Locking
    <2>3. Accepted(b)' <=> (HasAccess(cur[t]) /\ pc'[t] \notin {"grant_out", "grant_in"})
      BY <1>1, <1>3, <2>1 DEF Accepted, Locking
    <2>4. Outdated(b) <=> old[t] # FW_MARK_NONE
      BY <1>1, <1>3 DEF Outdated
    <2>5. Outdated(b)' <=> (old[t] # FW_MARK_NONE /\ pc'[t] \in Locking)
      BY <1>1, <1>3, <2>1 DEF Outdated
    <2> QED
      BY <1>3, <2>2, <2>3, <2>4, <2>5
  <1> QED
    BY <1>2, <1>3

\* The commands on OUTGOING leave INCOMING and what is expected of it alone.
LEMMA IncomingStays ==
    ASSUME Inv, RulesInv, NEW t \in Threads,
           \/ pc[t] = "grant_out" /\ pc'[t] = "grant_in"
           \/ pc[t] = "clear_out" /\ pc'[t] = "clear_in",
           \A u \in Threads \ {t} : pc'[u] = pc[u],
           UNCHANGED <<list, node, cur, old, incoming>>, faults' = 0 => faults = 0
    PROVE  IncomingExact' /\ ArpOK'
  <1>1. pc[t] \in Locking /\ pc'[t] \in Locking
    BY DEF Locking
  <1>2. ASSUME OneMachine, NEW b \in Ips
        PROVE  ExpectedIn(b)' = ExpectedIn(b)
    <2>1. CASE cur[t] \in ByIp(b)
      <3>1. (Accepted(b)' <=> Accepted(b)) /\ (Outdated(b)' <=> Outdated(b))
        BY <1>1, <1>2, <2>1, IncomingHolder
      <3> QED
        BY <3>1 DEF ExpectedIn
    <2> QED
      BY <1>1, <1>2, <2>1, IncomingHolder
  <1>3. IncomingExact'
    BY <1>2 DEF RulesInv, IncomingExact, OneMachine
  <1> QED
    BY <1>3 DEF RulesInv, ArpOK

\* What the commands do to the counts of rules.
LEMMA ChainFacts ==
    ASSUME NEW S, NEW chain \in [S -> Nat], NEW rule \in S
    PROVE  /\ Append(chain, rule)[rule] = chain[rule] + 1
           /\ chain[rule] > 0 => Delete(chain, rule)[rule] = chain[rule] - 1
           /\ chain[rule] = 0 => Delete(chain, rule)[rule] = 0
           /\ \A r \in S \ {rule} : Append(chain, rule)[r] = chain[r] /\ Delete(chain, rule)[r] = chain[r]
  BY DEF Append, Delete

\* MarksOK depends on the control state and the marks only.
LEMMA MarksHolder ==
    ASSUME Inv, RulesInv, NEW t \in Threads,
           \/ pc[t] = "grant_out" /\ pc'[t] = "grant_in"
           \/ pc[t] = "grant_in" /\ pc'[t] = "clear_out" /\ old[t] # FW_MARK_NONE
           \/ pc[t] = "clear_out" /\ pc'[t] = "clear_in",
           \A u \in Threads \ {t} : pc'[u] = pc[u],
           UNCHANGED <<node, cur, old, after>>
    PROVE  MarksOK'
  BY DEF RulesInv, MarksOK, HasAccess, State

\* fw_allow appends the INCOMING rule of the client's address.
LEMMA IncomingGrant ==
    ASSUME Inv, RulesInv, NEW t \in Threads, pc[t] = "grant_in",
           pc'[t] = IF old[t] = FW_MARK_NONE THEN Idle(t) ELSE "clear_out",
           pc'[t] \in Locking => UNCHANGED <<cur, old>>,
           \A u \in Threads \ {t} : pc'[u] = pc[u], UNCHANGED <<list, node>>,
           faults' = 0 => faults = 0 /\ incoming' = Append(incoming, Address(t))
    PROVE  IncomingExact'
  <1> DEFINE i == cur[t]
  <1> SUFFICES ASSUME OneMachine, faults' = 0, NEW b \in Ips
               PROVE  incoming'[b] = ExpectedIn(b)'
    BY DEF IncomingExact, OneMachine
  <1>1. /\ pc[t] \in Locking /\ i \in list /\ HasAccess(i)
        /\ incoming \in [Ips -> Nat] /\ Address(t) \in Ips
    <2>1. pc[t] \in Locking /\ incoming \in [Ips -> Nat] /\ HasAccess(i)
      BY DEF Locking, Inv, TypeInv, TypeOK, RulesInv, MarksOK, HasAccess
    <2>2. i \in list /\ i \in Ids
      BY <2>1, HolderFacts
    <2> QED
      BY <2>1, <2>2 DEF Inv, TypeInv, TypeOK, Client, Address
  <1>2. incoming[b] = ExpectedIn(b)
    BY DEF RulesInv, IncomingExact
  <1>3. /\ pc'[t] \notin {"grant_out", "grant_in"}
        /\ pc'[t] \in Locking <=> old[t] # FW_MARK_NONE
    BY DEF Idle, Locking
  <1>4. CASE i \in ByIp(b)
    <2>1. ~Accepted(b) /\ Accepted(b)' /\ (Outdated(b)' <=> Outdated(b))
      BY <1>1, <1>3, <1>4, IncomingHolder
    <2>2. Address(t) = b
      BY <1>4 DEF ByIp, Address
    <2>3. incoming'[b] = incoming[b] + 1
      BY <1>1, <2>2, ChainFacts
    <2> QED
      BY <1>2, <2>1, <2>3 DEF ExpectedIn
  <1>5. CASE i \notin ByIp(b)
    <2>1. ExpectedIn(b)' = ExpectedIn(b)
      BY <1>1, <1>5, IncomingHolder
    <2>2. Address(t) # b
      BY <1>1, <1>5 DEF ByIp, Address
    <2>3. incoming'[b] = incoming[b]
      BY <1>1, <2>2, ChainFacts
    <2> QED
      BY <1>2, <2>1, <2>3
  <1> QED
    BY <1>4, <1>5

\* fw_deny, and the end of fw_allow, delete one INCOMING rule of the address.
LEMMA IncomingClear ==
    ASSUME Inv, RulesInv, NEW t \in Threads, pc[t] = "clear_in", pc'[t] \notin Locking,
           \A u \in Threads \ {t} : pc'[u] = pc[u], UNCHANGED node,
           list' = list \/ (after[t] # "unlock" /\ list' = list \ {cur[t]}),
           faults' = 0 => faults = 0 /\ incoming' = Delete(incoming, Address(t))
    PROVE  IncomingExact'
  <1> DEFINE i == cur[t]
  <1> SUFFICES ASSUME OneMachine, faults' = 0, NEW b \in Ips
               PROVE  incoming'[b] = ExpectedIn(b)'
    BY DEF IncomingExact, OneMachine
  <1>1. /\ pc[t] \in Locking /\ i \in list
        /\ incoming \in [Ips -> Nat] /\ Address(t) \in Ips
    <2>1. pc[t] \in Locking /\ incoming \in [Ips -> Nat]
      BY DEF Locking, Inv, TypeInv, TypeOK
    <2>2. i \in list /\ i \in Ids
      BY <2>1, HolderFacts
    <2> QED
      BY <2>1, <2>2 DEF Inv, TypeInv, TypeOK, Client, Address
  <1>2. incoming[b] = ExpectedIn(b)
    BY DEF RulesInv, IncomingExact
  <1>3. /\ after[t] # "unlock" => ~HasAccess(i)
        /\ HasAccess(i) => old[t] # FW_MARK_NONE
        /\ pc'[t] \notin {"grant_out", "grant_in"}
    BY DEF RulesInv, MarksOK, HasAccess, Locking
  <1>4. CASE i \in ByIp(b)
    <2>1. /\ Accepted(b) <=> HasAccess(i)
          /\ Accepted(b)' <=> HasAccess(i)
          /\ Outdated(b) <=> old[t] # FW_MARK_NONE
          /\ ~Outdated(b)'
      BY <1>1, <1>3, <1>4, IncomingHolder
    <2>2. Address(t) = b
      BY <1>4 DEF ByIp, Address
    <2>3. incoming'[b] = IF incoming[b] > 0 THEN incoming[b] - 1 ELSE 0
      BY <1>1, <2>2, ChainFacts
    <2> QED
      BY <1>2, <1>3, <2>1, <2>3 DEF ExpectedIn
  <1>5. CASE i \notin ByIp(b)
    <2>1. ExpectedIn(b)' = ExpectedIn(b)
      BY <1>1, <1>3, <1>5, IncomingHolder
    <2>2. Address(t) # b
      BY <1>1, <1>5 DEF ByIp, Address
    <2>3. incoming'[b] = incoming[b]
      BY <1>1, <2>2, ChainFacts
    <2> QED
      BY <1>2, <2>1, <2>3
  <1> QED
    BY <1>4, <1>5

\* fw_allow appends the rule of the new mark.
LEMMA RulesGrantOut ==
    ASSUME Inv, RulesInv, NEW t \in Threads, GrantOut(t)
    PROVE  RulesInv'
  <1> DEFINE i == cur[t]
  <1>1. /\ pc[t] = "grant_out" /\ pc'[t] = "grant_in"
        /\ \A u \in Threads \ {t} : pc'[u] = pc[u]
        /\ UNCHANGED <<list, node, cur, old, after>>
    BY DEF GrantOut, Goto, Inv, TypeInv, TypeOK, listVars, localVars
  <1>2. pc[t] \in Locking /\ pc'[t] \in Locking
    BY <1>1 DEF Locking
  <1>3. /\ i \in list /\ i \in Ids /\ State(i) \in Marks \ {FW_MARK_NONE}
        /\ node[i].ip \in Ips /\ node[i].mac \in Macs
        /\ i \in ByIpMac(node[i].ip, node[i].mac)
    BY <1>1, <1>2, HolderFacts DEF Inv, TypeInv, TypeOK, Client, RulesInv, MarksOK, State
  <1>4. RulesExact'
    <2> SUFFICES ASSUME faults' = 0, NEW b \in Ips, NEW n \in Macs, NEW l \in Marks
                 PROVE  outgoing'[<<b, n, l>>] = Expected(b, n, l)'
      BY DEF RulesExact
    <2>1. faults = 0 /\ outgoing' = Append(outgoing, Rule(t, State(i)))
      BY FaultFacts DEF GrantOut, Inv, TypeInv, State
    <2>2. outgoing[<<b, n, l>>] = Expected(b, n, l)
      BY <2>1 DEF RulesInv, RulesExact
    <2>3. outgoing \in [Ips \X Macs \X Marks -> Nat]
      BY DEF Inv, TypeInv, TypeOK
    <2>4. CASE i \in ByIpMac(b, n) /\ l # FW_MARK_NONE
      <3>1. b = node[i].ip /\ n = node[i].mac
        BY <1>2, <2>4, HolderFacts
      <3>2. /\ ~Installed(b, n, l) /\ (Installed(b, n, l)' <=> State(i) = l)
            /\ Leftover(b, n, l)' <=> Leftover(b, n, l)
        BY <1>1, <1>2, <2>4, ExpectedHolder
      <3>3. CASE State(i) = l
        <4>1. outgoing'[<<b, n, l>>] = outgoing[<<b, n, l>>] + 1
          BY <2>1, <2>3, <3>1, <3>3, ChainFacts DEF Rule
        <4> QED
          BY <2>2, <2>4, <3>2, <3>3, <4>1 DEF Expected
      <3>4. CASE State(i) # l
        <4>1. outgoing'[<<b, n, l>>] = outgoing[<<b, n, l>>]
          BY <1>3, <2>1, <2>3, <3>1, <3>4, ChainFacts, SMTT(30) DEF Rule
        <4> QED
          BY <2>2, <2>4, <3>2, <3>4, <4>1 DEF Expected
      <3> QED
        BY <3>3, <3>4
    <2>5. CASE i \notin ByIpMac(b, n) \/ l = FW_MARK_NONE
      <3>1. Expected(b, n, l)' = Expected(b, n, l)
        BY <1>1, <1>2, <2>5, ExpectedHolder
      <3>2. Rule(t, State(i)) \in Ips \X Macs \X Marks /\ Rule(t, State(i)) # <<b, n, l>>
        BY <1>3, <2>5 DEF Rule
      <3>3. outgoing'[<<b, n, l>>] = outgoing[<<b, n, l>>]
        BY <2>1, <2>3, <3>2, ChainFacts
      <3> QED
        BY <2>2, <3>1, <3>3
    <2> QED
      BY <2>4, <2>5
  <1>5. MarksOK'
    BY <1>1, MarksHolder
  <1>6. IncomingExact' /\ ArpOK'
    <2>1. UNCHANGED incoming /\ (faults' = 0 => faults = 0)
      BY FaultFacts DEF GrantOut, Inv, TypeInv
    <2> QED
      BY <1>1, <2>1, IncomingStays
  <1> QED
    BY <1>4, <1>5, <1>6 DEF RulesInv

\* The INCOMING rule concerns the OUTGOING chain only in what comes next.
LEMMA RulesGrantIn ==
    ASSUME Inv, RulesInv, NEW t \in Threads, GrantIn(t)
    PROVE  RulesInv'
  <1>1. /\ pc[t] = "grant_in" /\ UNCHANGED <<list, node, outgoing>>
        /\ faults' = 0 => faults = 0 /\ incoming' = Append(incoming, Address(t))
    BY FaultFacts DEF GrantIn, listVars, Inv, TypeInv
  <1>2. CASE old[t] # FW_MARK_NONE /\ Goto(t, "clear_out") /\ UNCHANGED <<lock, localVars>>
    <2>1. /\ pc'[t] = "clear_out" /\ UNCHANGED <<cur, old, after>>
          /\ \A u \in Threads \ {t} : pc'[u] = pc[u]
      BY <1>2 DEF Goto, Inv, TypeInv, TypeOK, localVars
    <2>2. pc[t] \in Locking /\ pc'[t] \in Locking
      BY <1>1, <2>1 DEF Locking
    <2>3. \A b \in Ips, n \in Macs, l \in Marks : Expected(b, n, l)' = Expected(b, n, l)
      <3> TAKE b \in Ips, n \in Macs, l \in Marks
      <3>1. CASE cur[t] \notin ByIpMac(b, n) \/ l = FW_MARK_NONE
        BY <1>1, <2>1, <2>2, <3>1, ExpectedHolder
      <3>2. CASE cur[t] \in ByIpMac(b, n) /\ l # FW_MARK_NONE
        <4>1. /\ Installed(b, n, l)' <=> Installed(b, n, l)
              /\ Leftover(b, n, l)' <=> Leftover(b, n, l)
          BY <1>1, <2>1, <2>2, <3>2, ExpectedHolder
        <4> QED
          BY <4>1 DEF Expected
      <3> QED
        BY <3>1, <3>2
    <2>4. RulesExact'
      BY <1>1, <2>3 DEF RulesInv, RulesExact
    <2>5. MarksOK'
      BY <1>1, <1>2, <2>1, MarksHolder
    <2>6. IncomingExact'
      BY <1>1, <1>2, <2>1, IncomingGrant
    <2> QED
      BY <1>1, <2>4, <2>5, <2>6 DEF RulesInv, ArpOK
  <1>3. CASE old[t] = FW_MARK_NONE /\ Return(t)
    <2>1. /\ pc'[t] \notin Locking /\ pc'[t] = Idle(t)
          /\ \A u \in Threads \ {t} : pc'[u] = pc[u]
      BY <1>3 DEF Return, Goto, Idle, Locking, Inv, TypeInv, TypeOK
    <2>2. IncomingExact'
      BY <1>1, <1>3, <2>1, IncomingGrant
    <2> QED
      BY <1>1, <1>3, <2>1, <2>2, RulesEnd DEF RulesInv
  <1> QED
    BY <1>2, <1>3 DEF GrantIn

\* fw_deny, and the end of fw_allow, delete the rule of the previous mark.
LEMMA RulesClearOut ==
    ASSUME Inv, RulesInv, NEW t \in Threads, ClearOut(t)
    PROVE  RulesInv'
  <1> DEFINE i == cur[t]
  <1>1. /\ pc[t] = "clear_out" /\ pc'[t] = "clear_in"
        /\ \A u \in Threads \ {t} : pc'[u] = pc[u]
        /\ UNCHANGED <<list, node, cur, old, after>>
    BY DEF ClearOut, Goto, Inv, TypeInv, TypeOK, listVars, localVars
  <1>2. pc[t] \in Locking /\ pc'[t] \in Locking
    BY <1>1 DEF Locking
  <1>3. /\ i \in list /\ i \in Ids /\ old[t] \in Marks
        /\ node[i].ip \in Ips /\ node[i].mac \in Macs
        /\ i \in ByIpMac(node[i].ip, node[i].mac)
    BY <1>1, <1>2, HolderFacts DEF Inv, TypeInv, TypeOK, Client
  <1>4. RulesExact'
    <2> SUFFICES ASSUME faults' = 0, NEW b \in Ips, NEW n \in Macs, NEW l \in Marks
                 PROVE  outgoing'[<<b, n, l>>] = Expected(b, n, l)'
      BY DEF RulesExact
    <2>1. faults = 0 /\ outgoing' = Delete(outgoing, Rule(t, old[t]))
      BY FaultFacts DEF ClearOut, Inv, TypeInv
    <2>2. outgoing[<<b, n, l>>] = Expected(b, n, l)
      BY <2>1 DEF RulesInv, RulesExact
    <2>3. /\ outgoing \in [Ips \X Macs \X Marks -> Nat]
          /\ Rule(t, old[t]) \in Ips \X Macs \X Marks
      BY <1>3 DEF Inv, TypeInv, TypeOK, Rule
    <2>4. CASE i \in ByIpMac(b, n) /\ l # FW_MARK_NONE
      <3>1. b = node[i].ip /\ n = node[i].mac
        BY <1>2, <2>4, HolderFacts
      <3>2. /\ Installed(b, n, l)' <=> Installed(b, n, l)
            /\ ~Leftover(b, n, l)' /\ (Leftover(b, n, l) <=> old[t] = l)
        BY <1>1, <1>2, <2>4, ExpectedHolder
      <3>3. CASE old[t] = l
        <4>1. outgoing[<<b, n, l>>] > 0
          BY <2>2, <2>4, <3>2, <3>3 DEF Expected
        <4>2. outgoing'[<<b, n, l>>] = outgoing[<<b, n, l>>] - 1
          BY <2>1, <2>3, <3>1, <3>3, <4>1, ChainFacts DEF Rule
        <4> QED
          BY <2>2, <2>4, <3>2, <3>3, <4>2 DEF Expected
      <3>4. CASE old[t] # l
        <4>1. Rule(t, old[t]) # <<b, n, l>>
          BY <3>4 DEF Rule
        <4>2. outgoing'[<<b, n, l>>] = outgoing[<<b, n, l>>]
          BY <2>1, <2>3, <4>1, ChainFacts
        <4> QED
          BY <2>2, <2>4, <3>2, <3>4, <4>2 DEF Expected
      <3> QED
        BY <3>3, <3>4
    <2>5. CASE i \notin ByIpMac(b, n) \/ l = FW_MARK_NONE
      <3>1. Expected(b, n, l)' = Expected(b, n, l)
        BY <1>1, <1>2, <2>5, ExpectedHolder
      <3>2. CASE Rule(t, old[t]) # <<b, n, l>>
        BY <2>1, <2>2, <2>3, <3>1, <3>2, ChainFacts
      <3>3. CASE Rule(t, old[t]) = <<b, n, l>>
        <4>1. l = FW_MARK_NONE
          BY <1>3, <2>5, <3>3 DEF Rule
        <4>2. outgoing[<<b, n, l>>] = 0
          BY <2>2, <4>1 DEF Expected
        <4> QED
          BY <2>1, <2>2, <2>3, <3>1, <3>3, <4>2, ChainFacts
      <3> QED
        BY <3>2, <3>3
    <2> QED
      BY <2>4, <2>5
  <1>5. MarksOK'
    BY <1>1, MarksHolder
  <1>6. IncomingExact' /\ ArpOK'
    <2>1. UNCHANGED incoming /\ (faults' = 0 => faults = 0)
      BY FaultFacts DEF ClearOut, Inv, TypeInv
    <2> QED
      BY <1>1, <2>1, IncomingStays
  <1> QED
    BY <1>4, <1>5, <1>6 DEF RulesInv

\* The end of the critical section, in its three forms.
LEMMA RulesClearIn ==
    ASSUME Inv, RulesInv, NEW t \in Threads, ClearIn(t)
    PROVE  RulesInv'
  <1>1. /\ pc[t] = "clear_in" /\ UNCHANGED <<node, outgoing>>
        /\ faults' = 0 => faults = 0 /\ incoming' = Delete(incoming, Address(t))
    BY FaultFacts DEF ClearIn, Inv, TypeInv
  <1>2. pc'[t] \notin Locking /\ \A u \in Threads \ {t} : pc'[u] = pc[u]
    BY DEF ClearIn, RemoveThenUnlock, Return, Goto, Idle, Locking, Inv, TypeInv, TypeOK
  <1>3. \/ list' = list
        \/ after[t] # "unlock" /\ list' = list \ {cur[t]}
    BY DEF ClearIn, RemoveThenUnlock
  <1>4. IncomingExact'
    BY <1>1, <1>2, <1>3, IncomingClear
  <1> QED
    BY <1>1, <1>2, <1>3, <1>4, RulesEnd DEF RulesInv

\* The steps of logout_client after the client is off the list touch no rule.
LEMMA RulesLogout ==
    ASSUME Inv, RulesInv, NEW t \in Threads, LogoutStep(t)
    PROVE  RulesInv'
  <1>1. /\ pc[t] \notin Locking /\ pc'[t] \notin Locking
        /\ \A u \in Threads \ {t} : /\ pc'[u] = pc[u] /\ cur'[u] = cur[u]
                                    /\ old'[u] = old[u] /\ after'[u] = after[u]
    BY DEF LogoutStep, ReportLogout, FreeNode, Return, Goto, Idle, Locking, localVars,
           Inv, TypeInv, TypeOK
  <1>2. UNCHANGED <<list, node, outgoing, incoming, faults>>
    BY DEF LogoutStep, ReportLogout, FreeNode, listVars, ruleVars
  <1> QED
    BY <1>1, <1>2, RulesFrame

\* fw_deny begins for a client of the list.
LEMMA RulesDeny ==
    ASSUME Inv, RulesInv, NEW t \in Threads, lock = Free, NEW i \in list,
           NEW x \in Tokens, NEW next, fw_deny(t, i, x, next),
           UNCHANGED <<list, outgoing, incoming, faults>>
    PROVE  RulesInv'
  <1>1. FW_MARK_NONE \in Marks
    BY DEF Marks
  <1> QED
    BY <1>1, RulesStart DEF fw_deny

\* fw_allow begins for a client of the list.
LEMMA RulesAllow ==
    ASSUME Inv, RulesInv, NEW t \in Threads, lock = Free, NEW i \in list,
           NEW k \in Marks \ {FW_MARK_NONE}, NEW x \in Tokens, fw_allow(t, i, k, x),
           UNCHANGED <<list, outgoing, incoming, faults>>
    PROVE  RulesInv'
  <1>1. after'[t] = "unlock"
    BY DEF fw_allow, Inv, TypeInv, TypeOK
  <1> QED
    BY <1>1, RulesStart DEF fw_allow

\* A request arrives: a client is added, a logout or a login begins.
LEMMA RulesArrival ==
    ASSUME Inv, RulesInv, NEW h \in Handlers, Arrival(h)
    PROVE  RulesInv'
  <1> USE DEF listVars, ruleVars, localVars, syncVars, envVars, ghostVars
  <1>1. h \in Threads /\ pc[h] = "idle" /\ pc[h] \notin Locking /\ lock = Free
    BY DEF Threads, Arrival, HttpAuth, HttpDisconnect, WdctlReset, Locking
  <1>2. UNCHANGED <<outgoing, incoming, faults>>
    BY DEF Arrival, HttpAuth, HttpDisconnect, WdctlReset
  <1>3. CASE (\E i \in list : logout_client(h, i)) /\ UNCHANGED list
    <2>1. \A i \in list : node[i].token \in Tokens
      BY DEF Inv, TypeInv, TypeOK, Client
    <2> QED
      BY <1>1, <1>2, <1>3, <2>1, RulesDeny DEF logout_client
  <1>4. CASE Goto(h, "dup") /\ UNCHANGED <<list, node, cur, old, after>>
    <2>1. pc'[h] \notin Locking /\ \A u \in Threads \ {h} : pc'[u] = pc[u]
      BY <1>1, <1>4 DEF Goto, Locking, Inv, TypeInv, TypeOK
    <2> QED
      BY <1>1, <1>2, <1>4, <2>1, RulesFrame
  <1>5. CASE /\ \E a \in Ips, x \in Tokens : \E m \in ArpAnswers[a] : client_list_add(a, m, x)
             /\ Goto(h, "dup") \/ UNCHANGED pc
             /\ UNCHANGED <<cur, old, after>>
    <2>1. pc'[h] \notin Locking /\ \A u \in Threads \ {h} : pc'[u] = pc[u]
      BY <1>1, <1>5 DEF Goto, Locking, Inv, TypeInv, TypeOK
    <2> QED
      BY <1>1, <1>2, <1>5, <2>1, ArpAssumption, RulesAdd
  <1>6. CASE HttpAuth(h)
    BY <1>3, <1>4, <1>5, <1>6, ZenonT(90) DEF HttpAuth, ByIpMac
  <1>7. CASE HttpDisconnect(h) \/ WdctlReset(h)
    BY <1>3, <1>7 DEF HttpDisconnect, WdctlReset, ByIp, ByMac
  <1> QED
    BY <1>6, <1>7 DEF Arrival

\* The steps of authenticate_client.
LEMMA RulesLogin ==
    ASSUME Inv, RulesInv, NEW h \in Handlers, AuthDup(h) \/ LoginReply(h) \/ LoginVerdict(h)
    PROVE  RulesInv'
  <1> USE DEF listVars, ruleVars, localVars, syncVars, envVars, ghostVars
  <1>1. h \in Threads /\ pc[h] \notin Locking
    BY DEF Threads, AuthDup, LoginReply, LoginVerdict, Locking
  <1>2. UNCHANGED <<list, outgoing, incoming, faults>>
    BY DEF AuthDup, LoginReply, LoginVerdict
  <1>3. CASE AuthDup(h) \/ LoginReply(h)
    <2>1. /\ pc'[h] \notin Locking /\ UNCHANGED node
          /\ \A u \in Threads \ {h} : /\ pc'[u] = pc[u] /\ cur'[u] = cur[u]
                                      /\ old'[u] = old[u] /\ after'[u] = after[u]
      BY <1>1, <1>3 DEF AuthDup, LoginReply, Return, Goto, Idle, Locking, Inv, TypeInv, TypeOK
    <2> QED
      BY <1>1, <1>2, <2>1, RulesFrame
  <1>4. CASE LoginVerdict(h)
    <2>1. lock = Free /\ tok[h] \in Tokens
      BY <1>1, <1>4 DEF LoginVerdict, Inv, TypeInv, LocalsOK, WithToken
    <2>2. ASSUME Return(h)
          PROVE  /\ pc'[h] \notin Locking
                 /\ \A u \in Threads \ {h} : /\ pc'[u] = pc[u] /\ cur'[u] = cur[u]
                                             /\ old'[u] = old[u] /\ after'[u] = after[u]
      BY <1>1, <2>2 DEF Return, Goto, Idle, Locking, Inv, TypeInv, TypeOK
    <2>3. CASE Return(h) /\ UNCHANGED node
      BY <1>1, <1>2, <2>2, <2>3, RulesFrame
    <2>4. CASE \E i \in list : LoginPage(h, i)
      <3>1. PICK i \in list : LoginPage(h, i)
        BY <2>4
      <3>2. i \in Ids /\ list \subseteq Ids /\ node[i].fw_connection_state \in Marks
        BY DEF Inv, TypeInv, TypeOK, Client
      <3>3. \A j \in list : /\ node'[j].ip = node[j].ip /\ node'[j].mac = node[j].mac
                            /\ node'[j].fw_connection_state = node[j].fw_connection_state
        BY <2>1, <3>1, <3>2, SetStateFacts DEF LoginPage, Inv, TypeInv
      <3>4. Return(h)
        BY <3>1 DEF LoginPage
      <3> QED
        BY <1>1, <1>2, <2>2, <3>3, <3>4, RulesFrame
    <2>5. CASE \E i \in list : \/ fw_deny(h, i, tok[h], "unlock")
                               \/ \E k \in Marks \ {FW_MARK_NONE} : fw_allow(h, i, k, tok[h])
      BY <1>1, <1>2, <2>1, <2>5, RulesDeny, RulesAllow
    <2>6. FW_MARK_KNOWN \in Marks \ {FW_MARK_NONE} /\ FW_MARK_PROBATION \in Marks \ {FW_MARK_NONE}
      BY DEF Marks
    <2> QED
      BY <1>4, <2>3, <2>4, <2>5, <2>6 DEF LoginVerdict, find_by_client
  <1> QED
    BY <1>3, <1>4

\* An address without a client expects no rule, so the deletion of every
\* rule that mentions it, and nothing else, is in order.
LEMMA RulesMention ==
    ASSUME ExactMentions, Inv, RulesInv, NEW a \in Ips, ByIp(a) = {}, lock = Free,
           iptables_fw_destroy_mention(a), UNCHANGED <<list, node, pc, cur, old, after, faults>>
    PROVE  RulesInv'
  <1>1. \A b \in Ips, n \in Macs, l \in Marks : Expected(b, n, l)' = Expected(b, n, l)
    BY DEF Expected, Installed, Leftover, ByIpMac, State
  <1>2. \A n \in Macs, l \in Marks : Expected(a, n, l) = 0
    <2>1. \A n \in Macs : ByIpMac(a, n) = {}
      BY DEF ByIp, ByIpMac
    <2> QED
      BY <2>1 DEF Expected, Installed, Leftover
  <1>3. \A b \in Ips : b \in Mentioned(a) <=> b = a
    BY DEF ExactMentions, Mentioned
  <1>4. \A b \in Ips, n \in Macs, l \in Marks :
          outgoing'[<<b, n, l>>] = IF b = a THEN 0 ELSE outgoing[<<b, n, l>>]
    BY <1>3 DEF iptables_fw_destroy_mention
  <1>5. RulesExact'
    <2> SUFFICES ASSUME faults' = 0, NEW b \in Ips, NEW n \in Macs, NEW l \in Marks
                 PROVE  outgoing'[<<b, n, l>>] = Expected(b, n, l)'
      BY DEF RulesExact
    <2>1. outgoing[<<b, n, l>>] = Expected(b, n, l)
      BY DEF RulesInv, RulesExact
    <2> QED
      BY <1>1, <1>2, <1>4, <2>1
  <1>6. MarksOK' /\ ArpOK'
    BY DEF RulesInv, MarksOK, ArpOK, HasAccess, State
  <1>7. IncomingExact'
    <2> SUFFICES ASSUME OneMachine, faults = 0, NEW b \in Ips
                 PROVE  incoming'[b] = ExpectedIn(b)'
      BY DEF IncomingExact, OneMachine
    <2>1. incoming[b] = ExpectedIn(b)
      BY DEF RulesInv, IncomingExact
    <2>2. ExpectedIn(b)' = ExpectedIn(b)
      BY DEF ExpectedIn, Accepted, Outdated, ByIp, HasAccess, State
    <2>3. b = a => ExpectedIn(b) = 0
      BY DEF ExpectedIn, Accepted, Outdated
    <2>4. incoming'[b] = IF b = a THEN 0 ELSE incoming[b]
      BY <1>3 DEF iptables_fw_destroy_mention
    <2> QED
      BY <2>1, <2>2, <2>3, <2>4
  <1> QED
    BY <1>5, <1>6, <1>7 DEF RulesInv

\* The steps of the sync thread.
LEMMA RulesSync ==
    ASSUME ExactMentions, Inv, RulesInv,
           \/ SyncListOut \/ SyncListIn \/ SyncLine \/ SyncDup
           \/ SyncRequest \/ SyncDone \/ SyncCheck
    PROVE  RulesInv'
  <1> USE DEF listVars, ruleVars, localVars, syncVars, envVars, ghostVars
  <1>1. Sync \in Threads /\ pc[Sync] \notin Locking
    BY DEF Threads, SyncListOut, SyncListIn, SyncLine, SyncDup, SyncRequest, SyncDone,
           SyncCheck, Locking
  <1>2. list' = list
    BY DEF SyncListOut, SyncListIn, SyncLine, SyncDup, SyncRequest, SyncDone, SyncCheck
  <1>3. CASE SyncListOut \/ SyncListIn \/ SyncDup \/ SyncRequest \/ SyncDone
    <2>1. /\ pc'[Sync] \notin Locking
          /\ \A u \in Threads \ {Sync} : /\ pc'[u] = pc[u] /\ cur'[u] = cur[u]
                                         /\ old'[u] = old[u] /\ after'[u] = after[u]
      BY <1>1, <1>3 DEF SyncListOut, SyncListIn, SyncDup, SyncRequest, SyncDone, Goto, Locking,
                        Inv, TypeInv, TypeOK
    <2>2. UNCHANGED <<node, outgoing, incoming>> /\ (faults' = 0 => faults = 0)
      BY <1>3, FaultFacts DEF SyncListOut, SyncListIn, SyncDup, SyncRequest, SyncDone, Inv, TypeInv
    <2> QED
      BY <1>1, <1>2, <2>1, <2>2, RulesFrame
  <1>4. CASE SyncLine
    <2>1. CASE UNCHANGED <<outgoing, incoming>>
      BY <1>1, <1>2, <1>4, <2>1, RulesFrame DEF SyncLine
    <2>2. CASE \E a \in Ips : ByIp(a) = {} /\ iptables_fw_destroy_mention(a)
      BY <1>2, <1>4, <2>2, RulesMention DEF SyncLine
    <2>3. lines \subseteq Ips
      BY DEF Inv, TypeInv, TypeOK
    <2> QED
      BY <1>4, <2>1, <2>2, <2>3 DEF SyncLine
  <1>5. CASE SyncCheck
    <2>1. lock = Free /\ UNCHANGED <<outgoing, incoming, faults>>
      BY <1>5 DEF SyncCheck
    <2>2. CASE Return(Sync) /\ UNCHANGED node
      <3>1. /\ pc'[Sync] \notin Locking
            /\ \A u \in Threads \ {Sync} : /\ pc'[u] = pc[u] /\ cur'[u] = cur[u]
                                           /\ old'[u] = old[u] /\ after'[u] = after[u]
        BY <1>1, <2>2 DEF Return, Goto, Idle, Locking, Inv, TypeInv, TypeOK
      <3> QED
        BY <1>1, <1>2, <2>1, <2>2, <3>1, RulesFrame
    <2>3. CASE \E i \in list : \/ logout_client(Sync, i)
                               \/ fw_deny(Sync, i, node[i].token, "delete")
                               \/ fw_allow(Sync, i, FW_MARK_KNOWN, node[i].token)
      <3>1. /\ \A i \in list : node[i].token \in Tokens
            /\ FW_MARK_KNOWN \in Marks \ {FW_MARK_NONE}
        BY DEF Inv, TypeInv, TypeOK, Client, Marks
      <3> QED
        BY <1>1, <1>2, <2>1, <2>3, <3>1, RulesDeny, RulesAllow DEF logout_client
    <2> QED
      BY <1>5, <2>2, <2>3 DEF SyncCheck, find_by_client
  <1> QED
    BY <1>3, <1>4, <1>5

\* The environment changes nothing the rules depend on.
LEMMA RulesEnvironment ==
    ASSUME RulesInv, TimePasses \/ Settle \/ UNCHANGED vars
    PROVE  RulesInv'
  <1>1. UNCHANGED <<list, node, pc, cur, old, after, outgoing, incoming, faults>>
    BY DEF TimePasses, Settle, vars, listVars, ruleVars, localVars
  <1>2. \A b \in Ips, n \in Macs, l \in Marks : Expected(b, n, l)' = Expected(b, n, l)
    BY <1>1 DEF Expected, Installed, Leftover, ByIpMac, State
  <1>3. RulesExact'
    BY <1>1, <1>2 DEF RulesInv, RulesExact
  <1>4. MarksOK' /\ ArpOK'
    BY <1>1 DEF RulesInv, MarksOK, ArpOK, HasAccess, State
  <1>5. IncomingExact'
    BY <1>1 DEF RulesInv, IncomingExact, OneMachine, ExpectedIn, Accepted, Outdated, ByIp,
                HasAccess, State
  <1> QED
    BY <1>3, <1>4, <1>5 DEF RulesInv

\* Every step preserves the agreement of chain and list.
LEMMA RulesStep ==
    ASSUME ExactMentions, Inv, RulesInv, [Next]_vars
    PROVE  RulesInv'
  <1>1. CASE TimePasses \/ Settle \/ UNCHANGED vars
    BY <1>1, RulesEnvironment
  <1>2. ASSUME NEW t \in Threads, FirewallStep(t) \/ LogoutStep(t)
        PROVE  RulesInv'
    BY <1>2, RulesGrantOut, RulesGrantIn, RulesClearOut, RulesClearIn, RulesLogout DEF FirewallStep
  <1>3. CASE SyncStep
    BY <1>2, <1>3, RulesSync DEF SyncStep, Threads
  <1>4. ASSUME NEW h \in Handlers, Arrival(h) \/ HandlerStep(h)
        PROVE  RulesInv'
    BY <1>2, <1>4, RulesArrival, RulesLogin DEF HandlerStep, Threads
  <1> QED
    BY <1>1, <1>3, <1>4 DEF Next

\* With the lock free the expected rules are those of the marks on the list.
LEMMA RulesUnlocked == Inv /\ RulesInv => OutgoingMatchesList
  <1> SUFFICES ASSUME Inv, RulesInv, lock = Free, faults = 0,
                      NEW a \in Ips, NEW m \in Macs, NEW k \in Marks
               PROVE  outgoing[<<a, m, k>>] =
                        IF k # FW_MARK_NONE /\ \E i \in ByIpMac(a, m) : State(i) = k
                        THEN 1 ELSE 0
    BY DEF OutgoingMatchesList
  <1>1. \A u \in Threads : pc[u] \notin Locking
    BY NobodyLocking
  <1>2. ~Leftover(a, m, k) /\ (Installed(a, m, k) <=> \E i \in ByIpMac(a, m) : State(i) = k)
    BY <1>1 DEF Leftover, Installed, Locking
  <1>3. outgoing[<<a, m, k>>] = Expected(a, m, k)
    BY DEF RulesInv, RulesExact
  <1> QED
    BY <1>2, <1>3 DEF Expected

\* The same for INCOMING.
LEMMA IncomingUnlocked ==
    ASSUME OneMachine, Inv, RulesInv
    PROVE  IncomingMatchesList
  <1> SUFFICES ASSUME lock = Free, faults = 0, NEW a \in Ips
               PROVE  (incoming[a] > 0) <=> (\E i \in ByIp(a) : HasAccess(i))
    BY DEF IncomingMatchesList
  <1>1. \A u \in Threads : pc[u] \notin Locking
    BY NobodyLocking
  <1>2. ~Outdated(a) /\ (Accepted(a) <=> \E i \in ByIp(a) : HasAccess(i))
    BY <1>1 DEF Outdated, Accepted, Locking
  <1>3. incoming[a] = ExpectedIn(a)
    BY DEF RulesInv, IncomingExact
  <1> QED
    BY <1>2, <1>3 DEF ExpectedIn

\* Both agreements hold in every state.
LEMMA RulesInvariant ==
    ASSUME ExactMentions PROVE Spec => [](Inv /\ RulesInv)
  <1>1. Spec => []Inv
    BY TypeInvariant, NodesInvariant, AccessInvariant, PTL DEF Inv
  <1>2. Inv /\ RulesInv /\ [Next]_vars => RulesInv'
    BY RulesStep
  <1> QED
    BY <1>1, <1>2, RulesInit, PTL DEF Spec

\* When no address is part of the text of another, the OUTGOING chain agrees
\* with the client list whenever the list is unlocked, for any number of
\* handlers, clients, addresses and sessions: no login, logout, reset,
\* timeout or verdict of the auth server leaves a rule behind, doubles one or
\* removes the rule of somebody else.
THEOREM RulesSafe ==
    ASSUME ExactMentions PROVE Spec => []OutgoingMatchesList
  BY RulesInvariant, RulesUnlocked, PTL

\* When moreover each address is used by one machine, the INCOMING chain
\* accepts traffic for exactly the addresses of the clients with access
\* whenever the list is unlocked, although fw_deny deletes a rule for clients
\* that never had one (fw_allow, fw_deny, iptables_fw_access).
THEOREM IncomingSafe ==
    ASSUME ExactMentions, OneMachine PROVE Spec => []IncomingMatchesList
  BY RulesInvariant, IncomingUnlocked, PTL

\* While somebody is between the first two commands of fw_allow, nobody else
\* changes a rule.
LEMMA GrantAlone ==
    ASSUME Inv, Inv', [Next]_vars, NEW t \in Threads, pc'[t] = "grant_out"
    PROVE  UNCHANGED outgoing
  <1>1. lock' = t /\ pc'[t] \in Locking
    BY DEF Inv, NodesInv, LockOK, Locking
  <1>2. ASSUME NEW u \in Threads, FirewallStep(u) \/ LogoutStep(u), ~UNCHANGED outgoing
        PROVE  FALSE
    <2>1. GrantOut(u) \/ ClearOut(u)
      BY <1>2 DEF FirewallStep, LogoutStep, GrantIn, ClearIn, ReportLogout, FreeNode, ruleVars
    <2>2. pc[u] \in Locking /\ pc'[u] \in {"grant_in", "clear_in"} /\ UNCHANGED lock
      BY <2>1 DEF GrantOut, ClearOut, Goto, Locking, Inv, TypeInv, TypeOK
    <2>3. lock = u
      BY <2>2 DEF Inv, NodesInv, LockOK
    <2> QED
      BY <1>1, <2>2, <2>3
  <1>3. CASE SyncLine
    <2>1. lock' = Free
      BY <1>3 DEF SyncLine
    <2> QED
      BY <1>1, <2>1, ThreadsAssumption
  <1>4. CASE SyncListOut \/ SyncListIn \/ SyncDup \/ SyncRequest \/ SyncDone \/ SyncCheck
    BY <1>4 DEF SyncListOut, SyncListIn, SyncDup, SyncRequest, SyncDone, SyncCheck, ruleVars
  <1>5. CASE TimePasses \/ Settle \/ UNCHANGED vars
    BY <1>5 DEF TimePasses, Settle, vars, ruleVars
  <1>6. ASSUME NEW h \in Handlers, Arrival(h) \/ AuthDup(h) \/ LoginReply(h) \/ LoginVerdict(h)
        PROVE  UNCHANGED outgoing
    BY <1>6 DEF Arrival, HttpAuth, HttpDisconnect, WdctlReset, AuthDup, LoginReply, LoginVerdict, ruleVars
  <1> QED
    BY <1>2, <1>3, <1>4, <1>5, <1>6 DEF Next, SyncStep, HandlerStep, Threads

\* A client that stays on the list keeps its address and its MAC.
LEMMA SameMachine ==
    ASSUME Inv, [Next]_vars, NEW i \in list
    PROVE  node'[i].ip = node[i].ip /\ node'[i].mac = node[i].mac
  <1> USE DEF listVars, vars
  <1> DEFINE Same == node'[i].ip = node[i].ip /\ node'[i].mac = node[i].mac
  <1> SUFFICES Same
    OBVIOUS
  <1>1. TypeOK /\ i \in Ids /\ list \subseteq Ids
    BY DEF Inv, TypeInv, TypeOK
  <1>2. CASE UNCHANGED node
    BY <1>2
  <1>3. ASSUME NEW j \in list, NEW k, NEW x, SetState(j, k, x)
        PROVE  Same
    BY <1>1, <1>3 DEF SetState, TypeOK, Client
  <1>4. ASSUME NEW a, NEW m, NEW x, client_list_add(a, m, x)
        PROVE  Same
    BY <1>1, <1>4, BoundsAssumption DEF client_list_add, TypeOK, Ids
  <1> HIDE DEF Same
  <1>5. ASSUME NEW h \in Handlers, Arrival(h)
        PROVE  Same
    BY <1>2, <1>3, <1>4, <1>5, ZenonT(90)
       DEF Arrival, HttpAuth, HttpDisconnect, WdctlReset, logout_client, fw_deny, ByIp, ByMac, ByIpMac
  <1>6. ASSUME NEW h \in Handlers, AuthDup(h) \/ LoginReply(h) \/ LoginVerdict(h)
        PROVE  Same
    BY <1>2, <1>3, <1>6 DEF AuthDup, LoginReply, LoginVerdict, LoginPage, fw_deny, fw_allow,
                            find_by_client
  <1>7. CASE SyncListOut \/ SyncListIn \/ SyncLine \/ SyncDup \/ SyncRequest \/ SyncDone \/ SyncCheck
    BY <1>2, <1>3, <1>7 DEF SyncListOut, SyncListIn, SyncLine, SyncDup, SyncRequest, SyncDone, SyncCheck,
                            logout_client, fw_deny, fw_allow, find_by_client
  <1>8. ASSUME NEW t \in Threads, FirewallStep(t) \/ LogoutStep(t)
        PROVE  Same
    BY <1>2, <1>8 DEF FirewallStep, LogoutStep, GrantOut, GrantIn, ClearOut, ClearIn,
                      ReportLogout, FreeNode
  <1>9. CASE TimePasses \/ Settle \/ UNCHANGED vars
    BY <1>2, <1>9 DEF TimePasses, Settle
  <1> QED
    BY <1>5, <1>6, <1>7, <1>8, <1>9 DEF Next, SyncStep, HandlerStep, Threads

\* Outside the first command of fw_allow a client with access has a rule.
MarkedUnlessGranting ==
    (faults = 0 /\ \A t \in Threads : pc[t] # "grant_out") =>
        \A i \in list : HasAccess(i) => Marked(i)

\* This follows from the agreement of OUTGOING and list.
LEMMA AccessMeansMarked == Inv /\ RulesInv => MarkedUnlessGranting
  <1> SUFFICES ASSUME Inv, RulesInv, faults = 0, NEW i \in list, HasAccess(i),
                      \A t \in Threads : pc[t] # "grant_out"
               PROVE  Marked(i)
    BY DEF MarkedUnlessGranting
  <1> DEFINE a == node[i].ip
             m == node[i].mac
             k == State(i)
  <1>1. a \in Ips /\ m \in Macs /\ k \in Marks \ {FW_MARK_NONE} /\ i \in ByIpMac(a, m)
    BY DEF Inv, TypeInv, TypeOK, Client, HasAccess, State, ByIpMac
  <1>2. Installed(a, m, k)
    BY <1>1 DEF Installed
  <1>3. outgoing[<<a, m, k>>] = Expected(a, m, k)
    BY <1>1 DEF RulesInv, RulesExact
  <1>4. outgoing[<<a, m, k>>] > 0
    BY <1>1, <1>2, <1>3 DEF Expected
  <1> QED
    BY <1>1, <1>4 DEF Marked

\* As long as no iptables command fails, the packets of a client lose their
\* mark only in a step that leaves the client without access: neither a change
\* of mark nor the sync thread opens a gap (fw_allow grants before it clears,
\* iptables_fw_destroy_mention spares the addresses of the list).
THEOREM NoGap ==
    ASSUME ExactMentions PROVE Spec => NoServiceGap
  <1>1. ASSUME Inv, Inv', MarkedUnlessGranting', [Next]_vars
        PROVE  [\A i \in list \cap list' :
                  (Marked(i) /\ ~Marked(i)' /\ faults' = 0) => ~HasAccess(i)']_vars
    <2> SUFFICES ASSUME NEW i \in list \cap list', Marked(i), ~Marked(i)', faults' = 0, HasAccess(i)'
                 PROVE  FALSE
      OBVIOUS
    <2>1. CASE \A t \in Threads : pc'[t] # "grant_out"
      BY <1>1, <2>1 DEF MarkedUnlessGranting
    <2>2. CASE \E t \in Threads : pc'[t] = "grant_out"
      <3>1. UNCHANGED outgoing
        BY <1>1, <2>2, GrantAlone
      <3>2. node'[i].ip = node[i].ip /\ node'[i].mac = node[i].mac
        BY <1>1, SameMachine
      <3> QED
        BY <3>1, <3>2 DEF Marked
    <2> QED
      BY <2>1, <2>2
  <1> QED
    BY <1>1, RulesInvariant, AccessMeansMarked, PTL DEF Spec, NoServiceGap

=============================================================================
