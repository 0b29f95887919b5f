--------------------------- MODULE ClientSessions ---------------------------
(***************************************************************************)
(* The client sessions of the gateway: the client list (client_list.c),    *)
(* the per-client firewall rules (fw_allow, fw_deny, iptables_fw_access),  *)
(* the request handlers that change them (http_callback_auth,              *)
(* http_callback_disconnect, wdctl_reset, authenticate_client,             *)
(* logout_client) and the periodic fw_sync_with_authserver.                *)
(*                                                                         *)
(* Every handler runs in a thread of its own and takes client_list_mutex   *)
(* ("lock") around list and rule changes, but not around the requests to   *)
(* the auth server.  A critical section that runs no external command is   *)
(* one step; every iptables command is a step of its own, because the sync *)
(* thread lists the chains, and packets traverse them, without the lock.   *)
(***************************************************************************)
EXTENDS Naturals

CONSTANTS
    Handlers,       \* threads serving HTTP and wdctl requests
    Sync,           \* the thread of thread_client_timeout_check
    Free,           \* value of lock when nobody holds client_list_mutex
    Ips, Macs, Tokens,
    ArpAnswers,     \* ArpAnswers[a]: the MACs arp_get may answer for address a
    Mentions,       \* <<a, b>>: the text of address a occurs in that of b
    Worlds,         \* the ways auth server and traffic may settle in the long run
    FinalCode,      \* FinalCode[w][x]: what the server then answers about token x
    QuietIps,       \* QuietIps[w]: the addresses that then send no traffic
    MaxId,          \* bound on client_id: the sessions created in a behaviour
    MaxFaults       \* bound on the iptables commands that fail

Threads == Handlers \cup {Sync}

\* t_authcode, with LOCKED standing for every code the switches do not know.
Codes == {"ERROR", "DENIED", "ALLOWED", "VALIDATION", "VALIDATION_FAILED", "LOCKED"}

FW_MARK_NONE == 0
FW_MARK_PROBATION == 1
FW_MARK_KNOWN == 2
Marks == {FW_MARK_NONE, FW_MARK_PROBATION, FW_MARK_KNOWN}

ASSUME ThreadsAssumption == Sync \notin Handlers /\ Free \notin Threads
ASSUME ArpAssumption == ArpAnswers \in [Ips -> SUBSET Macs]
ASSUME MentionsAssumption ==
    Mentions \subseteq Ips \X Ips /\ \A a \in Ips : <<a, a>> \in Mentions
ASSUME EnvironmentAssumption ==
    /\ "no" \notin Worlds
    /\ FinalCode \in [Worlds -> [Tokens -> Codes]]
    /\ QuietIps \in [Worlds -> SUBSET Ips]
ASSUME BoundsAssumption == MaxId \in Nat /\ MaxFaults \in Nat

VARIABLES
    lock,           \* the thread that holds client_list_mutex, or Free
    list,           \* the ids on the list headed by firstclient
    client_id,      \* the next id to hand out
    node,           \* the t_client of every id handed out so far
    freed,          \* the ids whose node client_free_node has released
    expired,        \* the ids with last_updated older than the timeout
    outgoing,       \* mangle table, OUTGOING chain: rules per <<ip, mac, mark>>
    incoming,       \* mangle table, INCOMING chain: rules per ip
    faults,         \* iptables commands that failed so far
    pc, cur, addr, tok, code, old, after,    \* the threads' locals
    lines,          \* sync: addresses still to read from the chain listing
    worklist,       \* sync: what is left of the copy made by client_list_dup
    settled,        \* the world auth server and traffic settled on, "no" before
    granted,        \* ghost: <<id, mark>> that some reply entitled id to mark
    reported        \* ghost: ids whose logout was reported to the auth server

listVars == <<list, client_id, node, freed>>
ruleVars == <<outgoing, incoming, faults>>
localVars == <<cur, addr, tok, code, old, after>>
syncVars == <<lines, worklist>>
envVars == <<settled, expired>>
ghostVars == <<granted, reported>>
vars == <<lock, listVars, ruleVars, pc, localVars, syncVars, envVars, ghostVars>>

Ids == 1 .. (client_id - 1)
NULL == 0

Client == [ip : Ips, mac : Macs, token : Tokens, fw_connection_state : Marks]

-----------------------------------------------------------------------------
(* client_list.c.  Insertion is at the head and ids only grow, so the      *)
(* first match of a walk is the match with the highest id.                 *)

IsFirst(i, S) == i \in S /\ \A j \in S : j <= i

ByIp(a) == {i \in list : node[i].ip = a}
ByMac(m) == {i \in list : node[i].mac = m}

\* Mutant: a client without access counts as absent.
ByIpMacWithAccess(a, m) ==
    {i \in list : /\ node[i].ip = a /\ node[i].mac = m
                  /\ node[i].fw_connection_state # FW_MARK_NONE}
ByIpMac(a, m) == {i \in list : node[i].ip = a /\ node[i].mac = m}

\* Mutant: ++client_id instead of client_id++.
AddPreIncrement(a, m, x) ==
    /\ client_id <= MaxId
    /\ client_id' = client_id + 1
    /\ list' = list \cup {client_id + 1}
    /\ node' = [i \in 1 .. client_id |->
                  IF i = client_id
                  THEN [ip |-> a, mac |-> m, token |-> x,
                        fw_connection_state |-> FW_MARK_NONE]
                  ELSE node[i]]
client_list_add(a, m, x) ==
    /\ client_id <= MaxId
    /\ client_id' = client_id + 1
    /\ list' = list \cup {client_id}
    /\ node' = [i \in 1 .. client_id |->
                  IF i = client_id
                  THEN [ip |-> a, mac |-> m, token |-> x,
                        fw_connection_state |-> FW_MARK_NONE]
                  ELSE node[i]]

-----------------------------------------------------------------------------
(* Thread control.                                                         *)

Idle(t) == IF t = Sync THEN "next" ELSE "idle"

Goto(t, label) == pc' = [pc EXCEPT ![t] = label]

\* The thread leaves its last critical section: locals are dead.
Return(t) ==
    /\ lock' = Free
    /\ Goto(t, Idle(t))
    /\ cur' = [cur EXCEPT ![t] = NULL]
    /\ old' = [old EXCEPT ![t] = FW_MARK_NONE]
    /\ after' = [after EXCEPT ![t] = "unlock"]
    /\ code' = [code EXCEPT ![t] = "ERROR"]
    /\ addr' = [addr EXCEPT ![t] = NULL]
    /\ tok' = [tok EXCEPT ![t] = NULL]

-----------------------------------------------------------------------------
(* firewall.c: the start of fw_allow and fw_deny on client i, the lock     *)
(* being held by t from here on.  "next" is what the caller does with the  *)
(* client once the rules are changed.                                      *)

SetState(i, mark, x) ==
    node' = [node EXCEPT ![i] = [@ EXCEPT !.fw_connection_state = mark,
                                          !.token = x]]

\* Mutant: a client that has a mark already only gets that one cleared.
AllowClearsOnly(t, i, mark, x) ==
    /\ lock' = t
    /\ SetState(i, mark, x)
    /\ cur' = [cur EXCEPT ![t] = i]
    /\ old' = [old EXCEPT ![t] = node[i].fw_connection_state]
    /\ after' = [after EXCEPT ![t] = "unlock"]
    /\ Goto(t, IF node[i].fw_connection_state = FW_MARK_NONE THEN "grant_out" ELSE "clear_out")
fw_allow(t, i, mark, x) ==
    /\ lock' = t
    /\ SetState(i, mark, x)
    /\ cur' = [cur EXCEPT ![t] = i]
    /\ old' = [old EXCEPT ![t] = node[i].fw_connection_state]
    /\ after' = [after EXCEPT ![t] = "unlock"]
    /\ Goto(t, "grant_out")

\* Mutant: the mark to clear is read after it was overwritten.
DenyForgetsMark(t, i, x, next) ==
    /\ lock' = t
    /\ SetState(i, FW_MARK_NONE, x)
    /\ cur' = [cur EXCEPT ![t] = i]
    /\ old' = [old EXCEPT ![t] = FW_MARK_NONE]
    /\ after' = [after EXCEPT ![t] = next]
    /\ Goto(t, "clear_out")
fw_deny(t, i, x, next) ==
    /\ lock' = t
    /\ SetState(i, FW_MARK_NONE, x)
    /\ cur' = [cur EXCEPT ![t] = i]
    /\ old' = [old EXCEPT ![t] = node[i].fw_connection_state]
    /\ after' = [after EXCEPT ![t] = next]
    /\ Goto(t, "clear_out")

logout_client(t, i) == fw_deny(t, i, node[i].token, "logout")

-----------------------------------------------------------------------------
(* fw_iptables.c: iptables_fw_access, one command per step.  The return    *)
(* code of a command is ignored by every caller; a command that fails      *)
(* leaves the chain as it was.                                             *)

Rule(t, mark) == <<node[cur[t]].ip, node[cur[t]].mac, mark>>
Address(t) == node[cur[t]].ip

CommandSucceeds == UNCHANGED faults
CommandFails == faults < MaxFaults /\ faults' = faults + 1

Append(chain, rule) == [chain EXCEPT ![rule] = @ + 1]
Delete(chain, rule) == [chain EXCEPT ![rule] = IF @ = 0 THEN 0 ELSE @ - 1]

GrantOut(t) ==
    /\ pc[t] = "grant_out"
    /\ \/ /\ CommandSucceeds
          /\ outgoing' = Append(outgoing, Rule(t, node[cur[t]].fw_connection_state))
       \/ CommandFails /\ UNCHANGED outgoing
    /\ Goto(t, "grant_in")
    /\ UNCHANGED <<lock, listVars, incoming, localVars, syncVars, envVars, ghostVars>>

\* Mutant: the previous mark is never cleared.
GrantInOnly(t) ==
    /\ pc[t] = "grant_in"
    /\ incoming' = Append(incoming, Address(t))
    /\ Return(t)
    /\ UNCHANGED <<listVars, outgoing, faults, syncVars, envVars, ghostVars>>

\* A client that had no mark has no rules to clear: the critical section ends.
GrantIn(t) ==
    /\ pc[t] = "grant_in"
    /\ \/ CommandSucceeds /\ incoming' = Append(incoming, Address(t))
       \/ CommandFails /\ UNCHANGED incoming
    /\ \/ /\ old[t] # FW_MARK_NONE
          /\ Goto(t, "clear_out")
          /\ UNCHANGED <<lock, localVars>>
       \/ /\ old[t] = FW_MARK_NONE
          /\ Return(t)
    /\ UNCHANGED <<listVars, outgoing, syncVars, envVars, ghostVars>>

ClearOut(t) ==
    /\ pc[t] = "clear_out"
    /\ \/ CommandSucceeds /\ outgoing' = Delete(outgoing, Rule(t, old[t]))
       \/ CommandFails /\ UNCHANGED outgoing
    /\ Goto(t, "clear_in")
    /\ UNCHANGED <<lock, listVars, incoming, localVars, syncVars, envVars, ghostVars>>

\* logout_client after fw_deny: client_list_remove, then UNLOCK for the report.
\* Mutant: the client stays on the list until the report is sent.
UnlockBeforeRemove(t) ==
    /\ lock' = Free
    /\ Goto(t, "report")
    /\ UNCHANGED <<list, freed, localVars>>
RemoveThenUnlock(t) ==
    /\ list' = list \ {cur[t]}
    /\ lock' = Free
    /\ Goto(t, "report")
    /\ UNCHANGED <<freed, localVars>>

\* The last command, and what follows it in the same critical section:
\* nothing (authenticate_client, fw_allow), client_list_delete
\* (fw_sync_with_authserver) or client_list_remove and UNLOCK (logout_client).
ClearIn(t) ==
    /\ pc[t] = "clear_in"
    /\ \/ CommandSucceeds /\ incoming' = Delete(incoming, Address(t))
       \/ CommandFails /\ UNCHANGED incoming
    /\ \/ /\ after[t] = "unlock"
          /\ Return(t)
          /\ UNCHANGED <<list, freed>>
       \/ /\ after[t] = "delete"
          /\ list' = list \ {cur[t]}
          /\ freed' = freed \cup {cur[t]}
          /\ Return(t)
       \/ /\ after[t] = "logout"
          /\ RemoveThenUnlock(t)
    /\ UNCHANGED <<client_id, node, outgoing, syncVars, envVars, ghostVars>>

\* logout_client: REQUEST_TYPE_LOGOUT, sent without the lock from the
\* removed node; the reply is ignored.
ReportLogout(t) ==
    /\ pc[t] = "report"
    /\ reported' = reported \cup {cur[t]}
    /\ Goto(t, "free")
    /\ UNCHANGED <<lock, listVars, ruleVars, localVars, syncVars, envVars, granted>>

\* logout_client: LOCK, client_free_node, and the caller's UNLOCK.
FreeNode(t) ==
    /\ pc[t] = "free"
    /\ lock = Free
    /\ freed' = freed \cup {cur[t]}
    /\ Return(t)
    /\ UNCHANGED <<list, client_id, node, ruleVars, syncVars, envVars, ghostVars>>

FirewallStep(t) == GrantOut(t) \/ GrantIn(t) \/ ClearOut(t) \/ ClearIn(t)
LogoutStep(t) == ReportLogout(t) \/ FreeNode(t)

-----------------------------------------------------------------------------
(* The request handlers.                                                   *)

\* http_callback_auth for a request from address a with token x.
HttpAuth(h) ==
    /\ pc[h] = "idle" /\ lock = Free
    /\ \E a \in Ips, x \in Tokens, logout \in BOOLEAN : \E m \in ArpAnswers[a] :
         \/ /\ ByIpMac(a, m) = {}
            /\ client_list_add(a, m, x)
            /\ \/ /\ logout
                  /\ UNCHANGED <<pc, addr, tok>>
               \/ /\ ~logout
                  /\ Goto(h, "dup")
                  /\ addr' = [addr EXCEPT ![h] = a]
                  /\ tok' = [tok EXCEPT ![h] = x]
            /\ UNCHANGED <<lock, cur, old, after>>
         \/ /\ logout
            /\ \E i \in ByIpMac(a, m) :
                 /\ IsFirst(i, ByIpMac(a, m))
                 /\ logout_client(h, i)
            /\ UNCHANGED <<list, client_id, addr, tok>>
         \/ /\ ~logout
            /\ ByIpMac(a, m) # {}
            /\ Goto(h, "dup")
            /\ addr' = [addr EXCEPT ![h] = a]
            /\ tok' = [tok EXCEPT ![h] = x]
            /\ UNCHANGED <<lock, list, client_id, node, cur, old, after>>
    /\ UNCHANGED <<freed, ruleVars, code, syncVars, envVars, ghostVars>>

\* http_callback_disconnect: the auth server names a MAC and its token.
HttpDisconnect(h) ==
    /\ pc[h] = "idle" /\ lock = Free
    /\ \E m \in Macs, x \in Tokens : \E i \in ByMac(m) :
         /\ IsFirst(i, ByMac(m))
         /\ node[i].token = x
         /\ logout_client(h, i)
    /\ UNCHANGED <<list, client_id, freed, ruleVars, addr, tok, code, syncVars, envVars, ghostVars>>

\* wdctl_reset: the argument is looked up as an address, then as a MAC.
WdctlReset(h) ==
    /\ pc[h] = "idle" /\ lock = Free
    /\ \/ \E a \in Ips : \E i \in ByIp(a) : IsFirst(i, ByIp(a)) /\ logout_client(h, i)
       \/ \E m \in Macs : \E i \in ByMac(m) : IsFirst(i, ByMac(m)) /\ logout_client(h, i)
    /\ UNCHANGED <<list, client_id, freed, ruleVars, addr, tok, code, syncVars, envVars, ghostVars>>

\* authenticate_client: the client is looked up by address alone and copied.
AuthDup(h) ==
    /\ pc[h] = "dup" /\ lock = Free
    /\ \/ /\ ByIp(addr[h]) = {}
          /\ Return(h)
       \/ \E i \in ByIp(addr[h]) :
            /\ IsFirst(i, ByIp(addr[h]))
            /\ cur' = [cur EXCEPT ![h] = i]
            /\ Goto(h, "login")
            /\ UNCHANGED <<lock, addr, tok, code, old, after>>
    /\ UNCHANGED <<listVars, ruleVars, syncVars, envVars, ghostVars>>

\* auth_server_request: any code, or none at all ("ERROR"), until the server
\* has settled.
Reply(x) == IF settled = "no" THEN Codes ELSE {FinalCode[settled][x]}

MarkOf(c) == CASE c = "ALLOWED" -> FW_MARK_KNOWN
               [] c = "VALIDATION" -> FW_MARK_PROBATION
               [] OTHER -> FW_MARK_NONE

\* REQUEST_TYPE_LOGIN, without the lock.
LoginReply(h) ==
    /\ pc[h] = "login"
    /\ \E c \in Reply(tok[h]) :
         /\ code' = [code EXCEPT ![h] = c]
         /\ granted' = granted \cup ({<<cur[h], MarkOf(c)>>} \ {<<cur[h], FW_MARK_NONE>>})
    /\ Goto(h, "verdict")
    /\ UNCHANGED <<lock, listVars, ruleVars, cur, addr, tok, old, after, syncVars, envVars, reported>>

\* The original of the copy: client_list_find_by_client compares ids.
\* Mutant: the copy is matched by address and MAC instead.
FindByAddress(t) == IF cur[t] = NULL THEN {}
                    ELSE ByIpMac(node[cur[t]].ip, node[cur[t]].mac)
find_by_client(t) == {i \in list : i = cur[t]}

\* The codes that only send a page: the token is saved, the mark is kept.
\* Mutant: the login request is repeated until a code settles the matter.
LoginRetry(h, i) ==
    /\ code[h] \in {"ERROR", "VALIDATION_FAILED", "LOCKED"}
    /\ SetState(i, node[i].fw_connection_state, tok[h])
    /\ Goto(h, "login")
    /\ UNCHANGED <<lock, localVars>>
LoginPage(h, i) ==
    /\ code[h] \in {"ERROR", "VALIDATION_FAILED", "LOCKED"}
    /\ SetState(i, node[i].fw_connection_state, tok[h])
    /\ Return(h)

\* authenticate_client, from its second LOCK to the iptables commands.
LoginVerdict(h) ==
    /\ pc[h] = "verdict" /\ lock = Free
    /\ \/ /\ find_by_client(h) = {}
          /\ Return(h)
          /\ UNCHANGED node
       \/ \E i \in find_by_client(h) :
            \/ /\ code[h] = "DENIED"
               /\ fw_deny(h, i, tok[h], "unlock")
               /\ UNCHANGED <<code, addr, tok>>
            \/ /\ code[h] = "VALIDATION"
               /\ fw_allow(h, i, FW_MARK_PROBATION, tok[h])
               /\ UNCHANGED <<code, addr, tok>>
            \/ /\ code[h] = "ALLOWED"
               /\ fw_allow(h, i, FW_MARK_KNOWN, tok[h])
               /\ UNCHANGED <<code, addr, tok>>
            \/ LoginPage(h, i)
    /\ UNCHANGED <<list, client_id, freed, ruleVars, syncVars, envVars, ghostVars>>

-----------------------------------------------------------------------------
(* fw_sync_with_authserver and iptables_fw_counters_update.                *)

\* The listings are taken with popen, without the lock.  When the first one
\* fails the thread sleeps again; when the second one does, the round ends.
SyncListOut ==
    /\ pc[Sync] = "sleep"
    /\ lines' = {a \in Ips : \E m \in Macs, k \in Marks : outgoing[<<a, m, k>>] > 0}
    /\ Goto(Sync, "out_lines")
    /\ UNCHANGED <<lock, listVars, ruleVars, localVars, worklist, envVars, ghostVars>>

SyncListIn ==
    /\ pc[Sync] = "out_lines" /\ lines = {}
    /\ \/ /\ CommandSucceeds
          /\ lines' = {a \in Ips : incoming[a] > 0}
          /\ Goto(Sync, "in_lines")
       \/ /\ CommandFails
          /\ lines' = {}
          /\ Goto(Sync, "sleep")
    /\ UNCHANGED <<lock, listVars, outgoing, incoming, localVars, worklist, envVars, ghostVars>>

\* iptables_fw_destroy_mention on both chains: strstr finds the address in
\* every line whose text contains it.  The function calls itself until no
\* line matches, so a failed deletion is tried again.
Mentioned(a) == {b \in Ips : <<a, b>> \in Mentions}

\* Mutant: only the OUTGOING chain is cleaned.
DestroyOutgoing(a) ==
    /\ outgoing' = [r \in Ips \X Macs \X Marks |->
                      IF r[1] \in Mentioned(a) THEN 0 ELSE outgoing[r]]
    /\ UNCHANGED incoming
iptables_fw_destroy_mention(a) ==
    /\ outgoing' = [r \in Ips \X Macs \X Marks |->
                      IF r[1] \in Mentioned(a) THEN 0 ELSE outgoing[r]]
    /\ incoming' = [b \in Ips |-> IF b \in Mentioned(a) THEN 0 ELSE incoming[b]]

\* One line of a listing, under the lock.  Only outgoing traffic refreshes
\* last_updated.
\* Mutant: the counter is not compared with the last one.
TrafficAlways(a) == {TRUE}
Traffic(a) == IF settled # "no" /\ a \in QuietIps[settled] THEN {FALSE} ELSE BOOLEAN

SyncLine ==
    /\ pc[Sync] \in {"out_lines", "in_lines"} /\ lock = Free
    /\ \E a \in lines :
         /\ lines' = lines \ {a}
         /\ \/ \E i \in ByIp(a), grew \in Traffic(a) :
                 /\ IsFirst(i, ByIp(a))
                 /\ expired' = IF grew /\ pc[Sync] = "out_lines"
                               THEN expired \ {i} ELSE expired
                 /\ UNCHANGED <<outgoing, incoming>>
            \/ /\ ByIp(a) = {}
               /\ iptables_fw_destroy_mention(a)
               /\ UNCHANGED expired
    /\ UNCHANGED <<lock, listVars, faults, pc, localVars, worklist, settled, ghostVars>>

\* client_list_dup: ids and tokens are copied, so they are as old as this step.
SyncDup ==
    /\ pc[Sync] = "in_lines" /\ lines = {} /\ lock = Free
    /\ worklist' = {[id |-> i, token |-> node[i].token] : i \in list}
    /\ Goto(Sync, "next")
    /\ UNCHANGED <<lock, listVars, ruleVars, localVars, lines, envVars, ghostVars>>

\* The step of the for loop over the copies.
\* Mutant: the loop stays on its client.
StayOn(w) == UNCHANGED worklist
AdvanceFrom(w) == worklist' = worklist \ {w}

\* REQUEST_TYPE_COUNTERS for the next copy, without the lock.
SyncRequest ==
    /\ pc[Sync] = "next"
    /\ \E w \in worklist :
         /\ \A v \in worklist : v.id <= w.id
         /\ AdvanceFrom(w)
         /\ cur' = [cur EXCEPT ![Sync] = w.id]
         /\ \E c \in Reply(w.token) :
              /\ code' = [code EXCEPT ![Sync] = c]
              /\ granted' = granted \cup
                   (IF c = "ALLOWED" THEN {<<w.id, FW_MARK_KNOWN>>} ELSE {})
    /\ Goto(Sync, "check")
    /\ UNCHANGED <<lock, listVars, ruleVars, addr, tok, old, after, lines, envVars, reported>>

SyncDone ==
    /\ pc[Sync] = "next" /\ worklist = {}
    /\ Goto(Sync, "sleep")
    /\ UNCHANGED <<lock, listVars, ruleVars, localVars, syncVars, envVars, ghostVars>>

\* The codes on which a client is denied and deleted.
\* Mutant: a failed validation is left as it is.
RefusedDenied == {"DENIED"}
Refused == {"DENIED", "VALIDATION_FAILED"}

\* The timeout test, then the switch on the reply.  Either way the original
\* of the copy is looked up under the lock first.
SyncCheck ==
    /\ pc[Sync] = "check" /\ lock = Free
    /\ \/ /\ find_by_client(Sync) = {}
          /\ Return(Sync)
          /\ UNCHANGED node
       \/ \E i \in find_by_client(Sync) :
            \/ /\ i \in expired
               /\ logout_client(Sync, i)
               /\ UNCHANGED <<code, addr, tok>>
            \/ /\ i \notin expired
               /\ code[Sync] \in Refused
               /\ fw_deny(Sync, i, node[i].token, "delete")
               /\ UNCHANGED <<code, addr, tok>>
            \/ /\ i \notin expired
               /\ code[Sync] = "ALLOWED"
               /\ node[i].fw_connection_state # FW_MARK_KNOWN
               /\ fw_allow(Sync, i, FW_MARK_KNOWN, node[i].token)
               /\ UNCHANGED <<code, addr, tok>>
            \/ /\ i \notin expired
               /\ \/ code[Sync] \notin Refused \cup {"ALLOWED"}
                  \/ /\ code[Sync] = "ALLOWED"
                     /\ node[i].fw_connection_state = FW_MARK_KNOWN
               /\ Return(Sync)
               /\ UNCHANGED node
    /\ UNCHANGED <<list, client_id, freed, ruleVars, syncVars, envVars, ghostVars>>

-----------------------------------------------------------------------------
(* The environment.                                                        *)

TimePasses ==
    /\ \E i \in list \ expired : expired' = expired \cup {i}
    /\ UNCHANGED <<lock, listVars, ruleVars, pc, localVars, syncVars, settled, ghostVars>>

Settle ==
    /\ settled = "no"
    /\ settled' \in Worlds
    /\ UNCHANGED <<lock, listVars, ruleVars, pc, localVars, syncVars, expired, ghostVars>>

-----------------------------------------------------------------------------

Init ==
    /\ lock = Free
    /\ list = {} /\ client_id = 1 /\ node = [i \in {} |-> NULL] /\ freed = {}
    /\ expired = {}
    /\ outgoing = [r \in Ips \X Macs \X Marks |-> 0]
    /\ incoming = [a \in Ips |-> 0]
    /\ faults = 0
    /\ pc = [t \in Threads |-> IF t = Sync THEN "sleep" ELSE "idle"]
    /\ cur = [t \in Threads |-> NULL]
    /\ addr = [t \in Threads |-> NULL]
    /\ tok = [t \in Threads |-> NULL]
    /\ code = [t \in Threads |-> "ERROR"]
    /\ old = [t \in Threads |-> FW_MARK_NONE]
    /\ after = [t \in Threads |-> "unlock"]
    /\ lines = {} /\ worklist = {}
    /\ settled = "no"
    /\ granted = {} /\ reported = {}

HandlerStep(h) ==
    \/ AuthDup(h) \/ LoginReply(h) \/ LoginVerdict(h)
    \/ FirewallStep(h) \/ LogoutStep(h)

SyncStep ==
    \/ SyncListOut \/ SyncListIn \/ SyncLine \/ SyncDup
    \/ SyncRequest \/ SyncDone \/ SyncCheck
    \/ FirewallStep(Sync) \/ LogoutStep(Sync)

Arrival(h) == HttpAuth(h) \/ HttpDisconnect(h) \/ WdctlReset(h)

Next ==
    \/ \E h \in Handlers : Arrival(h) \/ HandlerStep(h)
    \/ SyncStep
    \/ TimePasses
    \/ Settle

Fairness ==
    /\ \A h \in Handlers : SF_vars(HandlerStep(h))
    /\ SF_vars(SyncStep)
    /\ WF_vars(TimePasses)

Spec == Init /\ [][Next]_vars
FairSpec == Spec /\ Fairness
-----------------------------------------------------------------------------
(* Types.                                                                  *)

WithNode == {"grant_out", "grant_in", "clear_out", "clear_in", "report", "free"}
Locking == {"grant_out", "grant_in", "clear_out", "clear_in"}
Labels == WithNode \cup {"idle", "dup", "login", "verdict"}
                   \cup {"sleep", "out_lines", "in_lines", "next", "check"}

\* Every variable has the type the code gives it.
TypeOK ==
    /\ lock \in Threads \cup {Free}
    /\ client_id \in 1 .. (MaxId + 1)
    /\ list \subseteq Ids
    /\ node \in [Ids -> Client]
    /\ freed \subseteq Ids
    /\ expired \subseteq Ids
    /\ outgoing \in [Ips \X Macs \X Marks -> Nat]
    /\ incoming \in [Ips -> Nat]
    /\ faults \in 0 .. MaxFaults
    /\ pc \in [Threads -> Labels]
    /\ cur \in [Threads -> Ids \cup {NULL}]
    /\ addr \in [Threads -> Ips \cup {NULL}]
    /\ tok \in [Threads -> Tokens \cup {NULL}]
    /\ code \in [Threads -> Codes]
    /\ old \in [Threads -> Marks]
    /\ after \in [Threads -> {"unlock", "delete", "logout"}]
    /\ lines \subseteq Ips
    /\ worklist \subseteq [id : Ids, token : Tokens]
    /\ settled \in Worlds \cup {"no"}
    /\ granted \subseteq Ids \X Marks
    /\ reported \subseteq Ids

-----------------------------------------------------------------------------
(* Safety.                                                                 *)

State(i) == node[i].fw_connection_state
HasAccess(i) == State(i) # FW_MARK_NONE
Holds(t) == pc[t] \in WithNode
Detached(t) == pc[t] \in {"report", "free"}

\* The OUTGOING chain marks exactly the packets of the clients on the list,
\* each with the mark fw_connection_state records, whenever the list is
\* unlocked and no iptables command has failed (fw_allow, fw_deny).
OutgoingMatchesList ==
    (lock = Free /\ faults = 0) =>
        \A a \in Ips, m \in Macs, k \in Marks :
            outgoing[<<a, m, k>>] =
                IF k # FW_MARK_NONE /\ \E i \in ByIpMac(a, m) : State(i) = k
                THEN 1 ELSE 0

\* The INCOMING chain accepts return traffic for an address exactly when a
\* client with access uses it, under the same conditions.
IncomingMatchesList ==
    (lock = Free /\ faults = 0) =>
        \A a \in Ips :
            (incoming[a] > 0) <=> (\E i \in ByIp(a) : HasAccess(i))

\* A client has a mark only if the auth server answered a request made for
\* that very session with it: a reply that arrives after its session ended
\* never opens the firewall for the next one (authenticate_client).
AccessNeedsGrant ==
    \A i \in list : HasAccess(i) => <<i, State(i)>> \in granted

\* No two sessions share an address and a MAC, however many handlers race
\* (http_callback_auth looks up and inserts in one critical section).
SessionsUnique ==
    \A i, j \in list : (node[i].ip = node[j].ip /\ node[i].mac = node[j].mac) => i = j

\* Every node is on the list, or freed, or in the hands of exactly one
\* thread that will free it: no leak, no double free, no use after free
\* (logout_client unlocks while it still uses the node).
NodesAccounted ==
    /\ list \cap freed = {}
    /\ \A t \in Threads : Holds(t) => cur[t] \notin freed
    /\ \A t \in Threads : Detached(t) => cur[t] \notin list
    /\ \A t, u \in Threads : (Holds(t) /\ Holds(u) /\ cur[t] = cur[u]) => t = u
    /\ \A i \in Ids \ (list \cup freed) : \E t \in Threads : Detached(t) /\ cur[t] = i

\* A logout is reported once, whichever of the logout page, the disconnect
\* request, wdctl reset and the timeout race for it, and only for a session
\* that is gone from the list (logout_client).
LogoutReportedOnce ==
    \A t \in Threads : pc[t] = "report" => cur[t] \notin reported \cup list

\* A client's packets lose their mark only when the client is denied: a
\* change of mark never leaves a moment without any (fw_allow grants first).
Marked(i) == \E k \in Marks \ {FW_MARK_NONE} :
                 outgoing[<<node[i].ip, node[i].mac, k>>] > 0
NoServiceGap ==
    [][\A i \in list \cap list' :
         (Marked(i) /\ ~Marked(i)' /\ faults' = 0) => ~HasAccess(i)']_vars

-----------------------------------------------------------------------------
(* Refinement: whatever the threads, the lock and the firewall commands do *)
(* amounts to what module Sessions allows.                                 *)

Promise == INSTANCE Sessions WITH
    Numbers <- 1 .. MaxId, Machines <- Ips \X Macs, Marks <- Marks \ {FW_MARK_NONE},
    NoMark <- FW_MARK_NONE,
    owner <- [i \in DOMAIN node |-> <<node[i].ip, node[i].mac>>],
    access <- [i \in DOMAIN node |-> node[i].fw_connection_state],
    open <- list, entitled <- granted

\* Every step of the handlers and of the sync thread is one step in the life
\* of one session, or none that shows: in particular a reply to an old
\* request, a second logout and a logout during a login change no other
\* session (authenticate_client, logout_client, fw_sync_with_authserver).
ImplementsSessions == Promise!Spec

-----------------------------------------------------------------------------
(* Liveness, under FairSpec.                                               *)

\* Every request is answered: no handler waits for the lock forever.
HandlersFinish == \A h \in Handlers : (pc[h] # "idle") ~> (pc[h] = "idle")

\* The sync thread always comes round again.
SyncRounds == []<>(pc[Sync] = "sleep")

\* Once the auth server has settled, a client that has access with a token
\* the server refuses loses the access, the token or the session: replies
\* given before and requests made with an older token are all repaired by a
\* later round of fw_sync_with_authserver.
Banned(w) == {x \in Tokens : FinalCode[w][x] \in {"DENIED", "VALIDATION_FAILED"}}
BannedAccess(i, w) == i \in list /\ HasAccess(i) /\ node[i].token \in Banned(w)
BannedLoseAccess ==
    \A w \in {v \in Worlds : Banned(v) # {}}, i \in 1 .. MaxId :
        (settled = w /\ BannedAccess(i, w)) ~> ~BannedAccess(i, w)

\* A client that has fallen silent is logged out.
Silent(i, w) == i \in list /\ node[i].ip \in QuietIps[w]
QuietLoggedOut ==
    \A w \in {v \in Worlds : QuietIps[v] # {}}, i \in 1 .. MaxId :
        (settled = w /\ Silent(i, w)) ~> ~Silent(i, w)

\* Rules left behind by a failed command for an address without a client are
\* removed by a later round (iptables_fw_counters_update).
Orphaned(a) ==
    /\ ByIp(a) = {}
    /\ incoming[a] > 0 \/ \E m \in Macs, k \in Marks : outgoing[<<a, m, k>>] > 0
OrphansRemoved == \A a \in Ips : Orphaned(a) ~> ~Orphaned(a)
=============================================================================
