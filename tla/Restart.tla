------------------------------ MODULE Restart ------------------------------
(***************************************************************************)
(* "wdctl restart" (wdctl_restart in wdctl_thread.c, gw_main and           *)
(* get_clients_from_parent in gateway.c, fw_init and fw_destroy): the      *)
(* running gateway forks and executes itself again, sends its clients to   *)
(* the new process over the internal socket, tears the firewall down and   *)
(* exits; the new process waits for that, builds the firewall and restores *)
(* the rules of the clients it has received.                               *)
(*                                                                         *)
(* The threads of the old process go on serving until it exits.  A change  *)
(* of a session is one step here: ClientSessions has its details and shows *)
(* that list and rules agree when the list is unlocked.                    *)
(***************************************************************************)
EXTENDS Integers

CONSTANTS
    Parent,         \* the process that runs at first
    Requests,       \* the restart commands; r also names the process r forks
    Machines,       \* the machines (address and MAC) behind the gateway
    NoOne,          \* no process, no request
    MaxFaults       \* bound on the system calls that fail

Procs == {Parent} \cup Requests
Marks == {"none", "probation", "known"}
Absent == "absent"
NoSessions == [m \in Machines |-> Absent]

ASSUME ProcsAssumption == Parent \notin Requests /\ NoOne \notin Procs
ASSUME FaultsAssumption == MaxFaults \in Nat

VARIABLES
    phase,          \* how far each process is
    req,            \* the thread of each restart command, in the parent
    lock,           \* the command that holds the parent's client_list_mutex
    path,           \* the command whose socket has the name internal_sock
    queue,          \* processes connected to the command's socket
    peer,           \* the process whose connection the command accepted
    todo,           \* clients the command, or the new process, still has to do
    wire,           \* clients sent to a process and not yet read by it
    eof,            \* processes whose connection is closed at the other end
    sessions,       \* the client list of each process: machine to mark
    chain,          \* whether the OUTGOING chain exists
    rules,          \* its rules
    port,           \* the process that listens on the gateway port
    faults,         \* system calls that failed so far
    stopped,        \* ghost: somebody asked the parent to stop
    steady,         \* ghost: machines that had access at the first restart command
                    \* and whose session has not changed in the parent since
    snapshot        \* ghost: the parent's list when it was sent to a process

sockVars == <<path, queue, peer, eof>>
fwVars == <<chain, rules>>
ghostVars == <<stopped, steady, snapshot>>
vars == <<phase, req, lock, sockVars, todo, wire, sessions, fwVars, port, faults, ghostVars>>

Starting == {"connect", "read", "wait", "bind", "listen"}
InFirewall == {"flush", "drop", "init", "restore"}

-----------------------------------------------------------------------------
(* Sessions, in any process whose threads are running.                     *)

\* The threads of the parent run until exit().
Runs(p) == phase[p] = "up" \/ (p = Parent /\ phase[p] \in {"flush", "drop"})
Unlocked(p) == p = Parent => lock = NoOne

Added(r, m, k) == IF chain THEN [r EXCEPT ![<<m, k>>] = @ + 1] ELSE r
Deleted(r, m, k) == IF chain /\ r[<<m, k>>] > 0 THEN [r EXCEPT ![<<m, k>>] = @ - 1] ELSE r

Change(p, m, k) ==
    /\ Runs(p) /\ Unlocked(p)
    /\ sessions' = [sessions EXCEPT ![p][m] = k]
    /\ steady' = IF p = Parent THEN steady \ {m} ELSE steady
    /\ UNCHANGED <<phase, req, lock, sockVars, todo, wire, chain, port, faults, stopped, snapshot>>

\* client_list_add: no access yet.
Arrive(p, m) ==
    /\ sessions[p][m] = Absent
    /\ Change(p, m, "none")
    /\ UNCHANGED rules

\* fw_allow: the new mark is added, the old one removed.
Allow(p, m, k) ==
    /\ sessions[p][m] \notin {Absent, k}
    /\ Change(p, m, k)
    /\ rules' = LET r == Added(rules, m, k) IN
                IF sessions[p][m] = "none" THEN r ELSE Deleted(r, m, sessions[p][m])

\* logout_client: the rule of the current mark is removed, "none" included.
Leave(p, m) ==
    /\ sessions[p][m] # Absent
    /\ Change(p, m, Absent)
    /\ rules' = Deleted(rules, m, sessions[p][m])

-----------------------------------------------------------------------------
(* wdctl_restart, in a thread of the parent.                               *)

Alive == phase[Parent] # "dead"
Fault == faults < MaxFaults /\ faults' = faults + 1

\* create_unix_socket unlinks the name whoever uses it.
Unlink(r) ==
    /\ Alive /\ req[r] = "idle"
    /\ path' = NoOne
    /\ req' = [req EXCEPT ![r] = "bind"]
    /\ steady' = IF \A q \in Requests : req[q] = "idle"
                 THEN {m \in Machines : sessions[Parent][m] \notin {Absent, "none"}} ELSE steady
    /\ UNCHANGED <<phase, lock, queue, peer, eof, todo, wire, sessions, fwVars, port, faults,
                   stopped, snapshot>>

\* bind() fails when another command has just bound the name.
BindFails(r) ==
    /\ Alive /\ req[r] = "bind" /\ path # NoOne
    /\ req' = [req EXCEPT ![r] = "done"]
    /\ UNCHANGED <<phase, lock, sockVars, todo, wire, sessions, fwVars, port, faults, ghostVars>>

\* bind, listen and fork.
Fork(r) ==
    /\ Alive /\ req[r] = "bind" /\ path = NoOne
    /\ path' = r
    /\ req' = [req EXCEPT ![r] = "accept"]
    /\ phase' = [phase EXCEPT ![r] = "connect"]
    /\ UNCHANGED <<lock, queue, peer, eof, todo, wire, sessions, fwVars, port, faults, ghostVars>>

\* exit() of the parent, from whichever thread: every connection and the port
\* are closed with it.
Dies ==
    /\ phase' = [phase EXCEPT ![Parent] = "dead"]
    /\ sessions' = [sessions EXCEPT ![Parent] = NoSessions]
    /\ eof' = eof \cup {c \in Requests : \E r \in Requests : c \in queue[r] \/ peer[r] = c}
    /\ lock' = NoOne
    /\ port' = NoOne

\* "If fork() fails, we die" (safe_fork): exit() on the spot, with the firewall
\* as it is and nothing sent.
ForkFails(r) ==
    /\ Alive /\ req[r] = "bind" /\ path = NoOne
    /\ Fault
    /\ path' = r
    /\ req' = [req EXCEPT ![r] = "failed"]
    /\ Dies
    /\ UNCHANGED <<queue, peer, todo, wire, fwVars, ghostVars>>

\* One connection is accepted and the socket closed: others waiting are reset.
Accept(r) ==
    /\ Alive /\ req[r] = "accept"
    /\ \E c \in queue[r] :
         /\ peer' = [peer EXCEPT ![r] = c]
         /\ eof' = eof \cup (queue[r] \ {c})
    /\ queue' = [queue EXCEPT ![r] = {}]
    /\ req' = [req EXCEPT ![r] = "lock"]
    /\ UNCHANGED <<phase, lock, path, todo, wire, sessions, fwVars, port, faults, ghostVars>>

\* accept() fails: the command is over and the parent goes on.
\* Mutant: the error is logged and the parent exits all the same.
AcceptGoesOn(r) ==
    /\ Alive /\ req[r] = "accept"
    /\ Fault
    /\ eof' = eof \cup queue[r]
    /\ queue' = [queue EXCEPT ![r] = {}]
    /\ req' = [req EXCEPT ![r] = "stop"]
    /\ UNCHANGED <<phase, lock, path, peer, todo, wire, sessions, fwVars, port, ghostVars>>
AcceptFails(r) ==
    /\ Alive /\ req[r] = "accept"
    /\ Fault
    /\ eof' = eof \cup queue[r]
    /\ queue' = [queue EXCEPT ![r] = {}]
    /\ req' = [req EXCEPT ![r] = "done"]
    /\ UNCHANGED <<phase, lock, path, peer, todo, wire, sessions, fwVars, port, ghostVars>>

\* LOCK_CLIENT_LIST, held until every client is sent.
\* Mutant: the list is walked without the lock.
SendUnlocked(r) ==
    /\ Alive /\ req[r] = "lock"
    /\ todo' = [todo EXCEPT ![r] = {m \in Machines : sessions[Parent][m] # Absent}]
    /\ req' = [req EXCEPT ![r] = "send"]
    /\ UNCHANGED <<phase, lock, sockVars, wire, sessions, fwVars, port, faults, ghostVars>>
SendBegins(r) ==
    /\ Alive /\ req[r] = "lock" /\ lock = NoOne
    /\ lock' = r
    /\ todo' = [todo EXCEPT ![r] = {m \in Machines : sessions[Parent][m] # Absent}]
    /\ req' = [req EXCEPT ![r] = "send"]
    /\ UNCHANGED <<phase, sockVars, wire, sessions, fwVars, port, faults, ghostVars>>

SendClient(r) ==
    /\ Alive /\ req[r] = "send"
    /\ \E m \in todo[r] :
         /\ todo' = [todo EXCEPT ![r] = @ \ {m}]
         /\ wire' = [wire EXCEPT ![peer[r]] = @ \cup {<<m, sessions[Parent][m]>>}]
    /\ UNCHANGED <<phase, req, lock, sockVars, sessions, fwVars, port, faults, ghostVars>>

\* UNLOCK_CLIENT_LIST and close().
SendEnds(r) ==
    /\ Alive /\ req[r] = "send" /\ todo[r] = {}
    /\ lock' = NoOne
    /\ eof' = eof \cup {peer[r]}
    /\ snapshot' = [snapshot EXCEPT ![peer[r]] = sessions[Parent]]
    /\ req' = [req EXCEPT ![r] = "stop"]
    /\ UNCHANGED <<phase, path, queue, peer, todo, wire, sessions, fwVars, port, faults, stopped, steady>>

\* SIGINT: the first termination_handler starts fw_destroy, others end.
Terminate == phase' = [phase EXCEPT ![Parent] = IF @ = "up" THEN "flush" ELSE @]

\* Mutant: the parent goes on serving.
StayAlive(r) ==
    /\ Alive /\ req[r] = "stop"
    /\ req' = [req EXCEPT ![r] = "done"]
    /\ UNCHANGED <<phase, lock, sockVars, todo, wire, sessions, fwVars, port, faults, ghostVars>>
Suicide(r) ==
    /\ Alive /\ req[r] = "stop"
    /\ Terminate
    /\ req' = [req EXCEPT ![r] = "done"]
    /\ UNCHANGED <<lock, sockVars, todo, wire, sessions, fwVars, port, faults, ghostVars>>

\* wdctl_stop, or a termination signal.
WdctlStop ==
    /\ phase[Parent] = "up"
    /\ Terminate
    /\ stopped' = TRUE
    /\ UNCHANGED <<req, lock, sockVars, todo, wire, sessions, fwVars, port, faults, steady, snapshot>>

-----------------------------------------------------------------------------
(* iptables_fw_destroy: the chain is flushed and then deleted, which fails *)
(* when a thread has added a rule in between.  The parent exits after it;  *)
(* a new process begins with it.                                           *)

\* Mutant: the new process relies on the parent's clean-up.
FlushParentOnly(p) ==
    /\ phase[p] = "flush"
    /\ rules' = IF p = Parent THEN [x \in Machines \X Marks |-> 0] ELSE rules
    /\ phase' = [phase EXCEPT ![p] = "drop"]
    /\ UNCHANGED <<req, lock, sockVars, todo, wire, sessions, chain, port, faults, ghostVars>>
Flush(p) ==
    /\ phase[p] = "flush"
    /\ rules' = [x \in Machines \X Marks |-> 0]
    /\ phase' = [phase EXCEPT ![p] = "drop"]
    /\ UNCHANGED <<req, lock, sockVars, todo, wire, sessions, chain, port, faults, ghostVars>>

Dropped == chain /\ \E x \in Machines \X Marks : rules[x] > 0

Exit ==
    /\ phase[Parent] = "drop"
    /\ chain' = Dropped
    /\ Dies
    /\ UNCHANGED <<req, path, queue, peer, todo, wire, rules, faults, ghostVars>>

-----------------------------------------------------------------------------
(* gw_main with -x, in the new process.                                    *)

ExecFails(c) ==
    /\ phase[c] = "connect"
    /\ Fault
    /\ phase' = [phase EXCEPT ![c] = "dead"]
    /\ UNCHANGED <<req, lock, sockVars, todo, wire, sessions, fwVars, port, ghostVars>>

\* get_clients_from_parent: the socket that has the name now, if it listens.
Listening == IF path # NoOne /\ Alive /\ req[path] = "accept" THEN {path} ELSE {}

Connect(c) ==
    /\ phase[c] = "connect"
    /\ \E r \in Listening : queue' = [queue EXCEPT ![r] = @ \cup {c}]
    /\ phase' = [phase EXCEPT ![c] = "read"]
    /\ UNCHANGED <<req, lock, path, peer, eof, todo, wire, sessions, fwVars, port, faults, ghostVars>>

\* No socket, or nobody at the other end: it goes on without clients.
ConnectFails(c) ==
    /\ phase[c] = "connect"
    /\ \/ Listening = {} /\ UNCHANGED faults
       \/ Listening # {} /\ Fault
    /\ phase' = [phase EXCEPT ![c] = "wait"]
    /\ UNCHANGED <<req, lock, sockVars, todo, wire, sessions, fwVars, port, ghostVars>>

Read(c) ==
    /\ phase[c] = "read"
    /\ \E x \in wire[c] :
         /\ wire' = [wire EXCEPT ![c] = @ \ {x}]
         /\ sessions' = [sessions EXCEPT ![c][x[1]] = x[2]]
    /\ UNCHANGED <<phase, req, lock, sockVars, todo, fwVars, port, faults, ghostVars>>

\* Mutant: an empty buffer is taken for the end.
ReadEndsEarly(c) ==
    /\ phase[c] = "read" /\ wire[c] = {}
    /\ phase' = [phase EXCEPT ![c] = "wait"]
    /\ UNCHANGED <<req, lock, sockVars, todo, wire, sessions, fwVars, port, faults, ghostVars>>
ReadEnds(c) ==
    /\ phase[c] = "read" /\ wire[c] = {} /\ c \in eof
    /\ phase' = [phase EXCEPT ![c] = "wait"]
    /\ UNCHANGED <<req, lock, sockVars, todo, wire, sessions, fwVars, port, faults, ghostVars>>

\* kill(restart_orig_pid, 0) until it fails.
ParentGone(c) ==
    /\ phase[c] = "wait" /\ ~Alive
    /\ phase' = [phase EXCEPT ![c] = "bind"]
    /\ UNCHANGED <<req, lock, sockVars, todo, wire, sessions, fwVars, port, faults, ghostVars>>

\* httpdCreate with SO_REUSEADDR: bind() fails only when somebody listens;
\* the result of listen() is not looked at.
Bind(c) ==
    /\ phase[c] = "bind"
    /\ phase' = [phase EXCEPT ![c] = IF port = NoOne THEN "listen" ELSE "dead"]
    /\ UNCHANGED <<req, lock, sockVars, todo, wire, sessions, fwVars, port, faults, ghostVars>>

Listen(c) ==
    /\ phase[c] = "listen"
    /\ port' = IF port = NoOne THEN c ELSE port
    /\ phase' = [phase EXCEPT ![c] = "flush"]
    /\ UNCHANGED <<req, lock, sockVars, todo, wire, sessions, fwVars, faults, ghostVars>>

Drop(c) ==
    /\ phase[c] = "drop" /\ c # Parent
    /\ chain' = Dropped
    /\ phase' = [phase EXCEPT ![c] = "init"]
    /\ UNCHANGED <<req, lock, sockVars, todo, wire, sessions, rules, port, faults, ghostVars>>

\* iptables_fw_init, and the start of the loop of fw_init over the clients.
FwInit(c) ==
    /\ phase[c] = "init"
    /\ chain' = TRUE
    /\ phase' = [phase EXCEPT ![c] = "restore"]
    /\ todo' = [todo EXCEPT ![c] = {m \in Machines : sessions[c][m] # Absent}]
    /\ UNCHANGED <<req, lock, sockVars, wire, sessions, rules, port, faults, ghostVars>>

\* No external interface: exit.
FwInitFails(c) ==
    /\ phase[c] = "init"
    /\ Fault
    /\ phase' = [phase EXCEPT ![c] = "dead"]
    /\ port' = IF port = c THEN NoOne ELSE port
    /\ UNCHANGED <<req, lock, sockVars, todo, wire, sessions, fwVars, ghostVars>>

\* fw_allow with the inherited mark, whatever it is.
Restore(c) ==
    /\ phase[c] = "restore"
    /\ \E m \in todo[c] :
         /\ todo' = [todo EXCEPT ![c] = @ \ {m}]
         /\ rules' = Added(rules, m, sessions[c][m])
    /\ UNCHANGED <<phase, req, lock, sockVars, wire, sessions, chain, port, faults, ghostVars>>

\* The threads are started.
Serve(c) ==
    /\ phase[c] = "restore" /\ todo[c] = {}
    /\ phase' = [phase EXCEPT ![c] = "up"]
    /\ UNCHANGED <<req, lock, sockVars, todo, wire, sessions, fwVars, port, faults, ghostVars>>

-----------------------------------------------------------------------------

Init ==
    /\ phase = [p \in Procs |-> IF p = Parent THEN "up" ELSE "none"]
    /\ req = [r \in Requests |-> "idle"]
    /\ lock = NoOne
    /\ path = NoOne
    /\ queue = [r \in Requests |-> {}]
    /\ peer = [r \in Requests |-> NoOne]
    /\ eof = {}
    /\ todo = [r \in Requests |-> {}]
    /\ wire = [r \in Requests |-> {}]
    /\ sessions = [p \in Procs |-> NoSessions]
    /\ chain = TRUE /\ rules = [x \in Machines \X Marks |-> 0]
    /\ port = Parent
    /\ faults = 0
    /\ stopped = FALSE /\ steady = {} /\ snapshot = [r \in Requests |-> NoSessions]

Sessions(p) == \E m \in Machines : Arrive(p, m) \/ Leave(p, m)
                                   \/ \E k \in Marks \ {"none"} : Allow(p, m, k)
Command(r) == BindFails(r) \/ Fork(r) \/ Accept(r)
              \/ SendBegins(r) \/ SendClient(r) \/ SendEnds(r) \/ Suicide(r)
Child(c) == Connect(c) \/ ConnectFails(c) \/ Read(c) \/ ReadEnds(c) \/ ParentGone(c)
            \/ Bind(c) \/ Listen(c) \/ Flush(c) \/ Drop(c)
            \/ FwInit(c) \/ Restore(c) \/ Serve(c)
Ends == Flush(Parent) \/ Exit

Next ==
    \/ \E p \in Procs : Sessions(p)
    \/ \E r \in Requests : Unlink(r) \/ Command(r) \/ ForkFails(r) \/ AcceptFails(r)
    \/ \E c \in Requests : Child(c) \/ ExecFails(c) \/ FwInitFails(c)
    \/ Ends
    \/ WdctlStop

Fairness ==
    /\ \A r \in Requests : WF_vars(Command(r)) /\ WF_vars(Child(r))
    /\ WF_vars(Ends)

Spec == Init /\ [][Next]_vars
FairSpec == Spec /\ Fairness

-----------------------------------------------------------------------------
(* Properties.                                                             *)

\* A new process whose sender got to the end starts from the list the parent
\* had at that moment, although clients come and go while it is sent
\* (wdctl_restart holds the lock), and one that nobody accepted from none.
Inherited ==
    \A c \in Requests :
        phase[c] \in {"wait", "bind", "listen"} \cup InFirewall =>
            /\ (\E r \in Requests : peer[r] = c /\ req[r] \in {"stop", "done"}) =>
                   sessions[c] = snapshot[c]
            /\ (\A r \in Requests : peer[r] # c) => sessions[c] = NoSessions

\* Once a new process serves and no second one has reached the firewall, the
\* chain marks exactly the machines its list gives access to: nothing the
\* parent added while it went down is left, and the parent removes nothing
\* the new process has added (fw_destroy in main_loop, the wait in gw_main).
KeptOut(d) == phase[d] \in {"none"} \cup Starting \/ (phase[d] = "dead" /\ faults = 0)
RulesRebuilt ==
    \A c \in Requests :
        (phase[c] = "up" /\ \A d \in Requests \ {c} : KeptOut(d)) =>
            \A m \in Machines, k \in Marks \ {"none"} :
                rules[<<m, k>>] = IF sessions[c][m] = k THEN 1 ELSE 0

\* The parent leaves its service only when asked to stop, when it has sent its
\* clients to a process, or on the spot when fork() fails (safe_fork): whatever
\* else fails in a restart, in the parent or in the new process, leaves it in
\* service.
HandedOver(c) == c \in eof /\ phase[c] \notin {"none", "connect"} /\ \E r \in Requests : peer[r] = c
ParentOutlivesFailure ==
    (phase[Parent] # "up" /\ ~stopped) =>
        \/ \E c \in Requests : HandedOver(c)
        \/ phase[Parent] = "dead" /\ \E r \in Requests : req[r] = "failed"

\* "Re-start the running wifidog (without disconnecting active users!)": a
\* session that had access when the restart was asked for and was not changed
\* in the parent since is known to the process that takes over the port.
UsersKept ==
    \A c \in Requests :
        (phase[c] = "restore" /\ port = c /\ ~stopped) =>
            \A m \in steady : sessions[c][m] # Absent

\* The same as long as no second restart is asked for while one is under way.
UsersKeptByOne ==
    (\A q, r \in Requests : req[q] # "idle" /\ req[r] # "idle" => q = r) => UsersKept

\* A restart leads to a new process in service unless some system call fails
\* or the gateway is stopped: nobody waits for ever for the other.
Restarted == \E c \in Requests : phase[c] = "up"
RestartCompletes ==
    \A r \in Requests : req[r] # "idle" ~> (Restarted \/ faults > 0 \/ stopped)
=============================================================================
