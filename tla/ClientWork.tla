----------------------------- MODULE ClientWork -----------------------------
(***************************************************************************)
(* What the threads that serve somebody do with a client: the calls of     *)
(* http_callback_auth, authenticate_client, http_callback_disconnect,      *)
(* logout_client, wdctl_reset, get_status_text and fw_allow_host that may  *)
(* block, which are taking the lock of the client list, running an         *)
(* iptables command and asking the auth server, and their order.  What     *)
(* they do to the list and to the rules in detail is in ClientSessions.    *)
(*                                                                         *)
(* A thread has a program, the steps it has still to take.  A critical     *)
(* section without a blocking call in it is one step.                      *)
(***************************************************************************)
EXTENDS Processes, HttpClient

CONSTANTS
    Machines,       \* the client machines
    Free            \* the lock of the client list when nobody has it

VARIABLES
    todo,           \* the steps each thread has still to take
    machine,        \* the machine each thread is working on
    verdict,        \* how each thread's work came out, NULL so far
    lock,           \* the holder of the lock of the client list
    listed,         \* the machines on the client list
    allowed,        \* those of them that have been let through the firewall
    ended,          \* how many sessions of each machine have been removed: the
                    \* id of a session tells it from the ones before it
    copied          \* the id in the copy of the client that each thread has

workVars == <<todo, machine, verdict, lock, listed, allowed, ended, copied>>

\* The machines that have a session, when we start to look.
WorkInit(sessions) ==
    /\ todo = [t \in Callers |-> <<>>]
    /\ machine = [t \in Callers |-> CHOOSE m \in Machines : TRUE]
    /\ verdict = [t \in Callers |-> NULL]
    /\ lock = Free
    /\ listed = sessions
    /\ allowed = sessions
    /\ ended = [m \in Machines |-> 0]
    /\ copied = [t \in Callers |-> 0]

Access == <<"execute", "execute">>      \* iptables_fw_access
Login == <<"register", "find", "get", "verdict">>
\* logout_client: fw_deny, client_list_remove, the report, client_free_node.
Logout == Access \o <<"remove", "get", "relock", "yes">>

Assign(t, m, program) ==
    /\ todo' = [todo EXCEPT ![t] = program]
    /\ machine' = [machine EXCEPT ![t] = m]
    /\ verdict' = [verdict EXCEPT ![t] = NULL]
    /\ UNCHANGED <<lock, listed, allowed, ended, copied>>

At(t, step) == todo[t] # <<>> /\ Head(todo[t]) = step
Rest(t) == Tail(todo[t])
Continue(t, program) == todo' = [todo EXCEPT ![t] = program]
Concludes(t, v) == verdict' = [verdict EXCEPT ![t] = v]

\* One section of http_callback_auth: the client is put on the list, or is
\* there already; logging out one that is not there puts it there as well.
Register(t) ==
    /\ At(t, "register") /\ lock = Free
    /\ listed' = listed \cup {machine[t]}
    /\ Continue(t, Rest(t))
    /\ UNCHANGED <<machine, verdict, lock, allowed, ended, copied>>

LogoutRequest(t) ==
    /\ At(t, "logout") /\ lock = Free
    /\ \/ /\ machine[t] \in listed
          /\ lock' = t
          /\ Continue(t, Logout)
          /\ UNCHANGED listed
       \/ /\ machine[t] \notin listed
          /\ listed' = listed \cup {machine[t]}
          /\ Continue(t, <<>>)
          /\ UNCHANGED lock
    /\ UNCHANGED <<machine, verdict, allowed, ended, copied>>

\* authenticate_client copies the client, which may be gone again.
Find(t) ==
    /\ At(t, "find") /\ lock = Free
    /\ Continue(t, IF machine[t] \in listed THEN Rest(t) ELSE <<>>)
    /\ copied' = [copied EXCEPT ![t] = ended[machine[t]]]
    /\ UNCHANGED <<machine, verdict, lock, listed, allowed, ended>>

\* The code in a response, if it has one.
Codes == {"allowed", "denied", "validation", "failed", "other"}
CodeOf(r) == IF \E i \in DOMAIN r : r[i] \in Codes
             THEN r[CHOOSE i \in DOMAIN r : r[i] \in Codes] ELSE "error"

\* client_list_find_by_client: the client of the copy, by its id.
StillThere(t) == machine[t] \in listed /\ copied[t] = ended[machine[t]]

\* authenticate_client after the answer, with the lock taken again: the
\* client may be gone, the code decides about the rules and the page.  The
\* deletion of the former mark follows the grant of the new one.
Verdict(t) ==
    /\ At(t, "verdict") /\ lock = Free
    /\ LET code == CodeOf(response[t])  there == StillThere(t) IN
         \/ /\ ~there
            /\ Continue(t, <<>>)
            /\ UNCHANGED <<verdict, lock, allowed>>
         \/ /\ there /\ code \in {"error", "other"}
            /\ Continue(t, <<>>)
            /\ Concludes(t, "error page")
            /\ UNCHANGED <<lock, allowed>>
         \/ /\ there /\ code = "failed"
            /\ Continue(t, <<>>)
            /\ Concludes(t, "redirect")
            /\ UNCHANGED <<lock, allowed>>
         \/ /\ there /\ code \in {"allowed", "validation"}
            /\ lock' = t
            /\ Continue(t, Access \o (IF machine[t] \in allowed THEN Access ELSE <<>>) \o <<"redirect">>)
            /\ allowed' = allowed \cup {machine[t]}
            /\ UNCHANGED verdict
         \/ /\ there /\ code = "denied"
            /\ lock' = t
            /\ Continue(t, Access \o <<"redirect">>)
            /\ allowed' = allowed \ {machine[t]}
            /\ UNCHANGED verdict
    /\ copied' = [copied EXCEPT ![t] = 0]          \* the copy is freed
    /\ UNCHANGED <<machine, listed, ended>>

\* The page of a verdict goes out before the lock is released.
Redirect(t) ==
    /\ At(t, "redirect")
    /\ Continue(t, <<>>)
    /\ Concludes(t, "redirect")
    /\ lock' = Free
    /\ UNCHANGED <<machine, listed, allowed, ended, copied>>

\* http_callback_disconnect and wdctl_reset: find the client, or say so; the
\* first also wants the token to agree.
\* Mutant: the lock is given back before logout_client.
LookupUnlocked(t) ==
    /\ At(t, "reset") \/ At(t, "disconnect")
    /\ lock = Free
    /\ \/ /\ machine[t] \in listed
          /\ Continue(t, Logout)
          /\ UNCHANGED <<verdict, lock>>
       \/ /\ machine[t] \notin listed \/ At(t, "disconnect")
          /\ Continue(t, <<>>)
          /\ Concludes(t, "no")
          /\ UNCHANGED lock
    /\ UNCHANGED <<machine, listed, allowed, ended, copied>>
Lookup(t) ==
    /\ At(t, "reset") \/ At(t, "disconnect")
    /\ lock = Free
    /\ \/ /\ machine[t] \in listed
          /\ lock' = t
          /\ Continue(t, Logout)
          /\ UNCHANGED verdict
       \/ /\ machine[t] \notin listed \/ At(t, "disconnect")
          /\ Continue(t, <<>>)
          /\ Concludes(t, "no")
          /\ UNCHANGED lock
    /\ UNCHANGED <<machine, listed, allowed, ended, copied>>

\* client_list_remove and the release of the lock for the report.
\* Mutant: the lock is kept while the auth server is asked.
RemoveHoldingLock(t) ==
    /\ At(t, "remove")
    /\ listed' = listed \ {machine[t]}
    /\ allowed' = allowed \ {machine[t]}
    /\ ended' = [ended EXCEPT ![machine[t]] = IF machine[t] \in listed THEN @ + 1 ELSE @]
    /\ Continue(t, Rest(t))
    /\ UNCHANGED <<machine, verdict, lock, copied>>
RemoveClient(t) ==
    /\ At(t, "remove")
    /\ listed' = listed \ {machine[t]}
    /\ allowed' = allowed \ {machine[t]}
    /\ ended' = [ended EXCEPT ![machine[t]] = IF machine[t] \in listed THEN @ + 1 ELSE @]
    /\ lock' = Free
    /\ Continue(t, Rest(t))
    /\ UNCHANGED <<machine, verdict, copied>>

\* The rest of logout_client and the release of the lock by its caller, and
\* get_status_text, which copies the list.
Section(t) ==
    /\ At(t, "relock") \/ At(t, "status")
    /\ lock = Free
    /\ Continue(t, Rest(t))
    /\ UNCHANGED <<machine, verdict, lock, listed, allowed, ended, copied>>

Succeed(t) ==
    /\ At(t, "yes")
    /\ Continue(t, Rest(t))
    /\ Concludes(t, "yes")
    /\ UNCHANGED <<machine, lock, listed, allowed, ended, copied>>

ListStep(t) ==
    \/ Register(t) \/ LogoutRequest(t) \/ Find(t) \/ Verdict(t) \/ Redirect(t)
    \/ Lookup(t) \/ RemoveClient(t) \/ Section(t) \/ Succeed(t)

\* execute and http_get are steps of a program as long as they last.
Pop(t) ==
    /\ Continue(t, Rest(t))
    /\ UNCHANGED <<machine, verdict, lock, listed, allowed, ended, copied>>

\* A response is used, or freed unread, by the step that follows it.
CallStep(t) ==
    \/ /\ ListStep(t)
       /\ response' = [response EXCEPT ![t] = <<>>]
       /\ UNCHANGED <<processVars, fetch, reply, fds>>
    \/ /\ At(t, "execute") /\ Fork(t)
       /\ UNCHANGED <<clientVars, workVars>>
    \/ /\ At(t, "execute") /\ WaitReturns(t) /\ Pop(t)
       /\ UNCHANGED clientVars
    \/ /\ At(t, "get") /\ (Connect(t) \/ GetStep(t))
       /\ UNCHANGED <<processVars, workVars>>
    \/ /\ At(t, "get") /\ TakeResponse(t) /\ Pop(t)
       /\ UNCHANGED processVars

\* The work is done and its outcome used.
Idle(t) == todo[t] = <<>>
Forget(t) ==
    /\ verdict' = [verdict EXCEPT ![t] = NULL]
    /\ UNCHANGED <<todo, machine, lock, listed, allowed, ended, copied>>

\* The gateway never waits for the auth server with the client list locked:
\* "the gateway would effectively be frozen if we kept the lock" (auth.c).
LockFreeWhileAsking == \A t \in Callers : At(t, "get") => lock # t
=============================================================================
