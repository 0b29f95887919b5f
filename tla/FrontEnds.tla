----------------------------- MODULE FrontEnds -----------------------------
(***************************************************************************)
(* The threads of the gateway that serve somebody, together: the web       *)
(* server's and the control socket's.  They share the client list and its  *)
(* lock, the descriptors of the process, its children and its signals, and *)
(* the static variables of libhttpd.                                       *)
(***************************************************************************)
EXTENDS HttpServer, Control

CONSTANTS
    MaxThreads,     \* the threads the gateway can start
    Scenarios       \* what is asked of the gateway: scripts and commands, and the
                    \* machines with a session and the descriptors that the rest
                    \* of the gateway has in use

ASSUME ThreadsAssumption ==
    /\ Callers = Slots \cup Handlers /\ Fetchers = Callers
    /\ Slots \cap Handlers = {}
    /\ Slots = 1 .. Cardinality(Slots) /\ Handlers \subseteq Nat
    /\ IsFiniteSet(Slots) /\ IsFiniteSet(Handlers)
    /\ Free \notin Callers
    /\ MaxThreads <= Cardinality(Slots) /\ MaxThreads <= Cardinality(Handlers)

ASSUME ConnectionsAssumption ==
    IsFiniteSet(Conns) /\ IsFiniteSet(Admins) /\ NULL \notin Conns \cup Admins /\ MaxFds \in Nat

\* What _httpd_sanitiseUrl leaves of a path has still the entry at its end.
ASSUME PathsAssumption ==
    \A s \in Scenarios : \A c \in DOMAIN s.scripts : \A i \in DOMAIN s.scripts[c] :
        s.scripts[c][i].kind = "get" /\ s.scripts[c][i].path # <<>> =>
            SanitiseUrl(s.scripts[c][i].path) \in Seq(STRING \ {NULL}) \ {<<>>}

\* A configured name and password are not empty, and a half-filled table does
\* not decode to either.
ASSUME AdminAssumption ==
    Secured => \A i \in {1, 2} : Admin[i] \notin {NoCredentials[i], "garbage"}

ASSUME ScenariosAssumption ==
    \A s \in Scenarios :
        /\ s.elsewhere \in Nat /\ s.sessions \subseteq Machines
        /\ DOMAIN s.scripts \subseteq Conns /\ DOMAIN s.commands \subseteq Admins
        /\ \A c \in DOMAIN s.scripts :
             /\ Len(s.scripts[c]) \in Nat /\ DOMAIN s.scripts[c] = 1 .. Len(s.scripts[c])
             /\ \A i \in DOMAIN s.scripts[c] :
                  /\ s.scripts[c][i].kind = "get" => s.scripts[c][i].from \in Machines
                  /\ s.scripts[c][i].kind = "basic" => Len(s.scripts[c][i].auth) \in {1, 2}
        /\ \A a \in DOMAIN s.commands :
             /\ s.commands[a].about \in Machines
             /\ s.commands[a].pieces \in Seq({"text", "line", "flood"})

vars == <<processVars, clientVars, workVars, serverVars, controlVars>>

up == main # "exited"
room == Cardinality({w \in Slots : worker[w] # "free"})
        + Cardinality({h \in Handlers : handler[h] # "free"}) < MaxThreads

Init ==
    /\ \E s \in Scenarios :
         /\ ServerInit(s) /\ ControlInit(s.commands)
         /\ WorkInit(s.sessions) /\ ClientInit(s.elsewhere)
    /\ ProcessInit

-----------------------------------------------------------------------------

Browser ==
    /\ \E c \in Conns : Connects(c)
    /\ UNCHANGED <<processVars, fetch, reply, response, workVars, controlVars>>

Main ==
    /\ GetConnection(room)
    /\ UNCHANGED <<processVars, fetch, reply, response, workVars, controlVars>>

Worker(w) ==
    \/ /\ \/ ReadRequestLine(w) \/ CutOff(w) \/ SeeFirst(w) \/ Fill(w) \/ Decode(w)
          \/ FindDir(w) \/ NextDir(w) \/ EndRequest(w)
       /\ UNCHANGED <<processVars, fetch, reply, response, workVars, controlVars>>
    \/ /\ AnswerAtOnce(w) \/ StartWork(w) \/ EndWork(w)
       /\ UNCHANGED <<processVars, fetch, reply, response, controlVars>>
    \/ /\ up /\ CallStep(w)
       /\ UNCHANGED <<serverVars, controlVars>>

Wdctl(a) ==
    /\ Start(a, up) \/ SendRequest(a, up) \/ Finish(a, up)
    /\ UNCHANGED <<processVars, clientVars, workVars, serverVars>>

UserInterrupts ==
    /\ \E a \in Admins : Interrupted(a)
    /\ UNCHANGED <<processVars, clientVars, workVars, serverVars>>

Listener ==
    /\ up /\ AcceptControl(room)
    /\ UNCHANGED <<processVars, fetch, reply, response, workVars, serverVars>>

Handler(h) ==
    /\ up
    /\ \/ /\ ReadCommand(h) \/ Stop(h) \/ OpenInternal(h) \/ CloseAgain(h) \/ CloseControl(h)
          /\ UNCHANGED <<processVars, fetch, reply, response, workVars, serverVars>>
       \/ /\ Dispatch(h) \/ HandOver(h) \/ AnswerCommand(h)
          /\ UNCHANGED <<processVars, fetch, reply, response, serverVars>>
       \/ /\ CallStep(h)
          /\ UNCHANGED <<serverVars, controlVars>>

\* The new process of a restart connects, or never does.
Heir(h) ==
    /\ up /\ AcceptHeir(h)
    /\ UNCHANGED <<processVars, fetch, reply, response, serverVars>>

Child(t) ==
    /\ up /\ ChildEnds(t)
    /\ UNCHANGED <<clientVars, workVars, serverVars, controlVars>>

\* The signal runs in some thread.  The main thread's select returns with an
\* error and is called again; a worker's reading of its request ends, and so
\* does http_get; everything else is restarted by the kernel.
Signal ==
    /\ up /\ sigchld_handler
    /\ \/ UNCHANGED <<clientVars, serverVars>>
       \/ \E w \in Slots : CutOff(w) /\ UNCHANGED <<fetch, reply, response>>
       \/ \E t \in Fetchers : ReadTimesOut(t) /\ UNCHANGED serverVars
    /\ UNCHANGED <<workVars, controlVars>>

Ends ==
    /\ main' = "exited"
    /\ UNCHANGED <<processVars, clientVars, workVars, scenario, conn, queue, answer, worker, request,
                   save, mixed, first, controlVars>>

\* The end of termination_handler.
Exit ==
    /\ up /\ (stopping # NULL \/ main = "terminating")
    /\ Ends

\* "If fork() fails, we die" (safe_fork), in execute and in wdctl_restart.
ForkFails ==
    /\ up
    /\ \/ \E t \in Callers : At(t, "execute") /\ child[t] = "none"
       \/ fds < MaxFds /\ \E h \in Handlers : handler[h] = "restart"
    /\ Ends

\* What the kernel does by itself.
Kernel == Signal \/ \E t \in Callers : Child(t)

Next ==
    \/ Browser \/ Main \/ Listener \/ UserInterrupts \/ Kernel \/ Exit \/ ForkFails
    \/ \E w \in Slots : Worker(w)
    \/ \E a \in Admins : Wdctl(a)
    \/ \E h \in Handlers : Handler(h) \/ Heir(h)

Spec == Init /\ [][Next]_vars

\* Every thread runs on, and the waits with a timeout end; every command
\* ends, signals are delivered, and the wdctl processes run.  Nothing makes
\* the new process of a restart connect.
Fairness ==
    /\ WF_vars(Main) /\ WF_vars(Listener) /\ WF_vars(Exit) /\ WF_vars(Kernel)
    /\ \A w \in Slots : WF_vars(Worker(w))
    /\ \A h \in Handlers : WF_vars(Handler(h))
    /\ WF_vars(\E a \in Admins : Wdctl(a))

FairSpec == Spec /\ Fairness

-----------------------------------------------------------------------------

\* The descriptors of a handler: the connection to wdctl, and the internal
\* socket or the connection to the new process in a restart.
Restarting == {h \in Handlers : handler[h] \in {"accept", "send"}}
Talking == {h \in Handlers : handler[h] \notin {"free", "twice"}}

\* Until a restart is handed over, every descriptor that is open belongs to a
\* connection from a browser that is not closed yet, to a command being
\* served, to a restart or to a question to the auth server, or is the one
\* connection that a listener without a thread has left: none is left behind
\* by a failure or closed twice (httpdEndRequest, http_get, thread_wdctl,
\* thread_wdctl_handler).  wdctl_restart does close the connection to wdctl
\* twice when it hands over, which ends the claim.
DescriptorsAccounted ==
    ~doubled =>
        fds = scenario.elsewhere
              + Cardinality({c \in Conns : conn[c] = "open"})
              + Cardinality(Talking) + Cardinality(Restarting)
              + Cardinality({t \in Fetchers : HoldsSocket(t)})
              + (IF unserved = NULL THEN 0 ELSE 1)

\* What a browser may be shown for the page it asks for.
Asked(c) == IF script[c] = <<>> \/ script[c][1].kind # "get" THEN "invalid"
            ELSE IF script[c][1].path = <<>> THEN "nothing"
            ELSE LET p == SanitiseUrl(script[c][1].path) IN
                 IF p = <<"wifidog">> THEN ""
                 ELSE IF Front(p) = <<"wifidog">> /\ Last(p) \in Entries["wifidog"] THEN Last(p)
                 ELSE "404"
Shown == [invalid |-> {"invalid method"}, nothing |-> {}, about |-> {"about"},
          status |-> {"status", "401"}, disconnect |-> {"401", "both needed", "wrong token"},
          auth |-> {"invalid token", "no mac", "error page", "redirect"}]
MayShow(c) == IF Asked(c) = "" THEN {"menu"}
              ELSE IF Asked(c) = "404" THEN {"offline", "login page", "try again"}
              ELSE Shown[Asked(c)]

\* A browser is answered at most once, and with what it asked for, whoever
\* else is being served, unless libhttpd's static variables got mixed up
\* (_httpd_findContentDir, _httpd_decode).
OwnAnswer ==
    \A c \in DOMAIN script :
                     /\ Len(answer[c]) <= 1
                     /\ \A i \in DOMAIN answer[c] : c \in mixed \/ answer[c][i] \in MayShow(c)

\* The status page and the disconnect page serve only who has sent the right
\* name and the right password on the same connection, even when the static
\* variables got mixed up (http_callback_status, http_callback_disconnect).
\* They may come in two headers: one without a colon keeps the password of an
\* earlier one.
Headers(c) == {script[c][i].auth : i \in {j \in DOMAIN script[c] : script[c][j].kind = "basic"}}
SentByAdmin(c) ==
    /\ \E auth \in Headers(c) : auth[1] = Admin[1]
    /\ \E auth \in Headers(c) : Len(auth) = 2 /\ auth[2] = Admin[2]
StatusProtected ==
    Secured =>
        /\ \A c \in DOMAIN script : "status" \in ToSet(answer[c]) => SentByAdmin(c)
        /\ \A w \in Slots : worker[w] \in {"status", "disconnect"} => SentByAdmin(request[w].sock)

\* No session is reported as reset more than once, however many ask for it
\* at the same time (wdctl_reset on both sides, logout_client).
ResetOnce ==
    \A m \in Machines :
        Cardinality({a \in DOMAIN command : command[a].about = m /\ told[a] = "Yes"}) <= ended[m]

\* No descriptor is left, and a handler has one that it may keep for ever:
\* the rest of its command, or the new process of its restart, may not come.
Starved == fds = MaxFds /\ \E h \in Handlers : handler[h] \in {"read", "accept"}

\* Every connection is served to its end, however slow its browser, the auth
\* server and the commands are, unless the gateway exits (main_loop,
\* thread_httpd), and every wdctl whose command has its line end returns
\* (thread_wdctl_handler), except the one whose restart waits in accept()
\* for a process that does not come, and while the descriptors are taken by
\* one that waits like that: connections and commands are made once, so it
\* is enough that there is always a moment to come when none is pending.
EveryoneServed ==
    /\ []<>(~up \/ Starved \/ \A c \in Conns : conn[c] \in {"away", "closed"})
    /\ []<>(Starved \/ \A a \in DOMAIN command :
               Last(command[a].pieces) \in {"line", "flood"} =>
                   \/ admin[a] \in {"new", "gone"}
                   \/ \E h \in Handlers : serves[h] = a /\ handler[h] = "accept")
=============================================================================
