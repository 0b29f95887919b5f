------------------------------ MODULE Control ------------------------------
(***************************************************************************)
(* The control socket: the wdctl program on one side, thread_wdctl and its *)
(* handler threads on the other.  Of a restart this module has the thread  *)
(* that runs wdctl_restart and the descriptors it uses; the new process    *)
(* and what it gets from the old one are in module Restart.                *)
(*                                                                         *)
(* A command travels in pieces; the last one carries the line end, if it   *)
(* was not cut off: wdctl_reset builds its request in 64 bytes, and an     *)
(* argument that fills them leaves no room for the line end.  A piece that *)
(* overflows the buffer of the gateway comes from some other program.      *)
(***************************************************************************)
EXTENDS ClientWork

CONSTANTS
    Admins,         \* the wdctl processes
    Handlers        \* the handler threads there can be, numbered after the workers

VARIABLES
    command,        \* what each wdctl that is called is called for
    admin,          \* where each wdctl is
    sent,           \* the pieces each wdctl has still to write
    wire,           \* the pieces on their way to the gateway
    printed,        \* what each wdctl tells its user
    waiting,        \* the connections in the backlog of the control socket
    handler,        \* where each handler is
    serves,         \* the wdctl each handler talks to
    stopping,       \* who is in termination_handler: a thread a signal has chosen, or
                    \* the listener itself; NULL if nobody is
    told,           \* what the gateway has written to each wdctl
    unserved,       \* the wdctl whose connection was accepted when no thread could be
                    \* started for it, NULL if there is none
    doubled         \* ghost: wdctl_restart has closed a descriptor that its caller
                    \* closes again

lapses == <<unserved, doubled>>
controlVars == <<command, admin, sent, wire, printed, waiting, handler, serves, stopping, told, lapses>>

\* A command is its kind, the machine it is about and the way its text
\* travels: the pieces, of which the last may have the line end.
ControlInit(commands) ==
    /\ command = commands
    /\ admin = [a \in Admins |-> "new"]
    /\ sent = [a \in Admins |-> IF a \in DOMAIN commands THEN commands[a].pieces ELSE <<>>]
    /\ wire = [a \in Admins |-> <<>>]
    /\ printed = [a \in Admins |-> NULL]
    /\ waiting = <<>>
    /\ handler = [h \in Handlers |-> "free"]
    /\ serves = [h \in Handlers |-> CHOOSE a \in Admins : TRUE]
    /\ stopping = NULL
    /\ told = [a \in Admins |-> NULL]
    /\ unserved = NULL /\ doubled = FALSE

-----------------------------------------------------------------------------
(* wdctl.                                                                  *)

\* parse_commandline refuses what is no command; connect_to_server.  Another
\* program may send what the gateway does not understand.
Connecting == {"status", "stop", "reset", "restart", "foreign"}
Start(a, up) ==
    /\ a \in DOMAIN command /\ admin[a] = "new"
    /\ \/ /\ command[a].kind \in Connecting /\ up
          /\ admin' = [admin EXCEPT ![a] = "send"]
          /\ waiting' = Append(waiting, a)
          /\ UNCHANGED printed
       \/ /\ command[a].kind \notin Connecting \/ ~up
          /\ admin' = [admin EXCEPT ![a] = "gone"]
          /\ printed' = [printed EXCEPT ![a] = "error"]
          /\ UNCHANGED waiting
    /\ UNCHANGED <<command, sent, wire, handler, serves, stopping, told, lapses>>

\* send_request writes on until everything is written; a broken connection
\* ends it.
SendRequest(a, up) ==
    /\ admin[a] = "send"
    /\ \/ /\ sent[a] # <<>> /\ up
          /\ wire' = [wire EXCEPT ![a] = Append(@, Head(sent[a]))]
          /\ sent' = [sent EXCEPT ![a] = Tail(@)]
          /\ UNCHANGED <<admin, printed>>
       \/ /\ sent[a] = <<>>
          /\ admin' = [admin EXCEPT ![a] = "wait"]
          /\ UNCHANGED <<wire, sent, printed>>
       \/ /\ sent[a] # <<>> /\ ~up
          /\ admin' = [admin EXCEPT ![a] = "gone"]
          /\ printed' = [printed EXCEPT ![a] = "error"]
          /\ UNCHANGED <<wire, sent>>
    /\ UNCHANGED <<command, waiting, handler, serves, stopping, told, lapses>>

\* The gateway has closed the connection, or is gone: wdctl reads the end.
Closed(a) == a # unserved /\ \A h \in Handlers : serves[h] = a => handler[h] \in {"free", "twice"}
Accepted(a) == ~\E i \in DOMAIN waiting : waiting[i] = a
Report(a) ==
    IF command[a].kind # "reset" THEN (IF told[a] = NULL THEN "" ELSE told[a])
    ELSE CASE told[a] = "Yes" -> "successfully reset"
           [] told[a] = "No" -> "was not active"
           [] OTHER -> "abnormal reply"
Finish(a, up) ==
    /\ admin[a] = "wait"
    /\ ~up \/ (Accepted(a) /\ Closed(a))
    /\ admin' = [admin EXCEPT ![a] = "gone"]
    /\ printed' = [printed EXCEPT ![a] = Report(a)]
    /\ UNCHANGED <<command, sent, wire, waiting, handler, serves, stopping, told, lapses>>

\* wdctl is interrupted by its user.
Interrupted(a) ==
    /\ admin[a] \in {"send", "wait"}
    /\ admin' = [admin EXCEPT ![a] = "gone"]
    /\ UNCHANGED <<command, sent, wire, printed, waiting, handler, serves, stopping, told, lapses>>

-----------------------------------------------------------------------------
(* The gateway.                                                            *)

FreeHandlers == {h \in Handlers : handler[h] = "free"}

\* thread_wdctl.  When there is no descriptor it logs the error and tries
\* again; when there is no thread it terminates the gateway itself, with the
\* connection accepted and left open.
AcceptControl(room) ==
    /\ waiting # <<>> /\ fds < MaxFds /\ stopping # "listener"
    /\ waiting' = Tail(waiting)
    /\ fds' = fds + 1
    /\ \/ \E h \in FreeHandlers :
            /\ room /\ \A g \in FreeHandlers : h <= g
            /\ handler' = [handler EXCEPT ![h] = "read"]
            /\ serves' = [serves EXCEPT ![h] = Head(waiting)]
            /\ UNCHANGED <<stopping, unserved>>
       \/ /\ ~room
          /\ stopping' = "listener"
          /\ unserved' = Head(waiting)
          /\ UNCHANGED <<handler, serves>>
    /\ UNCHANGED <<command, admin, sent, wire, printed, told, doubled>>

\* Where a piece leaves the handler: the command is still incomplete, complete
\* or too long for its buffer.
AfterPiece(piece) == CASE piece = "text" -> "read"
                       [] piece = "line" -> "command"
                       [] piece = "flood" -> "close"

\* One read of thread_wdctl_handler.  The end of the connection reads as
\* nothing, again and again.  No read fails: a signal restarts it, and only a
\* peer that leaves unread what it was sent can reset the connection.
ReadCommand(h) ==
    LET a == serves[h]  piece == Head(wire[a]) IN
    /\ handler[h] = "read" /\ wire[a] # <<>>
    /\ wire' = [wire EXCEPT ![a] = Tail(@)]
    /\ handler' = [handler EXCEPT ![h] = AfterPiece(piece)]
    /\ UNCHANGED <<command, admin, sent, printed, waiting, serves, stopping, told, lapses, fds>>

\* The dispatch.  A request that is not understood is logged.
Dispatch(h) ==
    LET c == command[serves[h]] IN
    /\ handler[h] = "command"
    /\ \/ /\ c.kind = "status" /\ Assign(h, c.about, <<"status">>)
          /\ handler' = [handler EXCEPT ![h] = "work"]
       \/ /\ c.kind = "reset" /\ Assign(h, c.about, <<"reset">>)
          /\ handler' = [handler EXCEPT ![h] = "work"]
       \/ /\ c.kind \in {"stop", "restart"}
          /\ handler' = [handler EXCEPT ![h] = c.kind]
          /\ UNCHANGED workVars
       \/ /\ c.kind \notin {"status", "reset", "stop", "restart"}
          /\ handler' = [handler EXCEPT ![h] = "close"]
          /\ UNCHANGED workVars
    /\ UNCHANGED <<command, admin, sent, wire, printed, waiting, serves, stopping, told, lapses, fds>>

\* wdctl_stop: kill(getpid(), SIGINT).
Kill == stopping' = IF stopping = NULL THEN "signal" ELSE stopping
Stop(h) ==
    /\ handler[h] = "stop"
    /\ Kill
    /\ handler' = [handler EXCEPT ![h] = "close"]
    /\ UNCHANGED <<command, admin, sent, wire, printed, waiting, serves, told, lapses, fds>>

-----------------------------------------------------------------------------
(* wdctl_restart, in the parent.                                           *)

\* create_unix_socket and safe_fork.  There is no descriptor, or the name is
\* taken: the command is over.
OpenInternal(h) ==
    /\ handler[h] = "restart"
    /\ \/ /\ fds < MaxFds
          /\ fds' = fds + 1
          /\ handler' = [handler EXCEPT ![h] = "accept"]
       \/ /\ handler' = [handler EXCEPT ![h] = "close"]
          /\ UNCHANGED fds
    /\ UNCHANGED <<command, admin, sent, wire, printed, waiting, serves, stopping, told, lapses>>

\* accept() returns, if the new process gets as far as connecting; without a
\* descriptor for the connection it fails.  Its descriptor replaces that of
\* the socket, and the clients are sent with the list locked.
AcceptHeir(h) ==
    /\ handler[h] = "accept"
    /\ \/ /\ fds < MaxFds
          /\ handler' = [handler EXCEPT ![h] = "send"]
          /\ Assign(h, command[serves[h]].about, <<"status">>)
          /\ UNCHANGED fds
       \/ /\ handler' = [handler EXCEPT ![h] = "close"]
          /\ fds' = fds - 1
          /\ UNCHANGED workVars
    /\ UNCHANGED <<command, admin, sent, wire, printed, waiting, serves, stopping, told, lapses>>

\* The clients are sent: the connection to the new process and the one to
\* wdctl are closed, and the gateway sends itself the signal to stop.
HandOver(h) ==
    /\ handler[h] = "send" /\ Idle(h)
    /\ fds' = fds - 2
    /\ Kill
    /\ doubled' = TRUE
    /\ handler' = [handler EXCEPT ![h] = "twice"] /\ Forget(h)
    /\ UNCHANGED <<command, admin, sent, wire, printed, waiting, serves, told, unserved>>

\* Back in thread_wdctl_handler the connection to wdctl is closed once more:
\* its number names nothing, or what somebody has opened since, whose owner
\* is not told apart here.
CloseAgain(h) ==
    /\ handler[h] = "twice"
    /\ handler' = [handler EXCEPT ![h] = "free"]
    /\ \/ UNCHANGED fds
       \/ fds > 0 /\ fds' = fds - 1
    /\ UNCHANGED <<command, admin, sent, wire, printed, waiting, serves, stopping, told, lapses>>

-----------------------------------------------------------------------------

\* write_to_socket, which gives up when wdctl is gone.
AnswerCommand(h) ==
    LET a == serves[h] IN
    /\ handler[h] = "work" /\ Idle(h)
    /\ told' = IF admin[a] = "gone" THEN told
               ELSE [told EXCEPT ![a] = CASE verdict[h] = "yes" -> "Yes"
                                          [] verdict[h] = "no" -> "No"
                                          [] OTHER -> "status"]
    /\ handler' = [handler EXCEPT ![h] = "close"] /\ Forget(h)
    /\ UNCHANGED <<command, admin, sent, wire, printed, waiting, serves, stopping, lapses, fds>>

CloseControl(h) ==
    /\ handler[h] = "close"
    /\ handler' = [handler EXCEPT ![h] = "free"]
    /\ fds' = fds - 1
    /\ UNCHANGED <<command, admin, sent, wire, printed, waiting, serves, stopping, told, lapses>>
=============================================================================
