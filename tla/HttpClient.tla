----------------------------- MODULE HttpClient -----------------------------
(***************************************************************************)
(* http_get of simple_http.c: one request to the auth server over a socket *)
(* that connect_auth_server has opened, read to its end with a timeout of  *)
(* 30 seconds for every piece.  The reply comes in pieces; the server, the *)
(* network and a signal may break it off between any two.                  *)
(***************************************************************************)
EXTENDS Integers, Sequences

CONSTANTS
    Fetchers,       \* the threads that talk to the auth server
    Replies,        \* the pieces the auth server may reply with
    MaxFds          \* the sockets the gateway can have open

VARIABLES
    fetch,          \* where each thread is in http_get
    reply,          \* what the auth server still has to send to each thread
    response,       \* what http_get has put together for each thread
    fds             \* the number of open sockets

clientVars == <<fetch, reply, response, fds>>

NULL == "NULL"

ClientInit(used) ==
    /\ fetch = [t \in Fetchers |-> "none"]
    /\ reply = [t \in Fetchers |-> <<>>]
    /\ response = [t \in Fetchers |-> <<>>]
    /\ fds = used

\* connect_auth_server found a server, or no server or no descriptor.
Connect(t) ==
    /\ fetch[t] = "none"
    /\ response' = [response EXCEPT ![t] = <<>>]
    /\ \/ /\ fds < MaxFds
          /\ fetch' = [fetch EXCEPT ![t] = "send"]
          /\ fds' = fds + 1
       \/ /\ fetch' = [fetch EXCEPT ![t] = "failed"]
          /\ UNCHANGED fds
    /\ UNCHANGED reply

\* The error label: the socket is closed, what was read is thrown away.
\* Mutant: the socket stays open.
GetFailsOpen(t) ==
    /\ fetch' = [fetch EXCEPT ![t] = "failed"]
    /\ response' = [response EXCEPT ![t] = <<>>]
    /\ reply' = [reply EXCEPT ![t] = <<>>]
    /\ UNCHANGED fds
GetFails(t) ==
    /\ fetch' = [fetch EXCEPT ![t] = "failed"]
    /\ response' = [response EXCEPT ![t] = <<>>]
    /\ reply' = [reply EXCEPT ![t] = <<>>]
    /\ fds' = fds - 1

\* send took the whole request, or not.
Send(t) ==
    /\ fetch[t] = "send"
    /\ \/ /\ fetch' = [fetch EXCEPT ![t] = "read"]
          /\ \E s \in Replies : reply' = [reply EXCEPT ![t] = s]
          /\ UNCHANGED <<response, fds>>
       \/ GetFails(t)

\* select says that there is something to read: a piece, or the end.
ReadPiece(t) ==
    /\ fetch[t] = "read" /\ reply[t] # <<>>
    /\ response' = [response EXCEPT ![t] = Append(@, Head(reply[t]))]
    /\ reply' = [reply EXCEPT ![t] = Tail(@)]
    /\ UNCHANGED <<fetch, fds>>

ReadEnd(t) ==
    /\ fetch[t] = "read" /\ reply[t] = <<>>
    /\ fetch' = [fetch EXCEPT ![t] = "done"]
    /\ fds' = fds - 1
    /\ UNCHANGED <<reply, response>>

\* 30 seconds without a piece, or an error of select or read.
ReadTimesOut(t) == fetch[t] = "read" /\ GetFails(t)

\* http_get returns: the response stays with the caller, an empty one stands
\* for NULL.
TakeResponse(t) ==
    /\ fetch[t] \in {"done", "failed"}
    /\ fetch' = [fetch EXCEPT ![t] = "none"]
    /\ UNCHANGED <<reply, response, fds>>

GetStep(t) == Send(t) \/ ReadPiece(t) \/ ReadEnd(t) \/ ReadTimesOut(t)

HoldsSocket(t) == fetch[t] \in {"send", "read"}
=============================================================================
