----------------------------- MODULE HttpServer -----------------------------
(***************************************************************************)
(* The web server of the gateway: the accept loop of main_loop, one thread *)
(* per connection (thread_httpd), libhttpd's reading of the request, its   *)
(* look-up of the page and the callbacks of http.c.                        *)
(*                                                                         *)
(* libhttpd was written for one thread.  Two of its functions keep state   *)
(* in static variables, which here all connections share: strtok, with     *)
(* which _httpd_findContentDir takes a path apart, and the table that the  *)
(* first _httpd_decode fills.                                              *)
(*                                                                         *)
(* A connection is a script, the lines its browser sends; a line is one    *)
(* unit, and so is the cut that ends the reading: ten seconds of silence,  *)
(* the end of the connection and a signal are the same to the reader.      *)
(***************************************************************************)
EXTENDS ClientWork, SequencesExt

CONSTANTS
    Conns,          \* connections
    Slots,          \* 1 .. n: the worker threads the gateway can have
    Secured,        \* HTTPDUserName is set
    Admin,          \* <<HTTPDUserName, HTTPDPassword>>
    WhiteHosts      \* hosts the global rule set names

VARIABLES
    scenario,       \* what is asked of the gateway
    conn,           \* away, queued, open, closed
    queue,          \* the connections waiting to be accepted
    answer,         \* what was sent to each connection
    worker,         \* where each worker is
    request,        \* the request of each worker
    save,           \* strtok's static pointer: whose buffer, and what is left of it
    mixed,          \* ghost: the connections whose request met another's data
    first,          \* _httpd_decode's static flag
    main            \* select, terminating, or exited when the process has ended

serverVars == <<scenario, conn, queue, answer, worker, request, save, mixed, first, main>>

\* The lines each connection sends, of those that are made.
script == scenario.scripts

Nobody == 0
NoCredentials == <<"", "">>

\* A request as it is allocated: zeroed.
Blank == [sock |-> NULL, lines |-> 0, path |-> <<>>, variables |-> {},
          auth |-> NoCredentials, host |-> "", curItem |-> NULL, curDir |-> NULL]

ServerInit(s) ==
    /\ scenario = s
    /\ conn = [c \in Conns |-> "away"]
    /\ queue = <<>>
    /\ answer = [c \in Conns |-> <<>>]
    /\ worker = [w \in Slots |-> "free"]
    /\ request = [w \in Slots |-> Blank]
    /\ save = [owner |-> Nobody, left |-> <<>>]
    /\ mixed = {}
    /\ first = TRUE
    /\ main = "select"

WorkerAt(w, place) == main # "exited" /\ worker[w] = place
Goto(w, place) == worker' = [worker EXCEPT ![w] = place]
Reply(w, what) ==
    answer' = IF request[w].sock = NULL THEN answer
              ELSE [answer EXCEPT ![request[w].sock] = Append(@, what)]

-----------------------------------------------------------------------------
(* The accept loop.                                                        *)

Connects(c) ==
    /\ c \in DOMAIN script /\ conn[c] = "away" /\ main # "exited"
    /\ conn' = [conn EXCEPT ![c] = "queued"]
    /\ queue' = Append(queue, c)
    /\ UNCHANGED <<scenario, mixed, answer, worker, request, save, first, main, fds>>

FreeSlots == {w \in Slots : worker[w] = "free"}

\* httpdGetConnection: accept() is not checked, and with no descriptor left
\* the request gets the socket -1 and the connection stays in the queue.
GetSocket ==
    \/ /\ fds < MaxFds
       /\ conn' = [conn EXCEPT ![Head(queue)] = "open"]
       /\ queue' = Tail(queue)
       /\ fds' = fds + 1
    \/ fds = MaxFds /\ UNCHANGED <<conn, queue, fds>>
Socket == IF fds < MaxFds THEN Head(queue) ELSE NULL

\* The start of a thread for it.  Without room for one the gateway terminates,
\* with the connection accepted.
GetConnection(room) ==
    /\ main = "select" /\ queue # <<>>
    /\ GetSocket
    /\ \/ /\ ~room
          /\ main' = "terminating"
          /\ UNCHANGED <<worker, request>>
       \/ \E w \in FreeSlots :
            /\ room
            /\ \A v \in FreeSlots : w <= v
            /\ Goto(w, "read")
            /\ request' = [request EXCEPT ![w] = [Blank EXCEPT !.sock = Socket]]
            /\ UNCHANGED main
    /\ UNCHANGED <<scenario, mixed, answer, save, first>>

-----------------------------------------------------------------------------
(* httpdReadRequest.                                                       *)

\* _httpd_storeData: a name without "=" has the empty value, and is lost at
\* the end of the query.
StoreData(query) ==
    {query[i].name : i \in {j \in DOMAIN query : query[j].value \/ j < Len(query)}}

\* _httpd_sanitiseUrl, on the segments of a path: empty ones and "." go, and
\* ".." takes the segment before it along, but two in a row take only one.
\* The last segment is the entry and stays as it is.
NoDots(segments) == SelectSeq(segments, LAMBDA s : s \notin {"", "."})
Up(done, s) ==
    IF s # ".." THEN [out |-> Append(done.out, s), written |-> TRUE]
    ELSE [out |-> IF done.written THEN Front(done.out) ELSE done.out, written |-> FALSE]
SanitiseUrl(segments) ==
    IF segments = <<>> THEN <<>>       \* no slash in it
    ELSE FoldLeft(Up, [out |-> <<>>, written |-> FALSE], NoDots(Front(segments))).out
         \o <<Last(segments)>>

\* One line.  The first one is the method and the path; the headers that
\* count are Authorization and Host; the empty one is the last.
ReadRequestLine(w) ==
    LET r == request[w]
        lines == script[r.sock]
        l == lines[r.lines + 1]
        Read(q) == request' = [request EXCEPT ![w] = [q EXCEPT !.lines = @ + 1]]
    IN
    /\ WorkerAt(w, "read") /\ r.sock # NULL /\ r.lines < Len(lines)
    /\ \/ /\ r.lines = 0 /\ l.kind # "get"
          /\ Read(r) /\ Goto(w, "end") /\ Reply(w, "invalid method")
       \/ /\ r.lines = 0 /\ l.kind = "get"
          /\ Read([r EXCEPT !.path = SanitiseUrl(l.path), !.variables = StoreData(l.query)])
          /\ UNCHANGED <<worker, answer>>
       \/ /\ r.lines > 0 /\ l.kind = "basic"
          /\ Read(r) /\ Goto(w, "decode") /\ UNCHANGED answer
       \/ /\ r.lines > 0 /\ l.kind = "host"
          /\ Read([r EXCEPT !.host = l.host]) /\ UNCHANGED <<worker, answer>>
       \/ /\ r.lines > 0 /\ l.kind = "empty"
          /\ Read(r) /\ Goto(w, "process") /\ UNCHANGED answer
       \/ /\ r.lines > 0 /\ l.kind \notin {"basic", "host", "empty"}
          /\ Read(r) /\ UNCHANGED <<worker, answer>>
    /\ UNCHANGED <<scenario, mixed, conn, queue, save, first, main, fds>>

\* No line: the request is processed with the lines there are.
\* Mutant: a request that breaks off is waited for.
CutOffWaits(w) ==
    /\ WorkerAt(w, "read")
    /\ request[w].lines > 0
    /\ Goto(w, "process")
    /\ UNCHANGED <<scenario, mixed, conn, queue, answer, request, save, first, main, fds>>
CutOff(w) ==
    /\ WorkerAt(w, "read")
    /\ Goto(w, "process")
    /\ UNCHANGED <<scenario, mixed, conn, queue, answer, request, save, first, main, fds>>

\* _httpd_decode: who finds first set clears it and fills the table; who does
\* not uses it at once, and what comes out while somebody fills it is garbage.
SeeFirst(w) ==
    /\ WorkerAt(w, "decode")
    /\ Goto(w, IF first THEN "fill" ELSE "decoding")
    /\ UNCHANGED <<scenario, mixed, conn, queue, answer, request, save, first, main, fds>>

Fill(w) ==
    /\ \/ WorkerAt(w, "fill") /\ Goto(w, "filling") /\ first' = FALSE
       \/ WorkerAt(w, "filling") /\ Goto(w, "decoding") /\ UNCHANGED first
    /\ UNCHANGED <<scenario, mixed, conn, queue, answer, request, save, main, fds>>

Garbage == {<<"garbage">>, <<"garbage", "garbage">>}
Filling == \E v \in Slots : worker[v] = "filling"

\* What was decoded is cut at its colon; without one the password is not
\* touched, and stays what an earlier header has set.
SetCredentials(auth, decoded) == <<decoded[1], IF Len(decoded) = 1 THEN auth[2] ELSE decoded[2]>>
Decode(w) ==
    /\ WorkerAt(w, "decoding")
    /\ LET sent == script[request[w].sock][request[w].lines].auth IN
       \E decoded \in {sent} \cup (IF Filling THEN Garbage ELSE {}) :
          /\ request' = [request EXCEPT ![w].auth = SetCredentials(@, decoded)]
          /\ mixed' = IF decoded = sent THEN mixed ELSE mixed \cup {request[w].sock}
    /\ Goto(w, "read")
    /\ UNCHANGED <<scenario, conn, queue, answer, save, first, main, fds>>

-----------------------------------------------------------------------------
(* httpdProcessRequest.                                                    *)

Children == [root |-> {"wifidog"}, wifidog |-> {}]
Entries == [root |-> {"wifidog"}, wifidog |-> {"", "about", "status", "auth", "disconnect"}]

\* What strtok(NULL) finds: the rest of the last buffer it was given, which
\* may be another thread's, or one that is no more.
Overwritten(w) == save.owner # w    \* never Nobody: FindDir came first
Stale(w) == Overwritten(w) /\ (worker[save.owner] # "dir" \/ request[save.owner].curDir = NULL)

Tokens(left) == IF left = <<>> THEN NULL ELSE Head(left)

\* A path without a slash gets no answer; any other one is taken apart.
FindDir(w) ==
    LET r == request[w] IN
    /\ WorkerAt(w, "process")
    /\ \/ /\ r.path = <<>>
          /\ Goto(w, "end")
          /\ UNCHANGED <<request, save>>
       \/ /\ r.path # <<>>
          /\ Goto(w, "dir")
          /\ request' = [request EXCEPT ![w].curItem = "root", ![w].curDir = Tokens(Front(r.path))]
          /\ save' = [owner |-> w,
                      left |-> IF Len(r.path) = 1 THEN <<>> ELSE Tail(Front(r.path))]
    /\ UNCHANGED <<scenario, mixed, conn, queue, answer, first, main, fds>>

\* One round of the loop: down one directory, and strtok(NULL).
NextDir(w) ==
    LET r == request[w] IN
    /\ WorkerAt(w, "dir") /\ r.curDir # NULL
    /\ \/ /\ r.curDir \notin Children[r.curItem]
          /\ request' = [request EXCEPT ![w].curItem = NULL, ![w].curDir = NULL]
          /\ UNCHANGED <<save, mixed>>
       \/ /\ r.curDir \in Children[r.curItem]
          /\ \E token \in {Tokens(save.left)} \cup (IF Stale(w) THEN {NULL, "garbage"} ELSE {}) :
               request' = [request EXCEPT ![w].curItem = r.curDir, ![w].curDir = token]
          /\ mixed' = IF ~Overwritten(w) THEN mixed
                      ELSE mixed \cup {r.sock, request[save.owner].sock}
          /\ save' = [save EXCEPT !.left = IF @ = <<>> THEN @ ELSE Tail(@)]
    /\ UNCHANGED <<scenario, conn, queue, answer, worker, first, main, fds>>

\* The entry of the directory, or the 404 callback.
\* Mutant: a directory that is not there leaves the search where it is.
PageInLast(w) == LET r == request[w] IN
           IF Last(r.path) \in Entries[IF r.curItem = NULL THEN "wifidog" ELSE r.curItem]
           THEN Last(r.path) ELSE "404"
Page(w) == LET r == request[w] IN
           IF r.curItem = NULL THEN "404"
           ELSE IF Last(r.path) \in Entries[r.curItem] THEN Last(r.path) ELSE "404"

-----------------------------------------------------------------------------
(* The callbacks.  A page is a file: without a descriptor to open it with  *)
(* send_http_page sends nothing.                                           *)

SendPage(w, what) == IF fds < MaxFds THEN Reply(w, what) ELSE UNCHANGED answer

\* Mutant: either half of the credentials is enough.
AuthorisedByHalf(auth) == ~Secured \/ auth[1] = Admin[1] \/ auth[2] = Admin[2]
Authorised(auth) == ~Secured \/ auth = Admin

\* The machine at the other end, and the work it asks for.
Machine(w) == script[request[w].sock][1].from

\* Answered within the callback itself.
AnswerAtOnce(w) ==
    LET page == Page(w)  r == request[w] IN
    /\ WorkerAt(w, "dir") /\ r.curDir = NULL
    /\ \/ /\ page \in {"wifidog", ""} /\ SendPage(w, "menu")
       \/ /\ page = "about" /\ SendPage(w, "about")
       \/ /\ page \in {"status", "disconnect"} /\ ~Authorised(r.auth)
          /\ Reply(w, "401")
       \/ /\ page = "disconnect" /\ Authorised(r.auth) /\ ~({"token", "mac"} \subseteq r.variables)
          /\ Reply(w, "both needed")
       \/ /\ page = "auth" /\ "token" \notin r.variables /\ SendPage(w, "invalid token")
       \/ /\ page = "auth" /\ "token" \in r.variables    \* arp_get found nothing
          /\ SendPage(w, "no mac")
       \/ /\ page = "404" /\ SendPage(w, "offline")       \* is_online, is_auth_online
       \/ /\ page = "404" /\ r.host \notin WhiteHosts /\ SendPage(w, "login page")
    /\ Goto(w, "end")
    /\ UNCHANGED <<scenario, mixed, conn, queue, request, save, first, main, fds, workVars>>

\* The callback has to work for its answer.
StartWork(w) ==
    LET page == Page(w)  r == request[w] IN
    /\ WorkerAt(w, "dir") /\ r.curDir = NULL
    /\ \/ /\ page = "status" /\ Authorised(r.auth)
          /\ Assign(w, Machine(w), <<"status">>) /\ Goto(w, "status")
       \/ /\ page = "disconnect" /\ Authorised(r.auth) /\ {"token", "mac"} \subseteq r.variables
          /\ Assign(w, Machine(w), <<"disconnect">>) /\ Goto(w, "disconnect")
       \/ /\ page = "auth" /\ "token" \in r.variables
          /\ Assign(w, Machine(w), IF "logout" \in r.variables THEN <<"logout">> ELSE Login)
          /\ Goto(w, "auth")
       \/ /\ page = "404" /\ r.host \in WhiteHosts
          /\ Assign(w, Machine(w), Access) /\ Goto(w, "host")
    /\ UNCHANGED <<scenario, mixed, conn, queue, answer, request, save, first, main, fds>>

\* The work is done; a logout is not answered.
EndWork(w) ==
    /\ main # "exited" /\ worker[w] \in {"status", "disconnect", "auth", "host"} /\ Idle(w)
    /\ \/ worker[w] = "status" /\ SendPage(w, "status")
       \/ worker[w] = "host" /\ SendPage(w, "try again")
       \/ worker[w] = "disconnect" /\ verdict[w] = "no" /\ Reply(w, "wrong token")
       \/ worker[w] = "auth" /\ verdict[w] \in {"error page", "redirect"} /\ SendPage(w, verdict[w])
       \/ worker[w] \in {"auth", "disconnect"} /\ verdict[w] \in {"yes", NULL} /\ UNCHANGED answer
    /\ Goto(w, "end") /\ Forget(w)
    /\ UNCHANGED <<scenario, mixed, conn, queue, request, save, first, main, fds>>

\* httpdEndRequest, and the end of the thread.
EndRequest(w) ==
    /\ WorkerAt(w, "end")
    /\ Goto(w, "free")
    /\ IF request[w].sock = NULL THEN UNCHANGED <<conn, fds>>
       ELSE conn' = [conn EXCEPT ![request[w].sock] = "closed"] /\ fds' = fds - 1
    /\ request' = [request EXCEPT ![w] = Blank]
    /\ UNCHANGED <<scenario, mixed, queue, answer, save, first, main>>
=============================================================================
