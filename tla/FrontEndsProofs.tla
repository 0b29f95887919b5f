--------------------------- MODULE FrontEndsProofs ---------------------------
(***************************************************************************)
(* Proofs about FrontEnds, for any number of workers, control handlers,    *)
(* browsers and administrators: the lock of the client list is not held    *)
(* while a thread asks the auth server, descriptors are accounted for,     *)
(* protected pages are protected, a session is reset once, execute reports *)
(* no false success, and a browser gets the answer to its own request.     *)
(*                                                                         *)
(* The inductive invariant IInv is built bottom up: the requests of the    *)
(* workers, the queue, the control handlers, the programs that threads are *)
(* in the middle of, and then what the theorems are about.                 *)
(***************************************************************************)
EXTENDS FrontEnds, FiniteSetTheorems, SequenceTheorems, TLAPS

\* The programs a thread can be in the middle of.
Leaving == {Logout, <<"execute", "remove", "get", "relock", "yes">>, <<"remove", "get", "relock", "yes">>}
\* What is left of a logout once the client is off the list.
Reporting == {<<"get", "relock", "yes">>, <<"relock", "yes">>, <<"yes">>}
\* What is left of giving a client access, up to the page that says so.
Granting == {<<"execute", "execute", "execute", "execute", "redirect">>,
             <<"execute", "execute", "execute", "redirect">>,
             <<"execute", "execute", "redirect">>, <<"execute", "redirect">>, <<"redirect">>}
\* What is left of a question about a token, before the list is changed.
Asks == {Login, <<"find", "get", "verdict">>, <<"get", "verdict">>, <<"verdict">>}
\* The programs of one step, and the changes of the rules alone.
Simple == {<<>>, <<"logout">>, <<"reset">>, <<"disconnect">>, <<"status">>, Access, <<"execute">>}
\* The programs in the middle of which a thread holds the lock of the list.
Held == Leaving \cup Granting
Programs == Held \cup Reporting \cup Asks \cup Simple

\* The programs that are put together, written out.
LEMMA AccessThenRedirect == Access \o <<"redirect">> = <<"execute", "execute", "redirect">>
  <1> DEFINE s == Access \o <<"redirect">>
  <1>1. s \in Seq({"execute", "redirect"})
    BY ConcatProperties DEF Access
  <1>2. Len(s) = 3
    BY ConcatProperties DEF Access
  <1>3. s[1] = "execute" /\ s[2] = "execute" /\ s[3] = "redirect"
    BY DEF Access
  <1> HIDE DEF s
  <1>4. s = <<s[1], s[2], s[3]>>
    BY <1>1, <1>2
  <1> QED
    BY <1>3, <1>4 DEF s

LEMMA AccessTwice == Access \o Access = <<"execute", "execute", "execute", "execute">>
  <1> DEFINE s == Access \o Access
  <1>1. s \in Seq({"execute"})
    BY ConcatProperties DEF Access
  <1>2. Len(s) = 4
    BY ConcatProperties DEF Access
  <1>3. s[1] = "execute" /\ s[2] = "execute" /\ s[3] = "execute" /\ s[4] = "execute"
    BY DEF Access
  <1> HIDE DEF s
  <1>4. s = <<s[1], s[2], s[3], s[4]>>
    BY <1>1, <1>2
  <1> QED
    BY <1>3, <1>4 DEF s

LEMMA TwiceThenRedirect ==
    (Access \o Access) \o <<"redirect">> = <<"execute", "execute", "execute", "execute", "redirect">>
  <1> DEFINE a == <<"execute", "execute", "execute", "execute">>
             s == a \o <<"redirect">>
  <1>1. s \in Seq({"execute", "redirect"})
    BY ConcatProperties
  <1>2. Len(s) = 5
    BY ConcatProperties
  <1>3. s[1] = "execute" /\ s[2] = "execute" /\ s[3] = "execute" /\ s[4] = "execute"
    OBVIOUS
  <1>4. s[5] = "redirect"
    OBVIOUS
  <1> HIDE DEF s
  <1>5. s = <<s[1], s[2], s[3], s[4], s[5]>>
    BY <1>1, <1>2
  <1> QED
    BY <1>3, <1>4, <1>5, AccessTwice DEF s

LEMMA OnceThenRedirect == (Access \o <<>>) \o <<"redirect">> = <<"execute", "execute", "redirect">>
  <1>1. Access \o <<>> = Access
    BY ConcatEmptySeq DEF Access
  <1> QED
    BY <1>1, AccessThenRedirect

LEMMA LogoutProgram == Logout = <<"execute", "execute", "remove", "get", "relock", "yes">>
  <1> DEFINE s == Access \o <<"remove", "get", "relock", "yes">>
  <1>1. s \in Seq({"execute", "remove", "get", "relock", "yes"})
    BY ConcatProperties DEF Access
  <1>2. Len(s) = 6
    BY ConcatProperties DEF Access
  <1>3. s[1] = "execute" /\ s[2] = "execute" /\ s[3] = "remove"
    BY DEF Access
  <1>4. s[4] = "get" /\ s[5] = "relock" /\ s[6] = "yes"
    BY DEF Access
  <1> HIDE DEF s
  <1>5. s = <<s[1], s[2], s[3], s[4], s[5], s[6]>>
    BY <1>1, <1>2
  <1> QED
    BY <1>3, <1>4, <1>5 DEF s, Logout

\* For each family of programs: how one starts and what is left of it.
LEMMA LeavingSteps ==
    ASSUME NEW p \in Leaving
    PROVE  /\ p # <<>> /\ Head(p) \in {"execute", "remove"}
           /\ Head(p) = "execute" => Tail(p) \in Leaving
           /\ Head(p) = "remove" => Tail(p) \in Reporting
  <1>1. CASE p = Logout
    BY <1>1, LogoutProgram DEF Leaving
  <1>2. CASE p = <<"execute", "remove", "get", "relock", "yes">>
    BY <1>2 DEF Leaving
  <1>3. CASE p = <<"remove", "get", "relock", "yes">>
    BY <1>3 DEF Reporting
  <1> QED
    BY <1>1, <1>2, <1>3 DEF Leaving

LEMMA ReportingSteps ==
    ASSUME NEW p \in Reporting
    PROVE  /\ p # <<>> /\ Head(p) \in {"get", "relock", "yes"}
           /\ Head(p) = "yes" => Tail(p) = <<>>
           /\ Head(p) # "yes" => Tail(p) \in Reporting
  <1>1. CASE p = <<"get", "relock", "yes">>
    BY <1>1 DEF Reporting
  <1>2. CASE p = <<"relock", "yes">>
    BY <1>2 DEF Reporting
  <1>3. CASE p = <<"yes">>
    BY <1>3 DEF Reporting
  <1> QED
    BY <1>1, <1>2, <1>3 DEF Reporting

LEMMA GrantingSteps ==
    ASSUME NEW p \in Granting
    PROVE  /\ p # <<>> /\ Head(p) \in {"execute", "redirect"}
           /\ Head(p) = "execute" => Tail(p) \in Granting
  <1>1. CASE p = <<"execute", "execute", "execute", "execute", "redirect">>
    BY <1>1 DEF Granting
  <1>2. CASE p = <<"execute", "execute", "execute", "redirect">>
    BY <1>2 DEF Granting
  <1>3. CASE p = <<"execute", "execute", "redirect">>
    BY <1>3 DEF Granting
  <1>4. CASE p = <<"execute", "redirect">>
    BY <1>4 DEF Granting
  <1>5. CASE p = <<"redirect">>
    BY <1>5 DEF Granting
  <1> QED
    BY <1>1, <1>2, <1>3, <1>4, <1>5 DEF Granting

LEMMA AsksSteps ==
    ASSUME NEW p \in Asks
    PROVE  /\ p # <<>> /\ Head(p) \in {"register", "find", "get", "verdict"}
           /\ Head(p) # "verdict" => Tail(p) \in Asks
  <1>1. CASE p = Login
    BY <1>1 DEF Asks, Login
  <1>2. CASE p = <<"find", "get", "verdict">>
    BY <1>2 DEF Asks
  <1>3. CASE p = <<"get", "verdict">>
    BY <1>3 DEF Asks
  <1>4. CASE p = <<"verdict">>
    BY <1>4 DEF Asks
  <1> QED
    BY <1>1, <1>2, <1>3, <1>4 DEF Asks

LEMMA SimpleSteps ==
    ASSUME NEW p \in Simple, p # <<>>
    PROVE  /\ Head(p) \in {"logout", "reset", "disconnect", "status", "execute"}
           /\ Head(p) \in {"status", "execute"} => Tail(p) \in Simple
  <1>1. CASE p = Access
    BY <1>1 DEF Simple, Access
  <1>2. CASE p = <<"execute">>
    BY <1>2 DEF Simple
  <1>3. CASE p = <<"status">>
    BY <1>3 DEF Simple
  <1>4. CASE p = <<"logout">> \/ p = <<"reset">> \/ p = <<"disconnect">>
    BY <1>4 DEF Simple
  <1> QED
    BY <1>1, <1>2, <1>3, <1>4 DEF Simple

\* The families have no program in common.
LEMMA Apart ==
    /\ Leaving \cap (Reporting \cup Asks \cup Simple \cup Granting) = {}
    /\ Granting \cap (Reporting \cup Asks \cup Simple) = {}
    /\ Reporting \cap (Asks \cup Simple) = {}
  BY LogoutProgram DEF Leaving, Granting, Reporting, Asks, Simple, Login, Access

-----------------------------------------------------------------------------
(* Which actions can touch which part of the state.                        *)

\* What a worker can do that is not in its callback.
ServerAction(w) ==
    \/ ReadRequestLine(w) \/ CutOff(w) \/ SeeFirst(w) \/ Fill(w) \/ Decode(w)
    \/ FindDir(w) \/ NextDir(w) \/ AnswerAtOnce(w) \/ StartWork(w) \/ EndWork(w) \/ EndRequest(w)

\* Only these steps change the state of libhttpd and its workers.
LEMMA ServerActions ==
    ASSUME Next
    PROVE  \/ UNCHANGED serverVars
           \/ \E c \in Conns : Connects(c)
           \/ GetConnection(room)
           \/ \E w \in Slots : ServerAction(w)
           \/ main' = "exited" /\ UNCHANGED <<scenario, conn, queue, answer, worker, request,
                                             save, mixed, first>>
  BY DEF Next, Browser, Main, Listener, UserInterrupts, Kernel, Signal, Child, Exit, ForkFails,
         Ends, Worker, Wdctl, Handler, Heir, ServerAction

\* What a control handler can do that is not in its command.
ControlAction(h) ==
    \/ ReadCommand(h) \/ Dispatch(h) \/ Stop(h) \/ AnswerCommand(h) \/ CloseControl(h)
    \/ OpenInternal(h) \/ AcceptHeir(h) \/ HandOver(h) \/ CloseAgain(h)

\* Only these steps change the state of the control socket and its handlers.
LEMMA ControlActions ==
    ASSUME Next
    PROVE  \/ UNCHANGED controlVars
           \/ \E a \in Admins : Start(a, up) \/ SendRequest(a, up) \/ Finish(a, up) \/ Interrupted(a)
           \/ AcceptControl(room)
           \/ \E h \in Handlers : ControlAction(h)
  BY DEF Next, Browser, Main, Listener, UserInterrupts, Kernel, Signal, Child, Exit, ForkFails,
         Ends, Worker, Wdctl, Handler, Heir, ControlAction

\* Only these steps change what threads are in the middle of.
LEMMA WorkActions ==
    ASSUME Next
    PROVE  \/ UNCHANGED workVars
           \/ \E w \in Slots : /\ StartWork(w) \/ EndWork(w)
                               /\ UNCHANGED controlVars
           \/ \E h \in Handlers : /\ \/ Dispatch(h) \/ AcceptHeir(h)
                                     \/ HandOver(h) \/ AnswerCommand(h)
                                  /\ UNCHANGED serverVars
           \/ \E t \in Callers : CallStep(t) /\ UNCHANGED <<serverVars, controlVars>>
  BY ThreadsAssumption
     DEF Next, Browser, Main, Listener, UserInterrupts, Kernel, Signal, Child, Exit, ForkFails,
         Ends, Worker, Wdctl, Handler, Heir, AnswerAtOnce

-----------------------------------------------------------------------------
(* The requests.                                                           *)

\* Where a worker can be.
Decoding == {"decode", "fill", "filling", "decoding"}
Working == {"status", "disconnect", "auth", "host"}
Places == {"free", "read", "process", "dir", "end"} \cup Decoding \cup Working

\* The fields of a request.
Fields == {"sock", "lines", "path", "variables", "auth", "host", "curItem", "curDir"}

\* The credentials among the lines of a script, and their halves.
Credentials(lines) == {lines[i].auth : i \in {j \in DOMAIN lines : lines[j].kind = "basic"}}
Names(lines) == {auth[1] : auth \in Credentials(lines)}
Passwords(lines) == {auth[2] : auth \in {b \in Credentials(lines) : Len(b) = 2}}

\* Each half of the credentials of a request was sent on its connection, or nothing was, or
\* it comes from a table that was being filled.
SentHalves(lines, auth) ==
    /\ auth[1] \in Names(lines) \cup {NoCredentials[1], "garbage"}
    /\ auth[2] \in Passwords(lines) \cup {NoCredentials[2], "garbage"}
OwnCredentials(scripts, r) ==
    r.auth = NoCredentials \/ (r.sock # NULL /\ SentHalves(scripts[r.sock], r.auth))

\* What a request holds has been read from its own connection.
Rightful(scripts, place, r) ==
    /\ DOMAIN r = Fields /\ r.lines \in Nat
    /\ r.sock # NULL => r.sock \in DOMAIN scripts
    /\ r.path # <<>> => /\ r.sock # NULL /\ 1 \in DOMAIN scripts[r.sock]
                        /\ scripts[r.sock][1].kind = "get"
                        /\ r.path = SanitiseUrl(scripts[r.sock][1].path)
    /\ place \in Decoding => /\ r.sock # NULL /\ r.lines \in DOMAIN scripts[r.sock]
                             /\ scripts[r.sock][r.lines].kind = "basic"
    /\ place \in Working \cup {"dir"} => r.path # <<>>
    /\ OwnCredentials(scripts, r)
    /\ place = "free" => r.sock = NULL

\* Each worker has a request of its connection, and is where that request can be.
RequestsOK ==
    /\ scenario \in Scenarios
    /\ worker \in [Slots -> Places] /\ DOMAIN request = Slots
    /\ \A w \in Slots : Rightful(scenario.scripts, worker[w], request[w])

\* A step of one worker that keeps to the scenario.
LEMMA OneRequest ==
    ASSUME RequestsOK, NEW w \in Slots, NEW place \in Places, NEW r,
           worker' = [worker EXCEPT ![w] = place], DOMAIN request' = Slots, request'[w] = r,
           \A v \in Slots : v # w => request'[v] = request[v],
           scenario' = scenario, Rightful(scenario.scripts, place, r)
    PROVE  RequestsOK'
  BY DEF RequestsOK

\* One lemma per way in which a request changes.
LEMMA SamePlaceRequest ==
    ASSUME RequestsOK, NEW w \in Slots, NEW r,
           UNCHANGED worker, DOMAIN request' = Slots, request'[w] = r,
           \A v \in Slots : v # w => request'[v] = request[v],
           scenario' = scenario, Rightful(scenario.scripts, worker[w], r)
    PROVE  RequestsOK'
  BY DEF RequestsOK

\* A worker that goes on with the request as it is.
LEMMA SameRequest ==
    ASSUME RequestsOK, NEW w \in Slots, NEW place \in Places,
           Goto(w, place), UNCHANGED <<request, scenario>>,
           Rightful(scenario.scripts, place, request[w])
    PROVE  RequestsOK'
  BY DEF RequestsOK, Goto

LEMMA ReadLineRequest ==
    ASSUME RequestsOK, NEW w \in Slots, ReadRequestLine(w)
    PROVE  RequestsOK'
  <1> DEFINE r == request[w]
             lines == script[r.sock]
             l == lines[r.lines + 1]
  <1> DEFINE Read(q) == request' = [request EXCEPT ![w] = [q EXCEPT !.lines = @ + 1]]
  <1>1. /\ worker[w] = "read" /\ r.sock # NULL /\ r.lines < Len(lines) /\ UNCHANGED scenario
    BY DEF ReadRequestLine, WorkerAt
  <1>2. Rightful(scenario.scripts, "read", r) /\ scenario \in Scenarios /\ DOMAIN request = Slots
    BY <1>1 DEF RequestsOK
  <1>3. r.lines + 1 \in DOMAIN lines /\ r.lines + 1 \in Nat /\ r.lines \in Nat
    BY <1>1, <1>2, ScenariosAssumption DEF Rightful, script
  <1>4. CASE r.lines = 0 /\ l.kind # "get" /\ Read(r) /\ Goto(w, "end")
    <2> DEFINE q == [r EXCEPT !.lines = @ + 1]
    <2>1. Rightful(scenario.scripts, "end", q)
      BY <1>2, <1>3 DEF Rightful, OwnCredentials, Fields, Decoding, Working
    <2> QED
      BY <2>1, <1>1, <1>2, <1>4, OneRequest DEF Goto, Places
  <1>5. CASE /\ r.lines = 0 /\ l.kind = "get" /\ UNCHANGED worker
             /\ Read([r EXCEPT !.path = SanitiseUrl(l.path), !.variables = StoreData(l.query)])
    <2> DEFINE q == [[r EXCEPT !.path = SanitiseUrl(l.path), !.variables = StoreData(l.query)]
                     EXCEPT !.lines = @ + 1]
    <2>1. Rightful(scenario.scripts, "read", q)
      BY <1>1, <1>2, <1>3, <1>5 DEF Rightful, OwnCredentials, Fields, Decoding, Working, script
    <2> QED
      BY <2>1, <1>1, <1>2, <1>5, SamePlaceRequest
  <1>6. CASE r.lines > 0 /\ l.kind = "basic" /\ Read(r) /\ Goto(w, "decode")
    <2> DEFINE q == [r EXCEPT !.lines = @ + 1]
    <2>1. Rightful(scenario.scripts, "decode", q)
      BY <1>1, <1>2, <1>3, <1>6 DEF Rightful, OwnCredentials, Fields, Decoding, Working, script
    <2> QED
      BY <2>1, <1>1, <1>2, <1>6, OneRequest DEF Goto, Places, Decoding
  <1>7. CASE r.lines > 0 /\ Read([r EXCEPT !.host = l.host]) /\ UNCHANGED worker
    <2> DEFINE q == [[r EXCEPT !.host = l.host] EXCEPT !.lines = @ + 1]
    <2>1. Rightful(scenario.scripts, "read", q)
      BY <1>2, <1>3 DEF Rightful, OwnCredentials, Fields, Decoding, Working
    <2> QED
      BY <2>1, <1>1, <1>2, <1>7, SamePlaceRequest
  <1>8. CASE Read(r) /\ Goto(w, "process")
    <2> DEFINE q == [r EXCEPT !.lines = @ + 1]
    <2>1. Rightful(scenario.scripts, "process", q)
      BY <1>2, <1>3 DEF Rightful, OwnCredentials, Fields, Decoding, Working
    <2> QED
      BY <2>1, <1>1, <1>2, <1>8, OneRequest DEF Goto, Places
  <1>9. CASE Read(r) /\ UNCHANGED worker
    <2> DEFINE q == [r EXCEPT !.lines = @ + 1]
    <2>1. Rightful(scenario.scripts, "read", q)
      BY <1>2, <1>3 DEF Rightful, OwnCredentials, Fields, Decoding, Working
    <2> QED
      BY <2>1, <1>1, <1>2, <1>9, SamePlaceRequest
  <1> QED
    BY <1>4, <1>5, <1>6, <1>7, <1>8, <1>9 DEF ReadRequestLine

\* What a header sets: a half was sent with it, before it, or is garbage.
LEMMA SetSent ==
    ASSUME NEW lines, NEW auth, auth = NoCredentials \/ SentHalves(lines, auth),
           NEW decoded, decoded \in Credentials(lines) \cup Garbage, Len(decoded) \in {1, 2}
    PROVE  SentHalves(lines, SetCredentials(auth, decoded))
  <1> DEFINE one == decoded[1]
             two == IF Len(decoded) = 1 THEN auth[2] ELSE decoded[2]
  <1>1. SetCredentials(auth, decoded) = <<one, two>>
    BY DEF SetCredentials
  <1>2. one \in Names(lines) \cup {"garbage"}
    BY DEF Names, Garbage
  <1>3. auth[2] \in Passwords(lines) \cup {NoCredentials[2], "garbage"}
    BY DEF SentHalves
  <1>4. Len(decoded) = 2 => decoded[2] \in Passwords(lines) \cup {"garbage"}
    BY DEF Passwords, Garbage
  <1>5. two \in Passwords(lines) \cup {NoCredentials[2], "garbage"}
    BY <1>3, <1>4
  <1> HIDE DEF one, two
  <1> QED
    BY <1>1, <1>2, <1>5 DEF SentHalves

LEMMA DecodeRequest ==
    ASSUME RequestsOK, NEW w \in Slots, Decode(w)
    PROVE  RequestsOK'
  <1> DEFINE r == request[w]
             header == script[r.sock][r.lines].auth
  <1>1. worker[w] = "decoding" /\ Goto(w, "read") /\ UNCHANGED scenario
    BY DEF Decode, WorkerAt
  <1>2. Rightful(scenario.scripts, "decoding", r) /\ DOMAIN request = Slots
    BY <1>1 DEF RequestsOK
  <1>3. PICK decoded \in {header} \cup Garbage :
             request' = [request EXCEPT ![w].auth = SetCredentials(r.auth, decoded)]
    BY <1>2 DEF Decode
  <1>4. r.sock # NULL /\ header \in Credentials(scenario.scripts[r.sock]) /\ Len(header) \in {1, 2}
    BY <1>2, ScenariosAssumption DEF Rightful, Credentials, Decoding, script, RequestsOK
  <1>5. Len(decoded) \in {1, 2}
    BY <1>3, <1>4 DEF Garbage
  <1> DEFINE new == SetCredentials(r.auth, decoded)
             q == [r EXCEPT !.auth = new]
  <1>6. SentHalves(scenario.scripts[r.sock], new)
    <2>1. r.auth = NoCredentials \/ SentHalves(scenario.scripts[r.sock], r.auth)
      BY <1>2 DEF Rightful, OwnCredentials
    <2> HIDE DEF header
    <2> QED
      BY <2>1, <1>3, <1>4, <1>5, SetSent
  <1> HIDE DEF new
  <1>7. DOMAIN r = Fields
    BY <1>2 DEF Rightful
  <1>8. q.auth = new /\ \A f \in Fields \ {"auth"} : q[f] = r[f]
    BY <1>7 DEF Fields
  <1>9. OwnCredentials(scenario.scripts, q)
    BY <1>4, <1>6, <1>8 DEF OwnCredentials, Fields
  <1>10. Rightful(scenario.scripts, "read", q)
    BY <1>2, <1>7, <1>8, <1>9 DEF Rightful, Fields, Decoding, Working
  <1>11. request' = [request EXCEPT ![w] = q]
    BY <1>2, <1>3 DEF new
  <1> HIDE DEF q
  <1> QED
    BY <1>1, <1>2, <1>10, <1>11, OneRequest DEF Goto, Places

LEMMA DirRequest ==
    ASSUME RequestsOK, NEW w \in Slots, FindDir(w) \/ NextDir(w)
    PROVE  RequestsOK'
  <1> DEFINE r == request[w]
  <1>1. Rightful(scenario.scripts, worker[w], r) /\ DOMAIN request = Slots /\ UNCHANGED scenario
    BY DEF RequestsOK, FindDir, NextDir
  <1>2. CASE Goto(w, "end") /\ UNCHANGED request
    <2>1. Rightful(scenario.scripts, "end", r)
      BY <1>1 DEF Rightful, Decoding, Working
    <2> QED
      BY <2>1, <1>1, <1>2, SameRequest DEF Places
  <1>3. ASSUME r.path # <<>>, Goto(w, "dir"), NEW item, NEW dir,
               request' = [request EXCEPT ![w].curItem = item, ![w].curDir = dir]
        PROVE  RequestsOK'
    <2> DEFINE q == [r EXCEPT !.curItem = item, !.curDir = dir]
    <2>1. Rightful(scenario.scripts, "dir", q)
      BY <1>1, <1>3 DEF Rightful, OwnCredentials, Fields, Decoding, Working
    <2> QED
      BY <2>1, <1>1, <1>3, OneRequest DEF Goto, Places
  <1>4. ASSUME worker[w] = "dir", UNCHANGED worker, NEW item, NEW dir,
               request' = [request EXCEPT ![w].curItem = item, ![w].curDir = dir]
        PROVE  RequestsOK'
    <2> DEFINE q == [r EXCEPT !.curItem = item, !.curDir = dir]
    <2>1. Rightful(scenario.scripts, "dir", q)
      BY <1>1, <1>4 DEF Rightful, OwnCredentials, Fields, Decoding, Working
    <2>2. DOMAIN request' = Slots /\ request'[w] = q /\ \A v \in Slots : v # w => request'[v] = request[v]
      BY <1>1, <1>4
    <2>3. Rightful(scenario.scripts, worker[w], q)
      BY <2>1, <1>4
    <2> HIDE DEF q
    <2> QED
      BY <2>2, <2>3, <1>1, <1>4, SamePlaceRequest
  <1>5. CASE FindDir(w)
    BY <1>2, <1>3, <1>5 DEF FindDir
  <1>6. CASE NextDir(w)
    BY <1>4, <1>6 DEF NextDir, WorkerAt
  <1> QED
    BY <1>5, <1>6

LEMMA EndedRequest ==
    ASSUME RequestsOK, NEW w \in Slots, EndRequest(w)
    PROVE  RequestsOK'
  <1>1. Rightful(scenario.scripts, "free", Blank)
    BY DEF Rightful, Blank, Fields, Decoding, Working, OwnCredentials
  <1> QED
    BY <1>1, OneRequest DEF EndRequest, Goto, Places, RequestsOK

\* The connections that wait are in the queue once, the ones a worker serves
\* are open and served by it alone.
ConnStates == {"away", "queued", "open", "closed"}
\* The queue of the listening socket has each connection once.
QueueOK ==
    /\ conn \in [Conns -> ConnStates] /\ queue \in Seq(Conns)
    /\ \A i \in 1 .. Len(queue) :
         /\ queue[i] \in DOMAIN scenario.scripts /\ conn[queue[i]] = "queued"
         /\ \A j \in 1 .. Len(queue) : i # j => queue[i] # queue[j]
\* Two workers never serve one connection, and the one served is open.
ServedOK ==
    \A w \in Slots : request[w].sock # NULL =>
        /\ conn[request[w].sock] = "open"
        /\ \A v \in Slots : v # w => request[v].sock # request[w].sock

\* What httpdGetConnection gives to a worker.
LEMMA AcceptRequest ==
    ASSUME RequestsOK, QueueOK, GetConnection(room)
    PROVE  RequestsOK'
  <1>1. CASE UNCHANGED <<worker, request>>
    BY <1>1 DEF RequestsOK, GetConnection
  <1>2. ASSUME NEW w \in Slots, Goto(w, "read"), NEW c \in DOMAIN scenario.scripts \cup {NULL},
               request' = [request EXCEPT ![w] = [Blank EXCEPT !.sock = c]]
        PROVE  RequestsOK'
    <2> DEFINE q == [Blank EXCEPT !.sock = c]
    <2>1. Rightful(scenario.scripts, "read", q)
      BY DEF Rightful, Blank, Fields, Decoding, Working, OwnCredentials
    <2> QED
      BY <2>1, <1>2, OneRequest DEF GetConnection, Goto, Places, RequestsOK
  <1>3. queue # <<>> => Socket \in DOMAIN scenario.scripts \cup {NULL}
    BY DEF QueueOK, Socket
  <1> QED
    BY <1>1, <1>2, <1>3 DEF GetConnection, FreeSlots

\* A step of a worker keeps its own request in order.
LEMMA PlaceRequest ==
    ASSUME RequestsOK, NEW w \in Slots,
           CutOff(w) \/ SeeFirst(w) \/ Fill(w) \/ AnswerAtOnce(w) \/ StartWork(w) \/ EndWork(w)
    PROVE  RequestsOK'
  <1>1. Rightful(scenario.scripts, worker[w], request[w])
    BY DEF RequestsOK
  <1>2. UNCHANGED <<request, scenario>>
    BY DEF CutOff, SeeFirst, Fill, AnswerAtOnce, StartWork, EndWork
  <1>3. CASE Goto(w, "process") \/ Goto(w, "end")
    <2>1. Rightful(scenario.scripts, "process", request[w]) /\ Rightful(scenario.scripts, "end", request[w])
      BY <1>1 DEF Rightful, Decoding, Working
    <2> QED
      BY <2>1, <1>2, <1>3, SameRequest DEF Places
  <1>4. ASSUME worker[w] \in Decoding, NEW place \in Decoding, Goto(w, place)
        PROVE  RequestsOK'
    <2>1. Rightful(scenario.scripts, place, request[w])
      BY <1>1, <1>4 DEF Rightful, Decoding, Working
    <2> QED
      BY <2>1, <1>2, <1>4, SameRequest DEF Places
  <1>5. ASSUME worker[w] = "dir", NEW place \in Working, Goto(w, place)
        PROVE  RequestsOK'
    <2>1. Rightful(scenario.scripts, place, request[w])
      BY <1>1, <1>5 DEF Rightful, Decoding, Working
    <2> QED
      BY <2>1, <1>2, <1>5, SameRequest DEF Places
  <1>6. CASE CutOff(w) \/ AnswerAtOnce(w) \/ EndWork(w)
    BY <1>3, <1>6 DEF CutOff, AnswerAtOnce, EndWork
  <1>7. CASE SeeFirst(w) \/ Fill(w)
    BY <1>4, <1>7 DEF SeeFirst, Fill, WorkerAt, Decoding
  <1>8. CASE StartWork(w)
    BY <1>5, <1>8 DEF StartWork, WorkerAt, Working
  <1> QED
    BY <1>6, <1>7, <1>8

\* Every step keeps the requests in order.
LEMMA RequestsStep ==
    ASSUME RequestsOK, QueueOK, Next
    PROVE  RequestsOK'
  <1>1. CASE UNCHANGED <<scenario, worker, request>>
    BY <1>1 DEF RequestsOK
  <1>2. ASSUME NEW c \in Conns, Connects(c)
        PROVE  RequestsOK'
    BY <1>1, <1>2 DEF Connects
  <1>3. ASSUME NEW w \in Slots, ServerAction(w)
        PROVE  RequestsOK'
    BY <1>3, ReadLineRequest, DecodeRequest, DirRequest, EndedRequest, PlaceRequest DEF ServerAction
  <1> QED
    BY <1>1, <1>2, <1>3, ServerActions, AcceptRequest DEF serverVars

\* Requests keep their connections to the end.
LEMMA SocksKept ==
    ASSUME RequestsOK, NEW w \in Slots, ServerAction(w), ~EndRequest(w)
    PROVE  \A v \in Slots : request'[v].sock = request[v].sock
  <1>1. DOMAIN request = Slots /\ \A v \in Slots : DOMAIN request[v] = Fields
    BY DEF RequestsOK, Rightful
  <1>2. CASE UNCHANGED request
    BY <1>2
  <1>3. CASE ReadRequestLine(w)
    <2> DEFINE r == request[w]
               l == script[r.sock][r.lines + 1]
               asked == [r EXCEPT !.path = SanitiseUrl(l.path), !.variables = StoreData(l.query)]
               named == [r EXCEPT !.host = l.host]
    <2>1. PICK q \in {r, asked, named} : request' = [request EXCEPT ![w] = [q EXCEPT !.lines = @ + 1]]
      BY <1>3 DEF ReadRequestLine
    <2>2. DOMAIN q = Fields /\ q.sock = r.sock
      BY <1>1, <2>1 DEF Fields
    <2> HIDE DEF asked, named
    <2> QED
      BY <1>1, <2>1, <2>2, SMTT(30) DEF Fields
  <1>4. CASE Decode(w) \/ FindDir(w) \/ NextDir(w)
    BY <1>1, <1>4 DEF Decode, FindDir, NextDir, Fields
  <1> QED
    BY <1>2, <1>3, <1>4
       DEF ServerAction, CutOff, SeeFirst, Fill, AnswerAtOnce, StartWork, EndWork

\* Every step keeps the queue, and a connection to one worker.
LEMMA QueueStep ==
    ASSUME RequestsOK, QueueOK, ServedOK, Next
    PROVE  QueueOK' /\ ServedOK'
  <1>1. CASE UNCHANGED <<scenario, conn, queue>> /\ \A w \in Slots : request'[w].sock = request[w].sock
    BY <1>1 DEF QueueOK, ServedOK
  <1>2. ASSUME NEW c \in Conns, Connects(c)
        PROVE  QueueOK' /\ ServedOK'
    <2>1. /\ conn[c] = "away" /\ conn' = [conn EXCEPT ![c] = "queued"] /\ queue' = Append(queue, c)
          /\ UNCHANGED <<scenario, request>> /\ c \in DOMAIN scenario.scripts
      BY <1>2 DEF Connects, script
    <2>2. QueueOK'
      <3>1. /\ Len(queue') = Len(queue) + 1 /\ Len(queue) \in Nat /\ queue' \in Seq(Conns)
            /\ queue'[Len(queue) + 1] = c
            /\ \A i \in 1 .. Len(queue) : queue'[i] = queue[i]
        BY <2>1 DEF QueueOK
      <3>2. \A i \in 1 .. Len(queue) : queue[i] # c /\ conn[queue[i]] = "queued"
        BY <2>1 DEF QueueOK
      <3> QED
        BY <2>1, <3>1, <3>2 DEF QueueOK, ConnStates
    <2>3. ServedOK'
      BY <2>1 DEF ServedOK, QueueOK
    <2> QED
      BY <2>2, <2>3
  <1>3. ASSUME GetConnection(room)
        PROVE  QueueOK' /\ ServedOK'
    <2>1. CASE UNCHANGED <<conn, queue, request>>
      BY <1>1, <1>3, <2>1 DEF GetConnection
    <2>2. ASSUME NEW w \in Slots, worker[w] = "free", UNCHANGED <<conn, queue>>,
                 request' = [request EXCEPT ![w] = [Blank EXCEPT !.sock = NULL]]
          PROVE  QueueOK' /\ ServedOK'
      <3>1. \A v \in Slots : request'[v].sock = request[v].sock
        BY <2>2 DEF RequestsOK, Rightful, Blank
      <3> QED
        BY <3>1, <2>2, <1>1, <1>3 DEF GetConnection
    <2>3. ASSUME queue # <<>>, queue' = Tail(queue), conn' = [conn EXCEPT ![Head(queue)] = "open"],
                 \/ UNCHANGED request
                 \/ \E w \in Slots : request' = [request EXCEPT ![w] = [Blank EXCEPT !.sock = Head(queue)]]
          PROVE  QueueOK' /\ ServedOK'
      <3> DEFINE c == Head(queue)
      <3>1. c = queue[1] /\ c \in Conns /\ conn[c] = "queued" /\ c # NULL
        BY <2>3, ConnectionsAssumption DEF QueueOK
      <3>2. /\ Len(queue') = Len(queue) - 1 /\ Len(queue) \in Nat /\ queue' \in Seq(Conns)
            /\ \A i \in 1 .. Len(queue') : i + 1 \in 1 .. Len(queue) /\ queue'[i] = queue[i + 1]
        BY <2>3 DEF QueueOK
      <3>3. UNCHANGED scenario
        BY <1>3 DEF GetConnection
      <3>4. QueueOK'
        <4>1. conn' \in [Conns -> ConnStates]
          BY <2>3, <3>1 DEF QueueOK, ConnStates
        <4>2. ASSUME NEW i \in 1 .. Len(queue')
              PROVE  /\ queue'[i] \in DOMAIN scenario'.scripts /\ conn'[queue'[i]] = "queued"
                     /\ \A j \in 1 .. Len(queue') : i # j => queue'[i] # queue'[j]
          <5>1. queue[i + 1] # c /\ queue[i + 1] \in Conns /\ queue[i + 1] \in DOMAIN scenario.scripts
            BY <3>1, <3>2 DEF QueueOK
          <5>2. conn'[queue'[i]] = conn[queue[i + 1]] /\ conn[queue[i + 1]] = "queued"
            BY <2>3, <3>1, <3>2, <5>1 DEF QueueOK
          <5>3. \A j \in 1 .. Len(queue') : i # j => queue'[i] # queue'[j]
            BY <3>2 DEF QueueOK
          <5> QED
            BY <3>2, <3>3, <5>1, <5>2, <5>3
        <4> QED
          BY <3>2, <4>1, <4>2 DEF QueueOK
      <3>5. ServedOK'
        <4>1. \/ UNCHANGED request
              \/ \E w \in Slots : request'[w].sock = c /\ \A v \in Slots : v # w => request'[v] = request[v]
          <5>1. ASSUME NEW w \in Slots, request' = [request EXCEPT ![w] = [Blank EXCEPT !.sock = c]]
                PROVE  request'[w].sock = c /\ \A v \in Slots : v # w => request'[v] = request[v]
            BY <5>1 DEF Blank, RequestsOK
          <5> QED
            BY <2>3, <5>1
        <4>2. \A v \in Slots : request[v].sock # c
          BY <3>1 DEF ServedOK
        <4>3. conn'[c] = "open" /\ \A d : d \in Conns /\ d # c => conn'[d] = conn[d]
          BY <2>3, <3>1 DEF QueueOK
        <4>4. \A v \in Slots : request[v].sock # NULL => request[v].sock \in Conns
          BY ScenariosAssumption DEF RequestsOK, Rightful
        <4> QED
          BY <4>1, <4>2, <4>3, <4>4 DEF ServedOK
      <3> QED
        BY <3>4, <3>5
    <2>4. CASE fds < MaxFds
      <3>1. /\ queue # <<>> /\ queue' = Tail(queue) /\ conn' = [conn EXCEPT ![Head(queue)] = "open"]
            /\ Socket = Head(queue)
        BY <1>3, <2>4, ConnectionsAssumption DEF GetConnection, GetSocket, Socket
      <3> QED
        BY <1>3, <2>3, <3>1 DEF GetConnection, FreeSlots
    <2>5. CASE ~ (fds < MaxFds)
      <3>1. UNCHANGED <<conn, queue>> /\ Socket = NULL
        BY <1>3, <2>5 DEF GetConnection, GetSocket, Socket
      <3> QED
        BY <1>3, <2>1, <2>2, <3>1 DEF GetConnection, FreeSlots
    <2> QED
      BY <2>4, <2>5
  <1>4. ASSUME NEW w \in Slots, EndRequest(w)
        PROVE  QueueOK' /\ ServedOK'
    <2>1. /\ request' = [request EXCEPT ![w] = Blank] /\ UNCHANGED <<scenario, queue>>
          /\ DOMAIN request = Slots /\ Blank.sock = NULL
      BY <1>4 DEF EndRequest, RequestsOK, Blank
    <2>2. CASE request[w].sock = NULL
      <3>1. UNCHANGED conn
        BY <1>4, <2>2 DEF EndRequest
      <3> QED
        BY <1>1, <2>1, <2>2, <3>1
    <2>3. CASE request[w].sock # NULL
      <3> DEFINE c == request[w].sock
      <3>1. c \in Conns /\ conn[c] = "open"
        BY <2>3, ScenariosAssumption DEF RequestsOK, Rightful, ServedOK
      <3>2. conn' = [conn EXCEPT ![c] = "closed"]
        BY <1>4, <2>3 DEF EndRequest
      <3>3. QueueOK'
        BY <2>1, <3>1, <3>2 DEF QueueOK, ConnStates
      <3>4. ASSUME NEW v \in Slots, request'[v].sock # NULL
            PROVE  /\ v # w /\ request'[v] = request[v] /\ request[v].sock \in Conns
                   /\ request[v].sock # c /\ conn'[request[v].sock] = "open"
        BY <2>1, <2>3, <3>1, <3>2, <3>4, ScenariosAssumption
           DEF RequestsOK, Rightful, ServedOK, QueueOK
      <3>5. ServedOK'
        BY <3>4, <2>1 DEF ServedOK
      <3> QED
        BY <3>3, <3>5
    <2> QED
      BY <2>2, <2>3
  <1>5. ASSUME NEW w \in Slots, ServerAction(w), ~EndRequest(w)
        PROVE  QueueOK' /\ ServedOK'
    <2>1. UNCHANGED <<scenario, conn, queue>>
      BY <1>5 DEF ServerAction, ReadRequestLine, CutOff, SeeFirst, Fill, Decode, FindDir, NextDir,
                  AnswerAtOnce, StartWork, EndWork
    <2>2. \A v \in Slots : request'[v].sock = request[v].sock
      BY <1>5, SocksKept
    <2> QED
      BY <1>1, <2>1, <2>2
  <1> QED
    BY <1>1, <1>2, <1>3, <1>4, <1>5, ServerActions DEF serverVars

-----------------------------------------------------------------------------
(* The commands.                                                           *)

\* What wdctl sends, and where a handler can be.
Pieces == {"text", "line", "flood"}
HandlerPlaces ==
    {"free", "read", "command", "work", "stop", "restart", "accept", "send", "twice", "close"}
\* The types of the control socket, and one connection per handler.
ControlOK ==
    /\ scenario \in Scenarios /\ command = scenario.commands
    /\ sent \in [Admins -> Seq(Pieces)] /\ wire \in [Admins -> Seq(Pieces)]
    /\ waiting \in Seq(DOMAIN command)
    /\ handler \in [Handlers -> HandlerPlaces] /\ DOMAIN serves = Handlers
    /\ \A h \in Handlers : handler[h] # "free" => serves[h] \in DOMAIN command
    /\ DOMAIN told = Admins

\* What was chosen at the start stays.
LEMMA SameScenario ==
    ASSUME Next
    PROVE  UNCHANGED scenario
  BY ServerActions, ZenonT(60)
     DEF serverVars, Connects, GetConnection, ServerAction, ReadRequestLine, CutOff, SeeFirst, Fill,
         Decode, FindDir, NextDir, AnswerAtOnce, StartWork, EndWork, EndRequest

\* A handler that goes on with the same wdctl.
LEMMA OneHandler ==
    ASSUME ControlOK, NEW h \in Handlers, NEW place \in HandlerPlaces, handler[h] # "free",
           handler' = [handler EXCEPT ![h] = place], DOMAIN told' = Admins,
           UNCHANGED <<scenario, command, sent, wire, waiting, serves>>
    PROVE  ControlOK'
  BY DEF ControlOK

\* Every step keeps the control socket in order.
LEMMA ControlStep ==
    ASSUME ControlOK, Next
    PROVE  ControlOK'
  <1> USE SameScenario
  <1>1. CASE UNCHANGED <<command, sent, wire, waiting, handler, serves, told>>
    BY <1>1 DEF ControlOK
  <1>2. ASSUME NEW a \in Admins, Start(a, up)
        PROVE  ControlOK'
    <2>1. CASE UNCHANGED waiting
      BY <1>1, <1>2, <2>1 DEF Start
    <2>2. CASE waiting' = Append(waiting, a)
      BY <1>2, <2>2 DEF Start, ControlOK
    <2> QED
      BY <1>2, <2>1, <2>2 DEF Start
  <1>3. ASSUME NEW a \in Admins, SendRequest(a, up)
        PROVE  ControlOK'
    <2>1. CASE UNCHANGED <<wire, sent>>
      BY <1>1, <1>3, <2>1 DEF SendRequest
    <2>2. CASE /\ sent[a] # <<>>
               /\ wire' = [wire EXCEPT ![a] = Append(@, Head(sent[a]))]
               /\ sent' = [sent EXCEPT ![a] = Tail(@)]
      <3>1. Head(sent[a]) \in Pieces /\ Tail(sent[a]) \in Seq(Pieces) /\ wire[a] \in Seq(Pieces)
        BY <2>2 DEF ControlOK
      <3>2. Append(wire[a], Head(sent[a])) \in Seq(Pieces)
        BY <3>1
      <3> QED
        BY <1>3, <2>2, <3>1, <3>2 DEF SendRequest, ControlOK
    <2> QED
      BY <1>3, <2>1, <2>2 DEF SendRequest
  <1>4. ASSUME NEW a \in Admins, Finish(a, up) \/ Interrupted(a)
        PROVE  ControlOK'
    BY <1>1, <1>4 DEF Finish, Interrupted
  <1>5. ASSUME AcceptControl(room)
        PROVE  ControlOK'
    <2>1. CASE UNCHANGED <<handler, serves>> /\ waiting' = Tail(waiting)
      BY <1>5, <2>1 DEF AcceptControl, ControlOK
    <2>2. ASSUME NEW h \in Handlers, handler' = [handler EXCEPT ![h] = "read"],
                 serves' = [serves EXCEPT ![h] = Head(waiting)], waiting' = Tail(waiting)
          PROVE  ControlOK'
      <3>1. Head(waiting) \in DOMAIN command /\ waiting' \in Seq(DOMAIN command)
        BY <1>5, <2>2 DEF AcceptControl, ControlOK
      <3> QED
        BY <1>5, <2>2, <3>1 DEF AcceptControl, ControlOK, HandlerPlaces
    <2> QED
      BY <1>5, <2>1, <2>2 DEF AcceptControl, FreeHandlers
  <1>6. ASSUME NEW h \in Handlers, ReadCommand(h)
        PROVE  ControlOK'
    <2> DEFINE a == serves[h]
    <2>1. a \in Admins /\ wire[a] \in Seq(Pieces) /\ wire[a] # <<>>
      BY <1>6, ScenariosAssumption DEF ReadCommand, ControlOK
    <2>2. Head(wire[a]) \in Pieces /\ Tail(wire[a]) \in Seq(Pieces)
      BY <2>1
    <2>3. AfterPiece(Head(wire[a])) \in HandlerPlaces
      BY <2>2 DEF AfterPiece, Pieces, HandlerPlaces
    <2>4. /\ handler[h] = "read" /\ handler' = [handler EXCEPT ![h] = AfterPiece(Head(wire[a]))]
          /\ wire' = [wire EXCEPT ![a] = Tail(@)]
          /\ UNCHANGED <<command, sent, waiting, serves, told>>
      BY <1>6 DEF ReadCommand
    <2> HIDE DEF a
    <2> QED
      BY <2>1, <2>2, <2>3, <2>4 DEF ControlOK
  <1>7. ASSUME NEW h \in Handlers, Dispatch(h)
        PROVE  ControlOK'
    BY <1>7, OneHandler DEF Dispatch, ControlOK, HandlerPlaces
  <1>8. ASSUME NEW h \in Handlers,
               Stop(h) \/ OpenInternal(h) \/ AcceptHeir(h) \/ HandOver(h) \/ CloseAgain(h)
        PROVE  ControlOK'
    <2>1. CASE Stop(h) \/ OpenInternal(h)
      BY <2>1, OneHandler DEF Stop, OpenInternal, ControlOK, HandlerPlaces
    <2>2. CASE AcceptHeir(h)
      BY <2>2, OneHandler DEF AcceptHeir, ControlOK, HandlerPlaces
    <2>3. CASE HandOver(h) \/ CloseAgain(h)
      BY <2>3, OneHandler DEF HandOver, CloseAgain, ControlOK, HandlerPlaces
    <2> QED
      BY <1>8, <2>1, <2>2, <2>3
  <1>9. ASSUME NEW h \in Handlers, AnswerCommand(h)
        PROVE  ControlOK'
    <2>1. DOMAIN told' = Admins
      BY <1>9 DEF AnswerCommand, ControlOK
    <2> QED
      BY <2>1, <1>9, OneHandler DEF AnswerCommand, HandlerPlaces
  <1>10. ASSUME NEW h \in Handlers, CloseControl(h)
        PROVE  ControlOK'
    BY <1>10, OneHandler DEF CloseControl, ControlOK, HandlerPlaces
  <1> QED
    BY <1>1, <1>2, <1>3, <1>4, <1>5, <1>6, <1>7, <1>8, <1>9, <1>10, ControlActions
       DEF controlVars, ControlAction

\* Only a listener that terminates has left a connection, and only a restart that is handed
\* over closes one twice.
LapsesOK ==
    /\ unserved # NULL => stopping = "listener"
    /\ \A h \in Handlers : handler[h] = "twice" => doubled

\* Every step keeps it so.
LEMMA LapsesStep ==
    ASSUME ControlOK, LapsesOK, Next
    PROVE  LapsesOK' /\ (doubled => doubled')
  <1> DEFINE Goal == LapsesOK' /\ (doubled => doubled')
  <1>1. CASE UNCHANGED <<stopping, handler, lapses>>
    BY <1>1 DEF lapses, LapsesOK
  <1>2. ASSUME NEW h \in Handlers, NEW place, place # "twice", handler' = [handler EXCEPT ![h] = place],
               UNCHANGED lapses, UNCHANGED stopping \/ Kill
        PROVE  Goal
    BY <1>2 DEF lapses, LapsesOK, Kill, ControlOK, NULL
  <1>3. CASE AcceptControl(room)
    <2>1. CASE UNCHANGED <<stopping, unserved>>
      <3>1. UNCHANGED lapses
        BY <1>3, <2>1 DEF AcceptControl, lapses
      <3> QED
        BY <1>1, <1>2, <1>3, <2>1, <3>1 DEF AcceptControl, FreeHandlers
    <2>2. CASE stopping' = "listener" /\ UNCHANGED handler
      BY <1>3, <2>2 DEF AcceptControl, LapsesOK
    <2> QED
      BY <1>3, <2>1, <2>2 DEF AcceptControl
  <1>4. ASSUME NEW a \in Admins, Start(a, up) \/ SendRequest(a, up) \/ Finish(a, up) \/ Interrupted(a)
        PROVE  Goal
    BY <1>1, <1>4 DEF Start, SendRequest, Finish, Interrupted
  <1>5. ASSUME NEW h \in Handlers, ControlAction(h)
        PROVE  Goal
    <2>1. CASE ReadCommand(h)
      <3>1. wire[serves[h]] \in Seq(Pieces) /\ wire[serves[h]] # <<>>
        BY <2>1, ScenariosAssumption DEF ReadCommand, ControlOK
      <3>2. AfterPiece(Head(wire[serves[h]])) # "twice"
        BY <3>1 DEF AfterPiece, Pieces
      <3> QED
        BY <1>2, <2>1, <3>2 DEF ReadCommand
    <2>2. CASE Dispatch(h)
      BY <1>2, <2>2 DEF Dispatch
    <2>3. CASE Stop(h) \/ OpenInternal(h)
      BY <1>2, <2>3 DEF Stop, OpenInternal
    <2>4. CASE AcceptHeir(h)
      BY <1>2, <2>4 DEF AcceptHeir
    <2>5. CASE HandOver(h)
      BY <2>5 DEF HandOver, LapsesOK, Kill, NULL
    <2>6. CASE CloseAgain(h) \/ AnswerCommand(h) \/ CloseControl(h)
      BY <1>2, <2>6 DEF CloseAgain, AnswerCommand, CloseControl
    <2> QED
      BY <1>5, <2>1, <2>2, <2>3, <2>4, <2>5, <2>6 DEF ControlAction
  <1> QED
    BY <1>1, <1>3, <1>4, <1>5, ControlActions DEF controlVars

-----------------------------------------------------------------------------
(* The work on the clients.                                                *)

\* A thread is in the middle of one of the programs.
WorkTypes ==
    /\ todo \in [Callers -> Programs] /\ DOMAIN machine = Callers /\ DOMAIN verdict = Callers
    /\ \A t \in Callers : todo[t] # <<>> => machine[t] \in Machines
    /\ lock \in Callers \cup {Free}
    /\ ended \in [Machines -> Nat]
\* A thread has the lock when the rest of its program gives it back.
LockOK == \A t \in Callers : lock = t <=> todo[t] \in Held
\* The client of a thread in the middle of logout_client is on the list.
LeavingOK == \A t \in Callers : todo[t] \in Leaving => machine[t] \in listed
\* Only a thread whose front end waits for it is at work.
IdleOK ==
    /\ \A w \in Slots : worker[w] \notin Working => todo[w] = <<>>
    /\ \A h \in Handlers : handler[h] \notin {"work", "send"} => todo[h] = <<>>

\* The programs that are given to a thread.
Starts == {<<"status">>, <<"disconnect">>, <<"logout">>, <<"reset">>, Login, Access}

\* A thread with nothing to do, and one that begins, holds no lock.
LEMMA EmptyProgram == <<>> \in Simple /\ <<>> \in Programs /\ <<>> \notin Held /\ <<>> \notin Leaving
  BY Apart DEF Simple, Programs, Held

LEMMA StartsPlain == Starts \subseteq Programs /\ Starts \cap Held = {} /\ Starts \cap Leaving = {}
  BY Apart DEF Starts, Programs, Held, Simple, Asks

\* What a callback and a command start with.
LEMMA StartWorkAssigns ==
    ASSUME RequestsOK, NEW w \in Slots, StartWork(w)
    PROVE  /\ worker[w] = "dir" /\ \E place \in Working : worker' = [worker EXCEPT ![w] = place]
           /\ \E m \in Machines, p \in Starts : Assign(w, m, p)
  <1>1. worker[w] = "dir"
    BY DEF StartWork, WorkerAt
  <1>2. Machine(w) \in Machines
    BY <1>1, ScenariosAssumption DEF RequestsOK, Rightful, Machine, script
  <1>3. \E place \in Working : worker' = [worker EXCEPT ![w] = place]
    BY DEF StartWork, Goto, Working
  <1>4. \E p \in Starts : Assign(w, Machine(w), p)
    BY DEF StartWork, Starts
  <1> QED
    BY <1>1, <1>2, <1>3, <1>4

LEMMA DispatchAssigns ==
    ASSUME ControlOK, NEW h \in Handlers, Dispatch(h)
    PROVE  /\ handler[h] = "command"
           /\ \/ /\ handler' = [handler EXCEPT ![h] = "work"]
                 /\ \E p \in Starts : Assign(h, command[serves[h]].about, p)
              \/ /\ \E place \in {"stop", "restart", "close"} : handler' = [handler EXCEPT ![h] = place]
                 /\ UNCHANGED workVars
           /\ command[serves[h]].about \in Machines
  <1>1. handler[h] = "command" /\ command[serves[h]].about \in Machines
    BY ScenariosAssumption DEF Dispatch, ControlOK
  <1> QED
    BY <1>1 DEF Dispatch, Starts

LEMMA AcceptAssigns ==
    ASSUME ControlOK, NEW h \in Handlers, AcceptHeir(h)
    PROVE  /\ handler[h] = "accept"
           /\ \/ /\ handler' = [handler EXCEPT ![h] = "send"]
                 /\ \E p \in Starts : Assign(h, command[serves[h]].about, p)
              \/ /\ handler' = [handler EXCEPT ![h] = "close"]
                 /\ UNCHANGED workVars
           /\ command[serves[h]].about \in Machines
  <1>1. handler[h] = "accept" /\ command[serves[h]].about \in Machines
    BY ScenariosAssumption DEF AcceptHeir, ControlOK
  <1> QED
    BY <1>1 DEF AcceptHeir, Starts

\* What the next step of a program says about the program.
LEMMA ProgramSteps ==
    ASSUME NEW p \in Programs, p # <<>>
    PROVE  /\ Head(p) \in {"register", "find", "get", "relock", "status"} =>
                p \notin Held /\ Tail(p) \in Programs /\ Tail(p) \notin Held
           /\ Head(p) \in {"verdict", "logout", "reset", "disconnect", "yes"} => p \notin Held
           /\ Head(p) = "yes" => p \in Reporting /\ Tail(p) = <<>>
           /\ Head(p) = "remove" => p \in Leaving /\ Tail(p) \in Reporting
           /\ Head(p) = "redirect" => p \in Held
           /\ Head(p) = "execute" => /\ Tail(p) \in Programs
                                     /\ Tail(p) \in Held <=> p \in Held
                                     /\ Tail(p) \in Leaving => p \in Leaving
           /\ Tail(p) \in Reporting /\ p \notin Reporting => Head(p) \notin
                {"register", "find", "get", "relock", "status", "execute"}
  <1>1. CASE p \in Leaving
    BY <1>1, LeavingSteps, Apart DEF Programs, Held
  <1>2. CASE p \in Granting
    BY <1>2, GrantingSteps, Apart DEF Programs, Held
  <1>3. CASE p \in Reporting
    BY <1>3, ReportingSteps, Apart, EmptyProgram DEF Programs, Held
  <1>4. CASE p \in Asks
    BY <1>4, AsksSteps, Apart, EmptyProgram DEF Programs, Held
  <1>5. CASE p \in Simple
    BY <1>5, SimpleSteps, Apart, EmptyProgram DEF Programs, Held
  <1> QED
    BY <1>1, <1>2, <1>3, <1>4, <1>5 DEF Programs, Held

\* The long programs belong to the families.
LEMMA LongPrograms ==
    /\ Logout \in Leaving /\ Logout \in Held /\ Logout \in Programs
    /\ Access \o <<"redirect">> \in Granting
    /\ (Access \o Access) \o <<"redirect">> \in Granting
    /\ (Access \o <<>>) \o <<"redirect">> \in Granting
    /\ Granting \subseteq Held /\ Held \subseteq Programs
    /\ Granting \cap Leaving = {} /\ Reporting \subseteq Programs /\ Reporting \cap Held = {}
    /\ Leaving \subseteq Held /\ Granting \cap Reporting = {} /\ Leaving \cap Reporting = {}
  BY AccessThenRedirect, TwiceThenRedirect, OnceThenRedirect, Apart
     DEF Leaving, Granting, Held, Programs

\* The types, the lock and who is on the way out of the list, together.
CoreOK == WorkTypes /\ LockOK /\ LeavingOK

\* Starting a program keeps the core.
LEMMA AssignCore ==
    ASSUME CoreOK, NEW t \in Callers, todo[t] = <<>>, NEW m \in Machines, NEW p \in Starts, Assign(t, m, p)
    PROVE  CoreOK'
  BY StartsPlain, EmptyProgram DEF CoreOK, WorkTypes, LockOK, LeavingOK, Assign

\* A thread that goes on without touching the lock or the list.
LEMMA PopCore ==
    ASSUME CoreOK, NEW t \in Callers, NEW p \in Programs, todo' = [todo EXCEPT ![t] = p],
           p \in Held <=> todo[t] \in Held, p \in Leaving => todo[t] \in Leaving,
           p # <<>> => todo[t] # <<>>, DOMAIN verdict' = Callers, listed \subseteq listed',
           UNCHANGED <<machine, lock, ended>>
    PROVE  CoreOK'
  BY DEF CoreOK, WorkTypes, LockOK, LeavingOK

\* A thread that takes the lock.
LEMMA LockCore ==
    ASSUME CoreOK, NEW t \in Callers, NEW p \in Held, todo' = [todo EXCEPT ![t] = p],
           lock = Free, lock' = t, p \in Leaving => machine[t] \in listed,
           todo[t] # <<>>, DOMAIN verdict' = Callers, listed \subseteq listed',
           UNCHANGED <<machine, ended>>
    PROVE  CoreOK'
  BY LongPrograms, ThreadsAssumption DEF CoreOK, WorkTypes, LockOK, LeavingOK

\* A thread that gives it back.
LEMMA UnlockCore ==
    ASSUME CoreOK, NEW t \in Callers, NEW p \in Programs \ Held, todo' = [todo EXCEPT ![t] = p],
           todo[t] \in Held, lock' = Free, todo[t] # <<>>, DOMAIN verdict' = Callers,
           \A m \in listed : m # machine[t] => m \in listed', ended' \in [Machines -> Nat],
           UNCHANGED machine
    PROVE  CoreOK'
  <1>1. lock = t /\ \A u \in Callers : u # t => todo[u] \notin Held /\ todo'[u] = todo[u]
    BY DEF CoreOK, LockOK, WorkTypes
  <1> QED
    BY <1>1, LongPrograms, ThreadsAssumption DEF CoreOK, WorkTypes, LockOK, LeavingOK

\* A step on the list of clients keeps the core.
LEMMA ListCore ==
    ASSUME CoreOK, NEW t \in Callers, ListStep(t)
    PROVE  CoreOK'
  <1> DEFINE p == todo[t]
  <1>1. /\ p \in Programs /\ DOMAIN todo = Callers /\ DOMAIN verdict = Callers
        /\ p # <<>> => machine[t] \in Machines
    BY DEF CoreOK, WorkTypes
  <1>2. CASE Register(t) \/ Find(t) \/ Section(t)
    <2>1. /\ p # <<>> /\ Head(p) \in {"register", "find", "relock", "status"}
          /\ \E q \in {Tail(p), <<>>} : todo' = [todo EXCEPT ![t] = q]
          /\ UNCHANGED <<machine, verdict, lock, ended>> /\ listed \subseteq listed'
      BY <1>2 DEF Register, Find, Section, At, Rest, Continue
    <2>2. ASSUME NEW q \in {Tail(p), <<>>}
          PROVE  q \in Programs /\ q \notin Held /\ q \notin Leaving /\ p \notin Held /\ p # <<>>
      <3>1. p \notin Held /\ Tail(p) \in Programs /\ Tail(p) \notin Held
        BY <2>1, <1>1, ProgramSteps
      <3> QED
        BY <2>1, <2>2, <3>1, EmptyProgram, LongPrograms
    <2> HIDE DEF p
    <2> QED
      BY <2>1, <2>2, <1>1, PopCore DEF p
  <1>3. CASE LogoutRequest(t)
    <2>1. p # <<>> /\ p \notin Held /\ lock = Free /\ UNCHANGED <<machine, verdict, ended>>
      BY <1>1, <1>3, ProgramSteps DEF LogoutRequest, At
    <2>2. CASE machine[t] \in listed /\ lock' = t /\ Continue(t, Logout) /\ UNCHANGED listed
      BY <2>1, <2>2, <1>1, LongPrograms, LockCore DEF Continue
    <2>3. CASE listed' = listed \cup {machine[t]} /\ Continue(t, <<>>) /\ UNCHANGED lock
      BY <2>1, <2>3, <1>1, EmptyProgram, PopCore DEF Continue
    <2> QED
      BY <1>3, <2>2, <2>3 DEF LogoutRequest
  <1>4. CASE Verdict(t)
    <2>1. /\ p # <<>> /\ p \notin Held /\ lock = Free /\ UNCHANGED <<machine, listed, ended>>
          /\ DOMAIN verdict' = Callers
      BY <1>1, <1>4, ProgramSteps DEF Verdict, At, Concludes
    <2>2. CASE Continue(t, <<>>) /\ UNCHANGED lock
      BY <2>1, <2>2, <1>1, EmptyProgram, PopCore DEF Continue
    <2>3. ASSUME NEW q \in Granting, Continue(t, q), lock' = t
          PROVE  CoreOK'
      BY <2>1, <2>3, <1>1, LongPrograms, LockCore DEF Continue
    <2> QED
      BY <1>4, <2>2, <2>3, LongPrograms DEF Verdict
  <1>5. CASE Redirect(t)
    <2>1. p \in Held /\ p # <<>>
      BY <1>1, <1>5, ProgramSteps DEF Redirect, At
    <2> QED
      BY <2>1, <1>1, <1>5, EmptyProgram, UnlockCore DEF Redirect, Continue, Concludes, CoreOK, WorkTypes
  <1>6. CASE Lookup(t)
    <2>1. /\ p # <<>> /\ p \notin Held /\ lock = Free /\ UNCHANGED <<machine, listed, ended>>
          /\ DOMAIN verdict' = Callers
      BY <1>1, <1>6, ProgramSteps DEF Lookup, At, Concludes
    <2>2. CASE machine[t] \in listed /\ lock' = t /\ Continue(t, Logout)
      BY <2>1, <2>2, <1>1, LongPrograms, LockCore DEF Continue
    <2>3. CASE Continue(t, <<>>) /\ UNCHANGED lock
      BY <2>1, <2>3, <1>1, EmptyProgram, PopCore DEF Continue
    <2> QED
      BY <1>6, <2>2, <2>3 DEF Lookup
  <1>7. CASE RemoveClient(t)
    <2>1. p \in Held /\ p # <<>> /\ Tail(p) \in Programs \ Held
      BY <1>1, <1>7, ProgramSteps, LongPrograms DEF RemoveClient, At
    <2>2. ended' \in [Machines -> Nat]
      <3>1. ended \in [Machines -> Nat] /\ machine[t] \in Machines
        BY <1>1, <2>1 DEF CoreOK, WorkTypes
      <3>2. \E n \in {ended[machine[t]], ended[machine[t]] + 1} : ended' = [ended EXCEPT ![machine[t]] = n]
        BY <1>7 DEF RemoveClient
      <3> QED
        BY <3>1, <3>2
    <2>3. todo' = [todo EXCEPT ![t] = Tail(p)] /\ lock' = Free /\ UNCHANGED <<machine, verdict>>
      BY <1>7 DEF RemoveClient, Continue, Rest
    <2>4. \A m \in listed : m # machine[t] => m \in listed'
      BY <1>7 DEF RemoveClient
    <2> HIDE DEF p
    <2> QED
      BY <2>1, <2>2, <2>3, <2>4, <1>1, UnlockCore DEF p
  <1>8. CASE Succeed(t)
    <2>1. p # <<>> /\ p \notin Held /\ Tail(p) = <<>>
      BY <1>1, <1>8, ProgramSteps DEF Succeed, At
    <2> QED
      BY <2>1, <1>1, <1>8, EmptyProgram, PopCore DEF Succeed, Continue, Rest, Concludes
  <1> QED
    BY <1>2, <1>3, <1>4, <1>5, <1>6, <1>7, <1>8 DEF ListStep

\* A step that runs a command or asks the auth server keeps the core.
LEMMA CallCore ==
    ASSUME CoreOK, NEW t \in Callers, CallStep(t)
    PROVE  CoreOK'
  <1>1. CASE UNCHANGED workVars
    BY <1>1 DEF workVars, CoreOK, WorkTypes, LockOK, LeavingOK
  <1>2. CASE (At(t, "execute") \/ At(t, "get")) /\ Pop(t)
    <2> DEFINE p == todo[t]
    <2>1. p # <<>> /\ p \in Programs /\ Head(p) \in {"execute", "get"}
      BY <1>2 DEF At, CoreOK, WorkTypes
    <2>2. /\ Tail(p) \in Programs /\ (Tail(p) \in Held <=> p \in Held)
          /\ Tail(p) \in Leaving => p \in Leaving
      BY <2>1, ProgramSteps, LongPrograms
    <2>3. /\ todo' = [todo EXCEPT ![t] = Tail(p)]
          /\ UNCHANGED <<machine, verdict, lock, listed, ended>> /\ DOMAIN verdict' = Callers
      BY <1>2 DEF Pop, Continue, Rest, CoreOK, WorkTypes
    <2> QED
      BY <2>1, <2>2, <2>3, PopCore
  <1> QED
    BY <1>1, <1>2, ListCore DEF CallStep

\* Every step keeps the core.
LEMMA CoreStep ==
    ASSUME RequestsOK, ControlOK, CoreOK, IdleOK, Next
    PROVE  CoreOK'
  <1>1. CASE UNCHANGED workVars
    BY <1>1 DEF workVars, CoreOK, WorkTypes, LockOK, LeavingOK
  <1>2. ASSUME NEW t \in Callers, Forget(t)
        PROVE  CoreOK'
    BY <1>2 DEF Forget, CoreOK, WorkTypes, LockOK, LeavingOK
  <1>3. ASSUME NEW w \in Slots, StartWork(w)
        PROVE  CoreOK'
    <2>1. w \in Callers /\ todo[w] = <<>>
      BY <1>3, StartWorkAssigns, ThreadsAssumption DEF IdleOK, Working
    <2> QED
      BY <2>1, <1>3, StartWorkAssigns, AssignCore
  <1>4. ASSUME NEW h \in Handlers, Dispatch(h)
        PROVE  CoreOK'
    <2>1. h \in Callers /\ todo[h] = <<>>
      BY <1>4, DispatchAssigns, ThreadsAssumption DEF IdleOK
    <2> QED
      BY <2>1, <1>1, <1>4, DispatchAssigns, AssignCore
  <1>5. ASSUME NEW h \in Handlers, AcceptHeir(h)
        PROVE  CoreOK'
    <2>1. h \in Callers /\ todo[h] = <<>>
      BY <1>5, AcceptAssigns, ThreadsAssumption DEF IdleOK
    <2> QED
      BY <2>1, <1>1, <1>5, AcceptAssigns, AssignCore
  <1> QED
    BY <1>1, <1>2, <1>3, <1>4, <1>5, WorkActions, CallCore, ThreadsAssumption
       DEF EndWork, HandOver, AnswerCommand

\* A call is a step of its own thread, which has something to do.
LEMMA CallIsOwn ==
    ASSUME CoreOK, NEW t \in Callers, CallStep(t)
    PROVE  todo[t] # <<>> /\ \A u \in Callers : u # t => todo'[u] = todo[u]
  <1> DEFINE Own == \A u \in Callers : u # t => todo'[u] = todo[u]
  <1>1. DOMAIN todo = Callers
    BY DEF CoreOK, WorkTypes
  <1>2. ASSUME NEW p, Continue(t, p)
        PROVE  Own
    BY <1>1, <1>2 DEF Continue
  <1>3. CASE ListStep(t)
    <2>1. CASE Register(t) \/ LogoutRequest(t) \/ Find(t) \/ Redirect(t) \/ Lookup(t)
      BY <1>2, <2>1 DEF Register, LogoutRequest, Find, Redirect, Lookup, At
    <2>2. CASE RemoveClient(t) \/ Section(t) \/ Succeed(t)
      BY <1>2, <2>2 DEF RemoveClient, Section, Succeed, At
    <2>3. CASE Verdict(t)
      BY <1>2, <2>3 DEF Verdict, At
    <2> QED
      BY <1>3, <2>1, <2>2, <2>3 DEF ListStep
  <1>4. CASE Pop(t) /\ (At(t, "execute") \/ At(t, "get"))
    BY <1>2, <1>4 DEF Pop, At
  <1>5. CASE UNCHANGED workVars /\ (At(t, "execute") \/ At(t, "get"))
    BY <1>5 DEF workVars, At
  <1> QED
    BY <1>3, <1>4, <1>5 DEF CallStep

\* A worker leaves its work only when there is nothing left to do.
LEMMA WorkerMoves ==
    ASSUME RequestsOK, Next, NEW w \in Slots, worker[w] \in Working
    PROVE  worker'[w] = worker[w] \/ EndWork(w)
  <1> DEFINE Stays == worker'[w] = worker[w]
  <1>1. CASE UNCHANGED worker
    BY <1>1
  <1>2. ASSUME NEW v \in Slots, v # w \/ worker[v] \notin Working, NEW place, Goto(v, place)
        PROVE  Stays
    BY <1>2 DEF Goto, RequestsOK
  <1>3. CASE GetConnection(room)
    BY <1>1, <1>2, <1>3 DEF GetConnection, FreeSlots, Working
  <1>4. ASSUME NEW v \in Slots, ServerAction(v), ~EndWork(v) \/ v # w
        PROVE  Stays
    <2>1. CASE ReadRequestLine(v) \/ CutOff(v) \/ SeeFirst(v) \/ Fill(v)
      BY <1>1, <1>2, <2>1 DEF ReadRequestLine, CutOff, SeeFirst, Fill, WorkerAt, Working
    <2>2. CASE Decode(v) \/ FindDir(v) \/ NextDir(v)
      BY <1>1, <1>2, <2>2 DEF Decode, FindDir, NextDir, WorkerAt, Working
    <2>3. CASE AnswerAtOnce(v) \/ StartWork(v) \/ EndRequest(v)
      BY <1>1, <1>2, <2>3 DEF AnswerAtOnce, StartWork, EndRequest, WorkerAt, Working
    <2>4. CASE EndWork(v)
      BY <1>2, <1>4, <2>4 DEF EndWork
    <2> QED
      BY <1>4, <2>1, <2>2, <2>3, <2>4 DEF ServerAction
  <1> QED
    BY <1>1, <1>3, <1>4, ServerActions DEF serverVars, Connects

\* A handler is in a command until it answers it, and in a restart until it is handed over.
LEMMA HandlerMoves ==
    ASSUME ControlOK, Next, NEW h \in Handlers, handler[h] \in {"work", "send"}
    PROVE  handler'[h] = handler[h] \/ AnswerCommand(h) \/ HandOver(h)
  <1> DEFINE Stays == handler'[h] = handler[h]
  <1>1. CASE UNCHANGED handler
    BY <1>1
  <1>2. ASSUME NEW g \in Handlers, g # h \/ handler[g] \notin {"work", "send"}, NEW place,
               handler' = [handler EXCEPT ![g] = place]
        PROVE  Stays
    BY <1>2 DEF ControlOK
  <1>3. CASE AcceptControl(room)
    BY <1>1, <1>2, <1>3 DEF AcceptControl, FreeHandlers
  <1>4. ASSUME NEW g \in Handlers, ControlAction(g), ~(AnswerCommand(g) \/ HandOver(g)) \/ g # h
        PROVE  Stays
    <2>1. CASE ReadCommand(g) \/ Stop(g) \/ OpenInternal(g) \/ CloseControl(g)
      BY <1>2, <2>1 DEF ReadCommand, Stop, OpenInternal, CloseControl
    <2>2. CASE Dispatch(g)
      BY <1>2, <2>2 DEF Dispatch
    <2>3. CASE AcceptHeir(g) \/ CloseAgain(g)
      BY <1>2, <2>3 DEF AcceptHeir, CloseAgain
    <2>4. CASE AnswerCommand(g) \/ HandOver(g)
      BY <1>2, <1>4, <2>4 DEF AnswerCommand, HandOver
    <2> QED
      BY <1>4, <2>1, <2>2, <2>3, <2>4 DEF ControlAction
  <1> QED
    BY <1>1, <1>3, <1>4, ControlActions
       DEF controlVars, Start, SendRequest, Finish, Interrupted

\* What changes the program of a thread.
LEMMA TodoChanges ==
    ASSUME RequestsOK, ControlOK, CoreOK, Next, NEW t \in Callers, todo'[t] # todo[t]
    PROVE  \/ CallStep(t) /\ todo[t] # <<>> /\ UNCHANGED <<serverVars, controlVars>>
           \/ t \in Slots /\ StartWork(t) /\ worker'[t] \in Working /\ UNCHANGED controlVars
           \/ /\ t \in Handlers /\ (Dispatch(t) \/ AcceptHeir(t))
              /\ handler'[t] \in {"work", "send"} /\ UNCHANGED serverVars
  <1>1. DOMAIN todo = Callers /\ DOMAIN worker = Slots /\ DOMAIN handler = Handlers
    BY DEF CoreOK, WorkTypes, RequestsOK, ControlOK
  <1>2. ~ UNCHANGED todo
    OBVIOUS
  <1>3. ASSUME NEW u \in Callers, u # t, NEW m, NEW p, Assign(u, m, p)
        PROVE  FALSE
    BY <1>1, <1>3 DEF Assign
  <1>4. ASSUME NEW u \in Callers, Forget(u)
        PROVE  FALSE
    BY <1>2, <1>4 DEF Forget
  <1>5. ASSUME NEW w \in Slots, StartWork(w)
        PROVE  w = t /\ worker'[t] \in Working
    BY <1>1, <1>3, <1>5, StartWorkAssigns, ThreadsAssumption
  <1>6. ASSUME NEW h \in Handlers, Dispatch(h)
        PROVE  h = t /\ handler'[t] = "work"
    BY <1>1, <1>2, <1>3, <1>6, DispatchAssigns, ThreadsAssumption DEF workVars
  <1>7. ASSUME NEW h \in Handlers, AcceptHeir(h)
        PROVE  h = t /\ handler'[t] = "send"
    BY <1>1, <1>2, <1>3, <1>7, AcceptAssigns, ThreadsAssumption DEF workVars
  <1>8. ASSUME NEW u \in Callers, CallStep(u)
        PROVE  u = t /\ todo[t] # <<>>
    BY <1>8, CallIsOwn
  <1> QED
    BY <1>2, <1>4, <1>5, <1>6, <1>7, <1>8, WorkActions, ThreadsAssumption
       DEF workVars, EndWork, HandOver, AnswerCommand

\* Only a thread that serves has a program.
LEMMA IdleStep ==
    ASSUME RequestsOK, ControlOK, CoreOK, IdleOK, Next
    PROVE  IdleOK'
  <1>1. ASSUME NEW w \in Slots, worker'[w] \notin Working
        PROVE  todo'[w] = <<>>
    <2>1. w \in Callers /\ w \notin Handlers
      BY ThreadsAssumption
    <2>2. todo'[w] = todo[w]
      <3>1. CASE UNCHANGED worker
        BY <1>1, <2>1, <3>1, TodoChanges DEF IdleOK
      <3> QED
        BY <1>1, <2>1, <3>1, TodoChanges DEF serverVars
    <2>3. CASE worker[w] \in Working
      BY <1>1, <2>2, <2>3, WorkerMoves DEF EndWork, Idle
    <2> QED
      BY <2>2, <2>3 DEF IdleOK
  <1>2. ASSUME NEW h \in Handlers, handler'[h] \notin {"work", "send"}
        PROVE  todo'[h] = <<>>
    <2>1. h \in Callers /\ h \notin Slots
      BY ThreadsAssumption
    <2>2. todo'[h] = todo[h]
      <3> SUFFICES ASSUME todo'[h] # todo[h]
                   PROVE  FALSE
        OBVIOUS
      <3>1. CallStep(h) /\ todo[h] # <<>> /\ UNCHANGED handler
        BY <1>2, <2>1, TodoChanges DEF controlVars
      <3> QED
        BY <1>2, <3>1 DEF IdleOK
    <2>3. CASE handler[h] \in {"work", "send"}
      BY <1>2, <2>2, <2>3, HandlerMoves DEF AnswerCommand, HandOver, Idle
    <2> QED
      BY <2>2, <2>3 DEF IdleOK
  <1> QED
    BY <1>1, <1>2 DEF IdleOK

-----------------------------------------------------------------------------
(* The sessions that are reset.                                            *)

\* A handler works on the machine that its command names.
AboutOK == \A h \in Handlers : handler[h] = "work" => machine[h] = command[serves[h]].about
\* The handlers that have removed a session of m and are still to say so.
Resetting(m) ==
    {h \in Handlers : /\ handler[h] = "work" /\ machine[h] = m
                      /\ todo[h] \in Reporting \/ verdict[h] = "yes"}
\* The administrators told that a session of m was reset; with the handlers still to say
\* so, they are no more than the sessions of m that were ended.
ToldYes(m) == {a \in DOMAIN command : command[a].about = m /\ told[a] = "Yes"}
CountOK == \A m \in Machines : Cardinality(ToldYes(m)) + Cardinality(Resetting(m)) <= ended[m]

\* What a call does to the thread's own outcome and to the others'.
LEMMA CallOutcome ==
    ASSUME CoreOK, NEW t \in Callers, CallStep(t)
    PROVE  /\ UNCHANGED machine
           /\ \A u \in Callers : u # t => verdict'[u] = verdict[u]
           /\ RemoveClient(t) \/ UNCHANGED ended
           /\ todo'[t] \in Reporting => RemoveClient(t) \/ todo[t] \in Reporting
           /\ verdict'[t] = "yes" => verdict[t] = "yes" \/ todo[t] \in Reporting
  <1> DEFINE Outcome ==
               /\ UNCHANGED machine
               /\ \A u \in Callers : u # t => verdict'[u] = verdict[u]
               /\ RemoveClient(t) \/ UNCHANGED ended
               /\ todo'[t] \in Reporting => RemoveClient(t) \/ todo[t] \in Reporting
               /\ verdict'[t] = "yes" => verdict[t] = "yes" \/ todo[t] \in Reporting
             p == todo[t]
  <1>1. p \in Programs /\ DOMAIN todo = Callers /\ DOMAIN verdict = Callers
    BY DEF CoreOK, WorkTypes
  <1>2. ASSUME p # <<>>, Continue(t, Tail(p)), UNCHANGED <<machine, verdict, ended>>,
               Head(p) \in {"register", "find", "get", "relock", "status", "execute"}
        PROVE  Outcome
    BY <1>1, <1>2, ProgramSteps DEF Continue
  <1>3. ASSUME NEW q, Continue(t, q), q \notin Reporting, UNCHANGED <<machine, ended>>,
               NEW v, v # "yes", UNCHANGED verdict \/ Concludes(t, v)
        PROVE  Outcome
    BY <1>1, <1>3 DEF Continue, Concludes
  <1>4. <<>> \notin Reporting
    BY Apart, EmptyProgram
  <1>5. CASE Register(t) \/ Section(t)
    BY <1>2, <1>5 DEF Register, Section, At, Rest
  <1>6. CASE Find(t)
    <2>1. CASE Continue(t, Rest(t))
      BY <1>2, <1>6, <2>1 DEF Find, At, Rest
    <2>2. CASE Continue(t, <<>>)
      BY <1>3, <1>4, <1>6, <2>2 DEF Find
    <2> QED
      BY <1>6, <2>1, <2>2 DEF Find
  <1>7. CASE LogoutRequest(t) \/ Lookup(t) \/ Redirect(t)
    <2>1. PICK q \in {Logout, <<>>} : Continue(t, q)
      BY <1>7 DEF LogoutRequest, Lookup, Redirect
    <2>2. PICK v \in {"no", "redirect"} : UNCHANGED verdict \/ Concludes(t, v)
      BY <1>7 DEF LogoutRequest, Lookup, Redirect
    <2>3. UNCHANGED <<machine, ended>> /\ q \notin Reporting /\ v # "yes"
      BY <1>4, <1>7, <2>1, <2>2, LongPrograms DEF LogoutRequest, Lookup, Redirect
    <2> QED
      BY <1>3, <2>1, <2>2, <2>3
  <1>8. CASE Verdict(t)
    <2>1. PICK q \in Granting \cup {<<>>} : Continue(t, q)
      BY <1>8, LongPrograms DEF Verdict
    <2>2. PICK v \in {"error page", "redirect"} : UNCHANGED verdict \/ Concludes(t, v)
      BY <1>8 DEF Verdict
    <2>3. UNCHANGED <<machine, ended>> /\ q \notin Reporting /\ v # "yes"
      BY <1>4, <1>8, <2>1, <2>2, LongPrograms DEF Verdict
    <2> QED
      BY <1>3, <2>1, <2>2, <2>3
  <1>9. CASE RemoveClient(t)
    BY <1>9 DEF RemoveClient
  <1>10. CASE Succeed(t)
    <2>1. p \in Reporting /\ Tail(p) = <<>>
      BY <1>1, <1>10, ProgramSteps DEF Succeed, At
    <2> QED
      BY <1>1, <1>4, <1>10, <2>1 DEF Succeed, Continue, Rest, Concludes
  <1>11. CASE Pop(t) /\ (At(t, "execute") \/ At(t, "get"))
    BY <1>2, <1>11 DEF Pop, At, Rest
  <1>12. CASE UNCHANGED workVars
    BY <1>12 DEF workVars
  <1> QED
    BY <1>5, <1>6, <1>7, <1>8, <1>9, <1>10, <1>11, <1>12 DEF CallStep, ListStep

\* A handler starts to work when it has dispatched its command.
LEMMA HandlerStarts ==
    ASSUME ControlOK, Next, NEW h \in Handlers, handler[h] # "work", handler'[h] = "work"
    PROVE  Dispatch(h)
  <1>1. ~ UNCHANGED handler
    OBVIOUS
  <1>2. ASSUME NEW g \in Handlers, NEW place, handler' = [handler EXCEPT ![g] = place]
        PROVE  g = h /\ place = "work"
    BY <1>2 DEF ControlOK
  <1>3. ~ AcceptControl(room)
    BY <1>1, <1>2 DEF AcceptControl, FreeHandlers
  <1>4. ASSUME NEW g \in Handlers, ControlAction(g)
        PROVE  g = h /\ Dispatch(h)
    <2>1. ASSUME ReadCommand(g)
          PROVE  FALSE
      <3>1. wire[serves[g]] \in Seq(Pieces) /\ wire[serves[g]] # <<>>
        BY <2>1, ScenariosAssumption DEF ReadCommand, ControlOK
      <3>2. AfterPiece(Head(wire[serves[g]])) # "work"
        BY <3>1 DEF AfterPiece, Pieces
      <3> QED
        BY <1>2, <2>1, <3>2 DEF ReadCommand
    <2>2. /\ ~ (Stop(g) \/ CloseControl(g) \/ AnswerCommand(g))
          /\ ~ (OpenInternal(g) \/ AcceptHeir(g) \/ HandOver(g) \/ CloseAgain(g))
      <3>1. ~ (Stop(g) \/ CloseControl(g) \/ AnswerCommand(g))
        BY <1>2 DEF Stop, CloseControl, AnswerCommand
      <3>2. ~ (OpenInternal(g) \/ AcceptHeir(g))
        BY <1>2 DEF OpenInternal, AcceptHeir
      <3>3. ~ (HandOver(g) \/ CloseAgain(g))
        BY <1>2 DEF HandOver, CloseAgain
      <3> QED
        BY <3>1, <3>2, <3>3
    <2>3. CASE Dispatch(g)
      BY <1>2, <2>3 DEF Dispatch
    <2> QED
      BY <1>4, <2>1, <2>2, <2>3 DEF ControlAction
  <1> QED
    BY <1>1, <1>3, <1>4, ControlActions
       DEF controlVars, Start, SendRequest, Finish, Interrupted

\* Every step keeps a handler on its machine.
LEMMA AboutStep ==
    ASSUME RequestsOK, ControlOK, CoreOK, AboutOK, Next
    PROVE  AboutOK'
  <1> SUFFICES ASSUME NEW h \in Handlers, handler'[h] = "work"
               PROVE  machine'[h] = command'[serves'[h]].about
    BY DEF AboutOK
  <1>1. h \in Callers /\ h \notin Slots /\ DOMAIN machine = Callers /\ Handlers \subseteq Callers
        /\ Slots \subseteq Callers
    BY ThreadsAssumption DEF CoreOK, WorkTypes
  <1>2. UNCHANGED command
    BY ControlActions
       DEF controlVars, Start, SendRequest, Finish, Interrupted, AcceptControl, ControlAction,
           ReadCommand, Dispatch, Stop, OpenInternal, AcceptHeir, HandOver, CloseAgain,
           AnswerCommand, CloseControl
  <1>3. CASE handler[h] # "work"
    <2>1. Dispatch(h)
      BY <1>3, HandlerStarts
    <2>2. UNCHANGED serves
      BY <2>1 DEF Dispatch
    <2>3. \E p \in Starts : Assign(h, command[serves[h]].about, p)
      <3>1. \A place \in {"stop", "restart", "close"} : handler' # [handler EXCEPT ![h] = place]
        BY DEF ControlOK
      <3> QED
        BY <2>1, <3>1, DispatchAssigns
    <2> QED
      BY <1>1, <1>2, <2>2, <2>3 DEF Assign
  <1>4. CASE handler[h] = "work"
    <2>1. serves'[h] = serves[h]
      <3>1. CASE AcceptControl(room)
        BY <1>4, <3>1 DEF AcceptControl, FreeHandlers, ControlOK
      <3> QED
        BY <3>1, ControlActions
           DEF controlVars, Start, SendRequest, Finish, Interrupted, ControlAction,
               ReadCommand, Dispatch, Stop, OpenInternal, AcceptHeir, HandOver, CloseAgain,
           AnswerCommand, CloseControl
    <2>2. machine'[h] = machine[h]
      <3>1. ASSUME NEW u \in Callers, u # h, NEW m, NEW p, Assign(u, m, p)
            PROVE  machine'[h] = machine[h]
        BY <1>1, <3>1 DEF Assign
      <3>2. ASSUME NEW w \in Slots, StartWork(w)
            PROVE  machine'[h] = machine[h]
        BY <1>1, <3>1, <3>2, StartWorkAssigns
      <3>3. ASSUME NEW g \in Handlers, Dispatch(g)
            PROVE  machine'[h] = machine[h]
        BY <1>1, <1>4, <3>1, <3>3, DispatchAssigns DEF workVars
      <3>4. ASSUME NEW g \in Handlers, AcceptHeir(g)
            PROVE  machine'[h] = machine[h]
        BY <1>1, <1>4, <3>1, <3>4, AcceptAssigns DEF workVars
      <3> QED
        BY <3>2, <3>3, <3>4, WorkActions, CallOutcome
           DEF workVars, EndWork, HandOver, AnswerCommand, Forget
    <2> QED
      BY <1>2, <1>4, <2>1, <2>2 DEF AboutOK
  <1> QED
    BY <1>3, <1>4

\* A handler comes to have removed a session only by removing it.
LEMMA ResettingEnters ==
    ASSUME RequestsOK, ControlOK, CoreOK, Next, NEW m, NEW h \in Handlers,
           h \in Resetting(m)', h \notin Resetting(m)
    PROVE  RemoveClient(h) /\ CallStep(h) /\ machine[h] = m
  <1>1. /\ h \in Callers /\ h \notin Slots /\ Handlers \subseteq Callers /\ Slots \subseteq Callers
        /\ DOMAIN machine = Callers /\ DOMAIN todo = Callers /\ DOMAIN verdict = Callers
    BY ThreadsAssumption DEF CoreOK, WorkTypes
  <1>2. handler'[h] = "work" /\ machine'[h] = m /\ (todo'[h] \in Reporting \/ verdict'[h] = "yes")
    BY DEF Resetting
  <1>3. handler[h] = "work"
    <2> SUFFICES ASSUME handler[h] # "work"
                 PROVE  FALSE
      OBVIOUS
    <2>1. Dispatch(h)
      BY <1>2, HandlerStarts
    <2>2. \A place \in {"stop", "restart", "close"} : handler' # [handler EXCEPT ![h] = place]
      BY <1>2 DEF ControlOK
    <2>3. PICK p \in Starts : Assign(h, command[serves[h]].about, p)
      BY <2>1, <2>2, DispatchAssigns
    <2>4. todo'[h] = p /\ verdict'[h] = NULL
      BY <1>1, <2>3 DEF Assign
    <2>5. p \notin Reporting
      BY Apart DEF Starts, Simple, Asks
    <2> QED
      BY <1>2, <2>4, <2>5 DEF NULL
  <1>4. ~ (/\ todo'[h] = todo[h] /\ machine'[h] = machine[h] /\ verdict'[h] = verdict[h])
    BY <1>2, <1>3 DEF Resetting
  <1>5. ASSUME NEW u \in Callers, u # h, NEW n, NEW p, Assign(u, n, p)
        PROVE  FALSE
    BY <1>1, <1>4, <1>5 DEF Assign
  <1>6. ASSUME NEW u \in Callers, u # h, Forget(u)
        PROVE  FALSE
    BY <1>1, <1>4, <1>6 DEF Forget
  <1>7. ASSUME NEW w \in Slots, StartWork(w) \/ EndWork(w)
        PROVE  FALSE
    BY <1>1, <1>5, <1>6, <1>7, StartWorkAssigns DEF EndWork
  <1>8. ASSUME NEW g \in Handlers, Dispatch(g) \/ AcceptHeir(g) \/ HandOver(g) \/ AnswerCommand(g)
        PROVE  FALSE
    <2>1. CASE Dispatch(g)
      BY <1>1, <1>3, <1>4, <1>5, <2>1, DispatchAssigns DEF workVars
    <2>2. CASE AnswerCommand(g)
      <3>1. g # h
        BY <1>2, <2>2 DEF AnswerCommand, ControlOK
      <3> QED
        BY <1>1, <1>6, <2>2, <3>1 DEF AnswerCommand
    <2>3. CASE AcceptHeir(g)
      BY <1>1, <1>3, <1>4, <1>5, <2>3, AcceptAssigns DEF workVars
    <2>4. CASE HandOver(g)
      BY <1>1, <1>3, <1>6, <2>4 DEF HandOver
    <2> QED
      BY <1>8, <2>1, <2>2, <2>3, <2>4
  <1>9. PICK t \in Callers : CallStep(t)
    BY <1>4, <1>7, <1>8, WorkActions DEF workVars
  <1>10. t = h
    BY <1>1, <1>4, <1>9, CallOutcome, CallIsOwn
  <1>11. machine[h] = m /\ RemoveClient(h)
    BY <1>2, <1>3, <1>9, <1>10, CallOutcome DEF Resetting
  <1> QED
    BY <1>9, <1>10, <1>11

\* How a cardinality changes with one element.
LEMMA GrowByOne ==
    ASSUME NEW S, NEW T, NEW x, IsFiniteSet(S), T \subseteq S \cup {x}
    PROVE  Cardinality(T) <= Cardinality(S) + 1
  <1>1. IsFiniteSet(S \cup {x}) /\ Cardinality(S \cup {x}) <= Cardinality(S) + 1
    <2> DEFINE U == S \cup {x}
    <2>1. U = S \/ (x \notin S /\ Cardinality(U) = Cardinality(S) + 1 /\ IsFiniteSet(U))
      BY FS_AddElement
    <2>2. Cardinality(S) \in Nat
      BY FS_CardinalityType
    <2> HIDE DEF U
    <2>3. IsFiniteSet(U) /\ Cardinality(U) <= Cardinality(S) + 1
      BY <2>1, <2>2
    <2> QED
      BY <2>3 DEF U
  <1>2. Cardinality(T) \in Nat /\ Cardinality(T) <= Cardinality(S \cup {x})
    BY <1>1, FS_Subset, FS_CardinalityType
  <1> QED
    BY <1>1, <1>2, FS_CardinalityType

LEMMA ShrinkByOne ==
    ASSUME NEW S, NEW T, NEW x \in S, IsFiniteSet(S), T \subseteq S, x \notin T
    PROVE  Cardinality(T) <= Cardinality(S) - 1
  <1>1. IsFiniteSet(S \ {x}) /\ Cardinality(S \ {x}) = Cardinality(S) - 1
    BY FS_RemoveElement
  <1> QED
    BY <1>1, FS_Subset

\* Every step keeps the count of resets.
LEMMA CountStep ==
    ASSUME RequestsOK, ControlOK, CoreOK, AboutOK, CountOK, Next
    PROVE  CountOK'
  <1> SUFFICES ASSUME NEW m \in Machines
               PROVE  Cardinality(ToldYes(m)') + Cardinality(Resetting(m)') <= ended'[m]
    BY DEF CountOK
  <1>1. ControlOK'
    BY ControlStep
  <1>2. /\ IsFiniteSet(ToldYes(m)) /\ Cardinality(ToldYes(m)) \in Nat
        /\ IsFiniteSet(Resetting(m)) /\ Cardinality(Resetting(m)) \in Nat
        /\ IsFiniteSet(ToldYes(m)') /\ Cardinality(ToldYes(m)') \in Nat
        /\ IsFiniteSet(Resetting(m)') /\ Cardinality(Resetting(m)') \in Nat
    <2>1. /\ ToldYes(m) \subseteq Admins /\ Resetting(m) \subseteq Handlers
          /\ ToldYes(m)' \subseteq Admins /\ Resetting(m)' \subseteq Handlers
      BY <1>1, ScenariosAssumption DEF ControlOK, ToldYes, Resetting
    <2> QED
      BY <2>1, FS_Subset, FS_CardinalityType, ThreadsAssumption, ConnectionsAssumption
  <1>3. /\ ended[m] \in Nat /\ Cardinality(ToldYes(m)) + Cardinality(Resetting(m)) <= ended[m]
    BY DEF CoreOK, WorkTypes, CountOK
  <1>4. UNCHANGED command
    BY ControlActions
       DEF controlVars, Start, SendRequest, Finish, Interrupted, AcceptControl, ControlAction,
           ReadCommand, Dispatch, Stop, OpenInternal, AcceptHeir, HandOver, CloseAgain,
           AnswerCommand, CloseControl
  <1>5. ASSUME NEW t \in Callers, CallStep(t), RemoveClient(t), UNCHANGED controlVars
        PROVE  Cardinality(ToldYes(m)') + Cardinality(Resetting(m)') <= ended'[m]
    <2>1. ToldYes(m)' = ToldYes(m)
      BY <1>5 DEF controlVars, ToldYes
    <2>2. machine[t] \in Machines /\ machine[t] \in listed
      BY <1>5, ProgramSteps DEF RemoveClient, At, CoreOK, WorkTypes, LeavingOK
    <2>3. ended' = [ended EXCEPT ![machine[t]] = @ + 1]
      BY <1>5, <2>2 DEF RemoveClient
    <2>4. CASE m = machine[t]
      <3>1. ended'[m] = ended[m] + 1
        BY <2>3, <2>4 DEF CoreOK, WorkTypes
      <3>2. ASSUME NEW h \in Resetting(m)'
            PROVE  h \in Resetting(m) \cup {t}
        <4>1. h \in Handlers /\ h \in Callers
          BY ThreadsAssumption DEF Resetting
        <4>2. CASE h # t
          <5>1. UNCHANGED <<machine, handler>> /\ todo'[h] = todo[h] /\ verdict'[h] = verdict[h]
            BY <1>5, <4>1, <4>2, CallIsOwn, CallOutcome DEF controlVars
          <5> QED
            BY <4>1, <5>1 DEF Resetting
        <4> QED
          BY <4>2
      <3>3. Cardinality(Resetting(m)') <= Cardinality(Resetting(m)) + 1
        BY <1>2, <3>2, GrowByOne
      <3> QED
        BY <1>2, <1>3, <2>1, <3>1, <3>3
    <2>5. CASE m # machine[t]
      <3>1. ended'[m] = ended[m]
        BY <2>3, <2>5 DEF CoreOK, WorkTypes
      <3>2. Resetting(m)' \subseteq Resetting(m)
        <4>1. ASSUME NEW h \in Resetting(m)', h \notin Resetting(m)
              PROVE  FALSE
          <5>1. h \in Handlers /\ h \in Callers
            BY ThreadsAssumption DEF Resetting
          <5>2. RemoveClient(h) /\ machine[h] = m
            BY <4>1, <5>1, ResettingEnters
          <5>3. h # t
            BY <2>5, <5>2
          <5>4. UNCHANGED <<machine, handler>> /\ todo'[h] = todo[h] /\ verdict'[h] = verdict[h]
            BY <1>5, <5>1, <5>3, CallIsOwn, CallOutcome DEF controlVars
          <5> QED
            BY <4>1, <5>1, <5>4 DEF Resetting
        <4> QED
          BY <4>1
      <3>3. Cardinality(Resetting(m)') <= Cardinality(Resetting(m))
        BY <1>2, <3>2, FS_Subset
      <3> QED
        BY <1>2, <1>3, <2>1, <3>1, <3>3
    <2> QED
      BY <2>4, <2>5
  <1>6. ASSUME UNCHANGED ended, \A h \in Handlers : ~ RemoveClient(h)
        PROVE  /\ Resetting(m)' \subseteq Resetting(m)
               /\ Cardinality(Resetting(m)') <= Cardinality(Resetting(m))
    <2>1. Resetting(m)' \subseteq Resetting(m)
      BY <1>6, ResettingEnters DEF Resetting
    <2> QED
      BY <1>2, <2>1, FS_Subset
  <1>7. ASSUME NEW h \in Handlers, AnswerCommand(h)
        PROVE  Cardinality(ToldYes(m)') + Cardinality(Resetting(m)') <= ended'[m]
    <2> DEFINE a == serves[h]
    <2>1. /\ handler[h] = "work" /\ handler'[h] = "close" /\ todo[h] = <<>> /\ UNCHANGED <<ended, todo>>
          /\ a \in DOMAIN command
      BY <1>7 DEF AnswerCommand, Idle, Forget, ControlOK
    <2>2. \A g \in Handlers : ~ RemoveClient(g)
      <3>1. ASSUME NEW g \in Handlers, RemoveClient(g)
            PROVE  FALSE
        <4>1. /\ todo[g] \in Programs /\ Tail(todo[g]) \in Reporting /\ todo[g] \in Leaving
              /\ todo'[g] = Tail(todo[g])
          BY <3>1, ProgramSteps, ThreadsAssumption DEF RemoveClient, At, Continue, Rest, CoreOK, WorkTypes
        <4> QED
          BY <4>1, <2>1, Apart
      <3> QED
        BY <3>1
    <2>3. /\ Resetting(m)' \subseteq Resetting(m) /\ h \notin Resetting(m)'
          /\ Cardinality(Resetting(m)') <= Cardinality(Resetting(m))
      BY <1>6, <2>1, <2>2 DEF Resetting
    <2>4. CASE ToldYes(m)' \subseteq ToldYes(m)
      <3>1. Cardinality(ToldYes(m)') <= Cardinality(ToldYes(m))
        BY <1>2, <2>4, FS_Subset
      <3> QED
        BY <1>2, <1>3, <2>1, <2>3, <3>1
    <2>5. CASE ~ (ToldYes(m)' \subseteq ToldYes(m))
      <3>1. PICK b \in ToldYes(m)' : b \notin ToldYes(m)
        BY <2>5
      <3>2. b \in DOMAIN command /\ command[b].about = m /\ told'[b] = "Yes" /\ told[b] # "Yes"
        BY <1>4, <3>1 DEF ToldYes
      <3>3. b = a /\ verdict[h] = "yes"
        BY <1>7, <3>2, ScenariosAssumption DEF AnswerCommand, ControlOK
      <3>4. h \in Resetting(m)
        BY <2>1, <3>2, <3>3 DEF AboutOK, Resetting
      <3>5. Cardinality(Resetting(m)') <= Cardinality(Resetting(m)) - 1
        BY <1>2, <2>3, <3>4, ShrinkByOne
      <3>6. ToldYes(m)' \subseteq ToldYes(m) \cup {a}
        BY <1>4, <1>7, ScenariosAssumption DEF AnswerCommand, ControlOK, ToldYes
      <3>7. Cardinality(ToldYes(m)') <= Cardinality(ToldYes(m)) + 1
        BY <1>2, <3>6, GrowByOne
      <3> QED
        BY <1>2, <1>3, <2>1, <3>5, <3>7
    <2> QED
      BY <2>4, <2>5
  <1>8. ASSUME UNCHANGED <<told, ended>>, \A h \in Handlers : ~ RemoveClient(h)
        PROVE  Cardinality(ToldYes(m)') + Cardinality(Resetting(m)') <= ended'[m]
    <2>1. ToldYes(m)' = ToldYes(m)
      BY <1>4, <1>8 DEF ToldYes
    <2> QED
      BY <1>2, <1>3, <1>6, <1>8, <2>1
  <1>9. (\E h \in Handlers : AnswerCommand(h)) \/ UNCHANGED told
    BY ControlActions
       DEF controlVars, Start, SendRequest, Finish, Interrupted, AcceptControl, ControlAction,
           ReadCommand, Dispatch, Stop, OpenInternal, AcceptHeir, HandOver, CloseAgain, CloseControl
  <1>10. CASE \E t \in Callers : CallStep(t) /\ UNCHANGED <<serverVars, controlVars>>
    <2>1. PICK t \in Callers : CallStep(t) /\ UNCHANGED <<serverVars, controlVars>>
      BY <1>10
    <2>2. CASE RemoveClient(t)
      BY <1>5, <2>1, <2>2
    <2>3. CASE ~ RemoveClient(t)
      <3>1. UNCHANGED <<told, ended>>
        BY <2>1, <2>3, CallOutcome DEF controlVars
      <3>2. ASSUME NEW h \in Handlers, RemoveClient(h)
            PROVE  FALSE
        <4>1. h \in Callers /\ h # t /\ todo'[h] = todo[h]
          BY <2>1, <2>3, <3>2, CallIsOwn, ThreadsAssumption
        <4>2. todo[h] \in Leaving /\ Tail(todo[h]) \in Reporting /\ todo'[h] = Tail(todo[h])
          BY <3>2, <4>1, ProgramSteps DEF RemoveClient, At, Continue, Rest, CoreOK, WorkTypes
        <4> QED
          BY <4>1, <4>2, Apart
      <3> QED
        BY <1>8, <3>1, <3>2
    <2> QED
      BY <2>2, <2>3
  <1>11. CASE ~ \E t \in Callers : CallStep(t) /\ UNCHANGED <<serverVars, controlVars>>
    <2>1. UNCHANGED ended
      BY <1>11, WorkActions, StartWorkAssigns, DispatchAssigns, AcceptAssigns
         DEF workVars, Assign, EndWork, HandOver, AnswerCommand, Forget
    <2>2. \A h \in Handlers : ~ RemoveClient(h)
      <3>1. ASSUME NEW h \in Handlers, RemoveClient(h)
            PROVE  FALSE
        <4>1. h \in Callers /\ todo[h] \in Leaving /\ Tail(todo[h]) \in Reporting
              /\ todo'[h] = Tail(todo[h])
          BY <3>1, ProgramSteps, ThreadsAssumption DEF RemoveClient, At, Continue, Rest, CoreOK, WorkTypes
        <4>2. todo'[h] # todo[h] /\ machine[h] \in listed /\ listed' = listed \ {machine[h]}
          BY <3>1, <4>1, Apart DEF RemoveClient, CoreOK, LeavingOK
        <4>3. listed' # listed
          BY <4>2
        <4> QED
          BY <1>11, <4>3, WorkActions, StartWorkAssigns, DispatchAssigns, AcceptAssigns
             DEF workVars, Assign, EndWork, HandOver, AnswerCommand, Forget
      <3> QED
        BY <3>1
    <2> QED
      BY <1>7, <1>8, <1>9, <2>1, <2>2
  <1> QED
    BY <1>10, <1>11

-----------------------------------------------------------------------------
(* The descriptors.                                                        *)

\* What holds a descriptor.
FetchPlaces == {"none", "send", "read", "done", "failed"}
Opened == {c \in Conns : conn[c] = "open"}
Sockets == {t \in Fetchers : HoldsSocket(t)}
Unserved == IF unserved = NULL THEN 0 ELSE 1
FetchOK == fetch \in [Fetchers -> FetchPlaces]

\* The steps of a question to the auth server.
FetchAction(t) == Connect(t) \/ GetStep(t) \/ TakeResponse(t)

\* The steps that open or close a descriptor, and what they leave alone.
LEMMA DescriptorActions ==
    ASSUME Next
    PROVE  \/ UNCHANGED <<conn, handler, fetch, fds, lapses>>
           \/ /\ GetConnection(room) \/ \E w \in Slots : EndRequest(w)
              /\ UNCHANGED <<fetch, handler, lapses, scenario>>
           \/ /\ AcceptControl(room) \/ \E h \in Handlers : ControlAction(h)
              /\ UNCHANGED <<fetch, conn, scenario>>
           \/ /\ \E t \in Fetchers : FetchAction(t)
              /\ UNCHANGED <<conn, handler, lapses, scenario>>
           \/ \E c \in Conns : Connects(c) /\ UNCHANGED <<fetch, handler, lapses>>
  <1> USE ThreadsAssumption
  <1>1. CASE Browser \/ Main
    BY <1>1 DEF Browser, Main, controlVars, GetConnection
  <1>2. ASSUME NEW w \in Slots, Worker(w)
        PROVE  \/ UNCHANGED <<conn, handler, fetch, fds, lapses>>
               \/ EndRequest(w) /\ UNCHANGED <<fetch, handler, lapses, scenario>>
               \/ FetchAction(w) /\ UNCHANGED <<conn, handler, lapses, scenario>>
    <2>1. CASE /\ ReadRequestLine(w) \/ CutOff(w) \/ SeeFirst(w) \/ Fill(w) \/ Decode(w)
               /\ UNCHANGED <<fetch, controlVars>>
      BY <2>1 DEF controlVars, ReadRequestLine, CutOff, SeeFirst, Fill, Decode
    <2>2. CASE /\ FindDir(w) \/ NextDir(w) \/ AnswerAtOnce(w) \/ StartWork(w) \/ EndWork(w)
               /\ UNCHANGED <<fetch, controlVars>>
      BY <2>2 DEF controlVars, FindDir, NextDir, AnswerAtOnce, StartWork, EndWork
    <2>3. CASE (EndRequest(w)) /\ UNCHANGED <<fetch, controlVars>>
      BY <2>3 DEF controlVars, EndRequest
    <2>4. CASE CallStep(w) /\ UNCHANGED <<serverVars, controlVars>>
      BY <2>4 DEF CallStep, clientVars, controlVars, serverVars, FetchAction
    <2> QED
      BY <1>2, <2>1, <2>2, <2>3, <2>4 DEF Worker
  <1>3. CASE Listener \/ UserInterrupts \/ \E a \in Admins : Wdctl(a)
    BY <1>3 DEF Listener, UserInterrupts, Wdctl, Start, SendRequest, Finish, Interrupted,
                clientVars, serverVars
  <1>4. ASSUME NEW h \in Handlers, Handler(h)
        PROVE  \/ UNCHANGED <<conn, handler, fetch, fds, lapses>>
               \/ ControlAction(h) /\ UNCHANGED <<fetch, conn, scenario>>
               \/ FetchAction(h) /\ UNCHANGED <<conn, handler, lapses, scenario>>
    <2>1. CASE CallStep(h) /\ UNCHANGED <<serverVars, controlVars>>
      BY <2>1 DEF CallStep, clientVars, controlVars, serverVars, FetchAction
    <2> QED
      BY <1>4, <2>1 DEF Handler, ControlAction, serverVars
  <1>5. CASE Kernel
    BY <1>5 DEF Kernel, Signal, Child, clientVars, serverVars, controlVars, CutOff, FetchAction, GetStep
  <1>6. CASE Exit \/ ForkFails
    BY <1>6 DEF Exit, ForkFails, Ends, clientVars, controlVars
  <1>7. ASSUME NEW h \in Handlers, Heir(h)
        PROVE  ControlAction(h) /\ UNCHANGED <<fetch, conn, scenario>>
    BY <1>7 DEF Heir, ControlAction, serverVars
  <1> QED
    BY <1>1, <1>2, <1>3, <1>4, <1>5, <1>6, <1>7 DEF Next

\* Every step keeps the types of the questions.
LEMMA FetchStep ==
    ASSUME FetchOK, Next
    PROVE  FetchOK'
  <1>1. ASSUME NEW t \in Fetchers, FetchAction(t)
        PROVE  FetchOK'
    BY <1>1 DEF FetchAction, Connect, GetStep, Send, ReadPiece, ReadEnd, ReadTimesOut, GetFails,
                TakeResponse, FetchOK, FetchPlaces
  <1> QED
    BY <1>1, DescriptorActions DEF FetchOK

\* The sets that are counted are finite.
LEMMA DescriptorSets ==
    /\ IsFiniteSet(Opened) /\ Cardinality(Opened) \in Nat
    /\ IsFiniteSet(Talking) /\ Cardinality(Talking) \in Nat
    /\ IsFiniteSet(Restarting) /\ Cardinality(Restarting) \in Nat
    /\ IsFiniteSet(Sockets) /\ Cardinality(Sockets) \in Nat
    /\ Unserved \in Nat
  <1>1. IsFiniteSet(Fetchers) /\ IsFiniteSet(Handlers) /\ IsFiniteSet(Conns)
    BY ThreadsAssumption, ConnectionsAssumption, FS_Union
  <1> QED
    BY <1>1, FS_Subset, FS_CardinalityType DEF Opened, Talking, Restarting, Sockets, Unserved

\* A handler that moves on, and the descriptors it then has.
LEMMA HandlerHolds ==
    ASSUME ControlOK, NEW h \in Handlers, NEW place \in HandlerPlaces,
           handler' = [handler EXCEPT ![h] = place]
    PROVE  /\ place \in {"accept", "send"} <=> handler[h] \in {"accept", "send"} => Restarting' = Restarting
           /\ place \in {"accept", "send"} /\ handler[h] \notin {"accept", "send"} =>
                 Cardinality(Restarting') = Cardinality(Restarting) + 1
           /\ place \notin {"accept", "send"} /\ handler[h] \in {"accept", "send"} =>
                 Cardinality(Restarting') = Cardinality(Restarting) - 1
           /\ place \notin {"free", "twice"} <=> handler[h] \notin {"free", "twice"} => Talking' = Talking
           /\ place \notin {"free", "twice"} /\ handler[h] \in {"free", "twice"} =>
                 Cardinality(Talking') = Cardinality(Talking) + 1
           /\ place \in {"free", "twice"} /\ handler[h] \notin {"free", "twice"} =>
                 Cardinality(Talking') = Cardinality(Talking) - 1
  <1>1. \A g \in Handlers : handler'[g] = IF g = h THEN place ELSE handler[g]
    BY DEF ControlOK
  <1>2. place \in {"accept", "send"} <=> handler[h] \in {"accept", "send"} => Restarting' = Restarting
    BY <1>1 DEF Restarting
  <1>3. ASSUME place \in {"accept", "send"}, handler[h] \notin {"accept", "send"}
        PROVE  Cardinality(Restarting') = Cardinality(Restarting) + 1
    <2>1. Restarting' = Restarting \cup {h} /\ h \notin Restarting
      BY <1>1, <1>3 DEF Restarting
    <2> QED
      BY <2>1, DescriptorSets, FS_AddElement
  <1>4. ASSUME place \notin {"accept", "send"}, handler[h] \in {"accept", "send"}
        PROVE  Cardinality(Restarting') = Cardinality(Restarting) - 1
    <2>1. Restarting' = Restarting \ {h} /\ h \in Restarting
      BY <1>1, <1>4 DEF Restarting
    <2> QED
      BY <2>1, DescriptorSets, FS_RemoveElement
  <1>5. place \notin {"free", "twice"} <=> handler[h] \notin {"free", "twice"} => Talking' = Talking
    BY <1>1 DEF Talking
  <1>6. ASSUME place \notin {"free", "twice"}, handler[h] \in {"free", "twice"}
        PROVE  Cardinality(Talking') = Cardinality(Talking) + 1
    <2>1. Talking' = Talking \cup {h} /\ h \notin Talking
      BY <1>1, <1>6 DEF Talking
    <2> QED
      BY <2>1, DescriptorSets, FS_AddElement
  <1>7. ASSUME place \in {"free", "twice"}, handler[h] \notin {"free", "twice"}
        PROVE  Cardinality(Talking') = Cardinality(Talking) - 1
    <2>1. Talking' = Talking \ {h} /\ h \in Talking
      BY <1>1, <1>7 DEF Talking
    <2> QED
      BY <2>1, DescriptorSets, FS_RemoveElement
  <1> QED
    BY <1>2, <1>3, <1>4, <1>5, <1>6, <1>7

\* Every step keeps the descriptors accounted for.
LEMMA DescriptorsStep ==
    ASSUME RequestsOK, QueueOK, ServedOK, ControlOK, LapsesOK, FetchOK, DescriptorsAccounted, Next
    PROVE  DescriptorsAccounted'
  <1> SUFFICES ASSUME ~ doubled'
               PROVE  DescriptorsAccounted'
    BY DEF DescriptorsAccounted
  <1> DEFINE Sum == /\ fds = scenario.elsewhere + Cardinality(Opened) + Cardinality(Talking)
                             + Cardinality(Restarting) + Cardinality(Sockets) + Unserved
  <1>1. Sum /\ scenario.elsewhere \in Nat /\ UNCHANGED scenario
    BY ScenariosAssumption, SameScenario, LapsesStep
       DEF DescriptorsAccounted, Opened, Sockets, Unserved, RequestsOK
  <1> USE DescriptorSets
  <1> DEFINE Goal == fds' = scenario.elsewhere + Cardinality(Opened') + Cardinality(Talking')
                            + Cardinality(Restarting') + Cardinality(Sockets') + Unserved'
  <1> SUFFICES Goal
    BY <1>1 DEF DescriptorsAccounted, Opened, Sockets, Unserved
  <1>2. /\ UNCHANGED conn => Opened' = Opened
        /\ UNCHANGED handler => Talking' = Talking /\ Restarting' = Restarting
        /\ UNCHANGED fetch => Sockets' = Sockets
        /\ UNCHANGED lapses => Unserved' = Unserved
    BY DEF Opened, Talking, Restarting, Sockets, HoldsSocket, lapses, Unserved
  <1>3. ASSUME fds' = fds, Opened' = Opened, Talking' = Talking, Restarting' = Restarting,
               Sockets' = Sockets, Unserved' = Unserved
        PROVE  Goal
    BY <1>1, <1>3
  <1> HIDE DEF Goal
  <1>4. ASSUME NEW c \in Conns, Connects(c), UNCHANGED <<fetch, handler, lapses>>
        PROVE  Goal
    <2>1. Opened' = Opened /\ fds' = fds
      BY <1>4 DEF Connects, Opened, QueueOK
    <2> QED
      BY <1>2, <1>3, <1>4, <2>1
  <1>5. ASSUME GetConnection(room), UNCHANGED <<fetch, handler, lapses>>
        PROVE  Goal
    <2>1. CASE UNCHANGED <<conn, fds>>
      BY <1>2, <1>3, <1>5, <2>1
    <2>2. CASE queue # <<>> /\ conn' = [conn EXCEPT ![Head(queue)] = "open"] /\ fds' = fds + 1
      <3>1. Head(queue) \in Conns /\ conn[Head(queue)] = "queued"
        BY <2>2 DEF QueueOK
      <3>2. Opened' = Opened \cup {Head(queue)} /\ Head(queue) \notin Opened
        BY <2>2, <3>1 DEF Opened, QueueOK
      <3>3. Cardinality(Opened') = Cardinality(Opened) + 1
        BY <3>2, FS_AddElement
      <3>4. Talking' = Talking /\ Restarting' = Restarting /\ Sockets' = Sockets /\ Unserved' = Unserved
        BY <1>2, <1>5
      <3> QED
        BY <1>1, <2>2, <3>3, <3>4, SMTT(30) DEF Goal
    <2> QED
      BY <1>5, <2>1, <2>2 DEF GetConnection, GetSocket
  <1>6. ASSUME NEW w \in Slots, EndRequest(w), UNCHANGED <<fetch, handler, lapses>>
        PROVE  Goal
    <2>1. CASE request[w].sock = NULL
      BY <1>2, <1>3, <1>6, <2>1 DEF EndRequest
    <2>2. CASE request[w].sock # NULL
      <3> DEFINE c == request[w].sock
      <3>1. c \in Conns /\ conn[c] = "open"
        BY <2>2, ScenariosAssumption DEF RequestsOK, Rightful, ServedOK
      <3>2. conn' = [conn EXCEPT ![c] = "closed"] /\ fds' = fds - 1
        BY <1>6, <2>2 DEF EndRequest
      <3>3. Opened' = Opened \ {c} /\ c \in Opened
        BY <3>1, <3>2 DEF Opened, QueueOK
      <3>4. Cardinality(Opened') = Cardinality(Opened) - 1
        BY <3>3, FS_RemoveElement
      <3>5. Talking' = Talking /\ Restarting' = Restarting /\ Sockets' = Sockets /\ Unserved' = Unserved
        BY <1>2, <1>6
      <3> QED
        BY <1>1, <3>2, <3>4, <3>5 DEF Goal
    <2> QED
      BY <2>1, <2>2
  <1>7. ASSUME AcceptControl(room), UNCHANGED <<fetch, conn>>
        PROVE  Goal
    <2>1. fds' = fds + 1 /\ Opened' = Opened /\ Sockets' = Sockets
      BY <1>2, <1>7 DEF AcceptControl
    <2>2. CASE UNCHANGED handler /\ unserved' = Head(waiting) /\ stopping # "listener" /\ waiting # <<>>
      <3>1. unserved = NULL /\ Head(waiting) \in DOMAIN command
        BY <2>2 DEF LapsesOK, ControlOK
      <3>2. Head(waiting) # NULL
        BY <3>1, ScenariosAssumption, ConnectionsAssumption DEF ControlOK
      <3>3. Unserved = 0 /\ Unserved' = 1
        BY <2>2, <3>1, <3>2 DEF Unserved
      <3>4. Talking' = Talking /\ Restarting' = Restarting
        BY <1>2, <2>2
      <3> QED
        BY <1>1, <2>1, <3>3, <3>4 DEF Goal
    <2>3. ASSUME NEW h \in Handlers, handler[h] = "free", handler' = [handler EXCEPT ![h] = "read"],
                 UNCHANGED unserved
          PROVE  Goal
      <3>1. Cardinality(Talking') = Cardinality(Talking) + 1 /\ Restarting' = Restarting
        BY <2>3, HandlerHolds DEF HandlerPlaces
      <3>2. Unserved' = Unserved
        BY <2>3 DEF Unserved
      <3> QED
        BY <1>1, <2>1, <3>1, <3>2 DEF Goal
    <2> QED
      BY <1>7, <2>2, <2>3 DEF AcceptControl, FreeHandlers
  <1>8. ASSUME NEW h \in Handlers, ControlAction(h), UNCHANGED <<fetch, conn>>
        PROVE  Goal
    <2>1. Opened' = Opened /\ Sockets' = Sockets
      BY <1>2, <1>8
    <2>2. CASE CloseControl(h)
      <3>1. Cardinality(Talking') = Cardinality(Talking) - 1 /\ Restarting' = Restarting
        BY <2>2, HandlerHolds DEF CloseControl, HandlerPlaces
      <3>2. fds' = fds - 1 /\ Unserved' = Unserved
        BY <1>2, <2>2 DEF CloseControl
      <3> QED
        BY <1>1, <2>1, <3>1, <3>2 DEF Goal
    <2>3. ASSUME handler[h] \notin {"free", "twice", "accept", "send"}, NEW place \in HandlerPlaces,
                 place \notin {"free", "twice", "accept", "send"},
                 handler' = [handler EXCEPT ![h] = place], fds' = fds, UNCHANGED lapses
          PROVE  Goal
      <3>1. Talking' = Talking /\ Restarting' = Restarting
        BY <2>3, HandlerHolds
      <3> QED
        BY <1>2, <1>3, <2>1, <2>3, <3>1
    <2>4. CASE ReadCommand(h)
      <3>1. wire[serves[h]] \in Seq(Pieces) /\ wire[serves[h]] # <<>>
        BY <2>4, ScenariosAssumption DEF ReadCommand, ControlOK
      <3>2. AfterPiece(Head(wire[serves[h]])) \in {"read", "command", "close"}
        BY <3>1 DEF AfterPiece, Pieces
      <3> QED
        BY <2>3, <2>4, <3>2 DEF ReadCommand, HandlerPlaces
    <2>5. CASE Dispatch(h)
      BY <2>3, <2>5 DEF Dispatch, HandlerPlaces
    <2>6. CASE Stop(h) \/ AnswerCommand(h)
      BY <2>3, <2>6 DEF Stop, AnswerCommand, HandlerPlaces
    <2>7. CASE OpenInternal(h)
      <3>1. CASE handler' = [handler EXCEPT ![h] = "close"] /\ UNCHANGED fds
        BY <2>3, <2>7, <3>1 DEF OpenInternal, HandlerPlaces
      <3>2. CASE handler' = [handler EXCEPT ![h] = "accept"] /\ fds' = fds + 1
        <4>1. handler[h] = "restart" /\ UNCHANGED lapses
          BY <2>7 DEF OpenInternal
        <4>2. Talking' = Talking /\ Cardinality(Restarting') = Cardinality(Restarting) + 1
          BY <3>2, <4>1, HandlerHolds DEF HandlerPlaces
        <4>3. Unserved' = Unserved
          BY <1>2, <4>1
        <4> QED
          BY <1>1, <2>1, <3>2, <4>2, <4>3 DEF Goal
      <3> QED
        BY <2>7, <3>1, <3>2 DEF OpenInternal
    <2>8. CASE AcceptHeir(h)
      <3>1. handler[h] = "accept" /\ UNCHANGED lapses /\ Unserved' = Unserved
        BY <1>2, <2>8 DEF AcceptHeir
      <3>2. CASE handler' = [handler EXCEPT ![h] = "send"] /\ UNCHANGED fds
        <4>1. Talking' = Talking /\ Restarting' = Restarting
          BY <3>1, <3>2, HandlerHolds DEF HandlerPlaces
        <4> QED
          BY <1>3, <2>1, <3>1, <3>2, <4>1
      <3>3. CASE handler' = [handler EXCEPT ![h] = "close"] /\ fds' = fds - 1
        <4>1. Talking' = Talking /\ Cardinality(Restarting') = Cardinality(Restarting) - 1
          BY <3>1, <3>3, HandlerHolds DEF HandlerPlaces
        <4> QED
          BY <1>1, <2>1, <3>1, <3>3, <4>1 DEF Goal
      <3> QED
        BY <2>8, <3>2, <3>3 DEF AcceptHeir
    <2>9. ~ HandOver(h) /\ ~ CloseAgain(h)
      BY DEF HandOver, CloseAgain, lapses, LapsesOK
    <2> QED
      BY <1>8, <2>2, <2>4, <2>5, <2>6, <2>7, <2>8, <2>9 DEF ControlAction
  <1>9. ASSUME NEW t \in Fetchers, FetchAction(t), UNCHANGED <<conn, handler, lapses>>
        PROVE  Goal
    <2> DEFINE Others == /\ Opened' = Opened /\ Talking' = Talking /\ Restarting' = Restarting
                         /\ Unserved' = Unserved
    <2>0. Others
      BY <1>2, <1>9
    <2>1. ASSUME fetch[t] = "none", fetch' = [fetch EXCEPT ![t] = "send"], fds' = fds + 1
          PROVE  Goal
      <3>1. Sockets' = Sockets \cup {t} /\ t \notin Sockets
        BY <2>1 DEF Sockets, HoldsSocket, FetchOK
      <3>2. Cardinality(Sockets') = Cardinality(Sockets) + 1
        BY <3>1, FS_AddElement
      <3> QED
        BY <1>1, <2>0, <2>1, <3>2 DEF Goal
    <2>2. ASSUME HoldsSocket(t), NEW place \in {"failed", "done"},
                 fetch' = [fetch EXCEPT ![t] = place], fds' = fds - 1
          PROVE  Goal
      <3>1. Sockets' = Sockets \ {t} /\ t \in Sockets
        BY <2>2 DEF Sockets, HoldsSocket, FetchOK
      <3>2. Cardinality(Sockets') = Cardinality(Sockets) - 1
        BY <3>1, FS_RemoveElement
      <3> QED
        BY <1>1, <2>0, <2>2, <3>2 DEF Goal
    <2>3. ASSUME NEW place, fetch' = [fetch EXCEPT ![t] = place], fds' = fds,
                 fetch[t] \in {"send", "read"} <=> place \in {"send", "read"}
          PROVE  Goal
      <3>1. Sockets' = Sockets
        BY <2>3 DEF Sockets, HoldsSocket, FetchOK
      <3> QED
        BY <1>3, <2>0, <2>3, <3>1
    <2>4. CASE Connect(t)
      BY <2>1, <2>3, <2>4 DEF Connect
    <2>5. CASE Send(t)
      BY <2>2, <2>3, <2>5 DEF Send, GetFails, HoldsSocket
    <2>6. CASE ReadPiece(t)
      BY <1>2, <1>3, <1>9, <2>6 DEF ReadPiece
    <2>7. CASE ReadEnd(t)
      BY <2>2, <2>7 DEF ReadEnd, HoldsSocket
    <2>8. CASE ReadTimesOut(t)
      BY <2>2, <2>8 DEF ReadTimesOut, GetFails, HoldsSocket
    <2>9. CASE TakeResponse(t)
      BY <2>3, <2>9 DEF TakeResponse
    <2> QED
      BY <1>9, <2>4, <2>5, <2>6, <2>7, <2>8, <2>9 DEF FetchAction, GetStep
  <1> QED
    BY <1>2, <1>3, <1>4, <1>5, <1>6, <1>7, <1>8, <1>9, DescriptorActions DEF Goal

-----------------------------------------------------------------------------
(* The answers.                                                            *)

\* What can be sent to a browser.
Pages == {"invalid method", "menu", "about", "status", "401", "both needed", "wrong token",
          "invalid token", "no mac", "error page", "redirect", "offline", "login page", "try again"}
\* Connections have been sent sequences of pages.
AnswersOK == answer \in [Conns -> Seq(Pages)]

\* Who sent both halves of Admin, when it matters.
Admitted(scripts, c) ==
    Secured => Admin[1] \in Names(scripts[c]) /\ Admin[2] \in Passwords(scripts[c])
\* Who is in a protected callback, or was sent a protected page, sent Admin.
StatusOK ==
    /\ \A c \in Conns : \A i \in DOMAIN answer[c] :
          answer[c][i] = "status" => Admitted(scenario.scripts, c)
    /\ \A w \in Slots : worker[w] \in {"status", "disconnect"} =>
          Admitted(scenario.scripts, request[w].sock)

\* A step that answers ends the reading or the page, and knows what it sends.
LEMMA AnswerChanges ==
    ASSUME Next, ~ UNCHANGED answer
    PROVE  \E w \in Slots, what \in Pages :
             /\ Goto(w, "end") /\ Reply(w, what) /\ request[w].sock # NULL
             /\ what = "status" => worker[w] = "status"
             /\ ReadRequestLine(w) \/ AnswerAtOnce(w) \/ EndWork(w)
  <1>1. PICK w \in Slots : ReadRequestLine(w) \/ AnswerAtOnce(w) \/ EndWork(w)
    BY ServerActions DEF serverVars, Connects, GetConnection, ServerAction, CutOff, SeeFirst, Fill,
                         Decode, FindDir, NextDir, StartWork, EndRequest
  <1>2. ASSUME NEW what, Reply(w, what)
        PROVE  request[w].sock # NULL
    BY <1>2 DEF Reply
  <1>3. CASE ReadRequestLine(w)
    BY <1>2, <1>3 DEF ReadRequestLine, Pages
  <1>4. CASE AnswerAtOnce(w)
    BY <1>2, <1>4 DEF AnswerAtOnce, SendPage, Pages
  <1>5. CASE EndWork(w)
    BY <1>2, <1>5 DEF EndWork, SendPage, Pages
  <1> QED
    BY <1>1, <1>3, <1>4, <1>5

\* Every step keeps the types of the answers.
LEMMA AnswersStep ==
    ASSUME RequestsOK, AnswersOK, Next
    PROVE  AnswersOK'
  <1>1. CASE UNCHANGED answer
    BY <1>1 DEF AnswersOK
  <1>2. CASE ~ UNCHANGED answer
    <2>1. PICK w \in Slots, what \in Pages : Reply(w, what) /\ request[w].sock # NULL
      BY <1>2, AnswerChanges
    <2>2. request[w].sock \in Conns
      BY <2>1, ScenariosAssumption DEF RequestsOK, Rightful
    <2>3. Append(answer[request[w].sock], what) \in Seq(Pages)
      BY <2>1, <2>2 DEF AnswersOK
    <2> HIDE DEF Pages
    <2> QED
      BY <2>1, <2>2, <2>3 DEF Reply, AnswersOK
  <1> QED
    BY <1>1, <1>2

\* Every step keeps the protected pages protected.
LEMMA StatusStep ==
    ASSUME RequestsOK, AnswersOK, StatusOK, Next
    PROVE  StatusOK'
  <1>1. UNCHANGED scenario
    BY SameScenario
  <1>2. ASSUME NEW c \in Conns, NEW i \in DOMAIN answer'[c], answer'[c][i] = "status"
        PROVE  Admitted(scenario.scripts, c)
    <2>1. CASE i \in DOMAIN answer[c] /\ answer'[c][i] = answer[c][i]
      BY <1>2, <2>1 DEF StatusOK
    <2>2. CASE ~ (i \in DOMAIN answer[c] /\ answer'[c][i] = answer[c][i])
      <3>1. ~ UNCHANGED answer
        BY <1>2, <2>2
      <3>2. PICK w \in Slots, what \in Pages :
                /\ Reply(w, what) /\ request[w].sock # NULL
                /\ what = "status" => worker[w] = "status"
        BY <3>1, AnswerChanges
      <3> DEFINE d == request[w].sock
      <3>3. d \in Conns /\ answer[d] \in Seq(Pages) /\ answer[c] \in Seq(Pages)
        BY <3>2, ScenariosAssumption DEF RequestsOK, Rightful, AnswersOK
      <3>4. answer' = [answer EXCEPT ![d] = Append(answer[d], what)]
        BY <3>2 DEF Reply
      <3>5. c = d
        BY <1>2, <2>2, <3>3, <3>4 DEF AnswersOK
      <3>6. answer'[c] = Append(answer[c], what)
        BY <3>3, <3>4, <3>5 DEF AnswersOK
      <3>7. i = Len(answer[c]) + 1 /\ answer'[c][i] = what
        BY <1>2, <2>2, <3>3, <3>6
      <3> QED
        BY <1>2, <3>2, <3>5, <3>7 DEF StatusOK
    <2> QED
      BY <2>1, <2>2
  <1>3. ASSUME NEW w \in Slots, worker'[w] \in {"status", "disconnect"}
        PROVE  Admitted(scenario.scripts, request'[w].sock)
    <2>2. CASE worker'[w] = worker[w]
      <3>1. request'[w].sock = request[w].sock
        <4>1. worker[w] \in Working
          BY <1>3, <2>2 DEF Working
        <4>2. Rightful(scenario.scripts, worker[w], request[w]) /\ DOMAIN request = Slots
          BY DEF RequestsOK
        <4>3. ASSUME NEW v \in Slots, ServerAction(v)
              PROVE  (v = w /\ EndWork(v)) \/ request'[w] = request[w]
          <5>1. CASE v = w
            BY <4>1, <4>3, <5>1 DEF ServerAction, ReadRequestLine, CutOff, SeeFirst, Fill, Decode,
               FindDir, NextDir, AnswerAtOnce, StartWork, EndRequest, WorkerAt, Working
          <5>2. CASE v # w
            <6>1. CASE ReadRequestLine(v)
              BY <4>2, <5>2, <6>1 DEF ReadRequestLine
            <6>2. CASE ServerAction(v) /\ ~ReadRequestLine(v)
              BY <4>2, <5>2, <6>2 DEF ServerAction, CutOff, SeeFirst, Fill, Decode,
                 FindDir, NextDir, AnswerAtOnce, StartWork, EndWork, EndRequest
            <6> QED
              BY <4>3, <6>1, <6>2
          <5> QED
            BY <5>1, <5>2
        <4>4. CASE GetConnection(room)
          BY <4>1, <4>2, <4>4 DEF GetConnection, FreeSlots, Working
        <4> QED
          BY <4>3, <4>4, ServerActions DEF serverVars, Connects, EndWork
      <3> QED
        BY <1>3, <2>2, <3>1 DEF StatusOK
    <2>3. CASE worker'[w] # worker[w]
      <3>1. ASSUME NEW v \in Slots, NEW place, Goto(v, place)
            PROVE  v = w /\ place = worker'[w]
        BY <2>3, <3>1 DEF Goto, RequestsOK
      <3>2. StartWork(w)
        <4>1. ~ GetConnection(room)
          BY <1>3, <2>3, <3>1 DEF GetConnection, FreeSlots
        <4>2. ASSUME NEW v \in Slots, ServerAction(v)
              PROVE  v = w /\ StartWork(w)
          <5>1. ASSUME ReadRequestLine(v) \/ CutOff(v) \/ SeeFirst(v) \/ Fill(v)
                PROVE  FALSE
            <6>1. CASE ReadRequestLine(v)
              <7>1. UNCHANGED worker \/ \E place \in {"end", "decode", "process"} : Goto(v, place)
                BY <6>1 DEF ReadRequestLine
              <7> QED
                BY <1>3, <2>3, <3>1, <7>1
            <6>2. CASE CutOff(v) \/ SeeFirst(v) \/ Fill(v)
              BY <1>3, <3>1, <6>2 DEF CutOff, SeeFirst, Fill
            <6> QED
              BY <5>1, <6>1, <6>2
          <5>2. ASSUME Decode(v) \/ FindDir(v) \/ NextDir(v) \/ EndRequest(v)
                PROVE  FALSE
            BY <1>3, <2>3, <3>1, <5>2 DEF Decode, FindDir, NextDir, EndRequest
          <5>3. ASSUME AnswerAtOnce(v) \/ EndWork(v)
                PROVE  FALSE
            <6>1. Goto(v, "end")
              BY <5>3 DEF AnswerAtOnce, EndWork
            <6> QED
              BY <1>3, <3>1, <6>1
          <5>4. CASE StartWork(v)
            BY <3>1, <5>4 DEF StartWork
          <5> QED
            BY <4>2, <5>1, <5>2, <5>3, <5>4 DEF ServerAction
        <4> QED
          BY <2>3, <4>1, <4>2, ServerActions DEF serverVars, Connects
      <3>3. Authorised(request[w].auth) /\ UNCHANGED request
        BY <1>3, <3>1, <3>2 DEF StartWork
      <3>4. Rightful(scenario.scripts, worker[w], request[w])
        BY DEF RequestsOK
      <3> QED
        BY <3>3, <3>4, AdminAssumption DEF Rightful, OwnCredentials, SentHalves, Authorised, Admitted
    <2> QED
      BY <2>2, <2>3
  <1> QED
    BY <1>1, <1>2, <1>3 DEF StatusOK

-----------------------------------------------------------------------------
(* The inductive invariant and the theorems.                               *)

\* The inductive invariant.
IInv ==
    /\ RequestsOK /\ QueueOK /\ ServedOK
    /\ ControlOK /\ LapsesOK /\ CoreOK /\ IdleOK /\ AboutOK /\ CountOK
    /\ FetchOK /\ DescriptorsAccounted
    /\ AnswersOK /\ StatusOK

\* The invariant holds at the start.
LEMMA InitIInv ==
    ASSUME Init
    PROVE  IInv
  <1>1. PICK s \in Scenarios : /\ ServerInit(s) /\ ControlInit(s.commands)
                               /\ WorkInit(s.sessions) /\ ClientInit(s.elsewhere)
    BY DEF Init
  <1>2. RequestsOK
    <2>1. Rightful(s.scripts, "free", Blank)
      BY DEF Rightful, Blank, Fields, Decoding, Working, OwnCredentials
    <2> QED
      BY <1>1, <2>1 DEF RequestsOK, ServerInit, Places
  <1>3. QueueOK /\ ServedOK
    <2>1. queue = <<>> /\ Len(queue) = 0 /\ conn \in [Conns -> ConnStates]
      BY <1>1 DEF ServerInit, ConnStates
    <2>2. \A w \in Slots : request[w].sock = NULL
      BY <1>1 DEF ServerInit, Blank
    <2> QED
      BY <2>1, <2>2 DEF QueueOK, ServedOK
  <1>4. ControlOK /\ LapsesOK
    <2>1. ControlOK
      BY <1>1, ScenariosAssumption DEF ControlOK, ServerInit, ControlInit, HandlerPlaces, Pieces
    <2>2. LapsesOK
      BY <1>1 DEF ControlInit, LapsesOK
    <2> QED
      BY <2>1, <2>2
  <1>5. CoreOK
    BY <1>1, EmptyProgram, ThreadsAssumption DEF CoreOK, WorkTypes, LockOK, LeavingOK, WorkInit
  <1>6. IdleOK /\ AboutOK
    BY <1>1, ThreadsAssumption DEF IdleOK, AboutOK, WorkInit, ControlInit
  <1>7. CountOK
    <2>1. \A m \in Machines : ToldYes(m) = {} /\ Resetting(m) = {} /\ ended[m] = 0
      BY <1>1, <1>4, ScenariosAssumption
         DEF ToldYes, Resetting, WorkInit, ControlInit, ControlOK, NULL
    <2> QED
      BY <2>1, FS_EmptySet DEF CountOK
  <1>8. FetchOK
    BY <1>1 DEF FetchOK, FetchPlaces, ClientInit
  <1>9. DescriptorsAccounted
    <2>1. Opened = {} /\ Talking = {} /\ Restarting = {} /\ Sockets = {} /\ unserved = NULL
      BY <1>1 DEF Opened, Talking, Restarting, Sockets, HoldsSocket, ServerInit, ControlInit, ClientInit
    <2>2. fds = scenario.elsewhere /\ scenario.elsewhere \in Nat
      BY <1>1, ScenariosAssumption DEF ServerInit, ClientInit
    <2> QED
      <3>1. Cardinality({}) = 0
        BY FS_EmptySet
      <3>2. {c \in Conns : conn[c] = "open"} = {} /\ {t \in Fetchers : HoldsSocket(t)} = {}
        BY <2>1 DEF Opened, Sockets
      <3>3. /\ Cardinality({c \in Conns : conn[c] = "open"}) = 0 /\ Cardinality(Talking) = 0
            /\ Cardinality(Restarting) = 0 /\ Cardinality({t \in Fetchers : HoldsSocket(t)}) = 0
            /\ (IF unserved = NULL THEN 0 ELSE 1) = 0
        BY <2>1, <3>1, <3>2, Zenon
      <3> QED
        BY <2>2, <3>3 DEF DescriptorsAccounted
  <1>10. AnswersOK /\ StatusOK
    BY <1>1 DEF AnswersOK, StatusOK, ServerInit
  <1> QED
    BY <1>2, <1>3, <1>4, <1>5, <1>6, <1>7, <1>8, <1>9, <1>10 DEF IInv

\* A step that changes nothing keeps the invariant.
LEMMA StutterIInv ==
    ASSUME IInv, UNCHANGED vars
    PROVE  IInv'
  <1> USE DEF IInv, vars, processVars, clientVars, workVars, serverVars, controlVars, lapses
  <1>1. RequestsOK' /\ QueueOK' /\ ServedOK' /\ AnswersOK' /\ StatusOK'
    BY DEF RequestsOK, QueueOK, ServedOK, AnswersOK, StatusOK
  <1>2. ControlOK' /\ LapsesOK' /\ IdleOK' /\ AboutOK'
    BY DEF ControlOK, LapsesOK, IdleOK, AboutOK
  <1>3. CoreOK'
    BY DEF CoreOK, WorkTypes, LockOK, LeavingOK
  <1>4. CountOK'
    BY DEF CountOK, ToldYes, Resetting
  <1>5. FetchOK' /\ DescriptorsAccounted'
    BY DEF FetchOK, DescriptorsAccounted, HoldsSocket, Talking, Restarting
  <1> QED
    BY <1>1, <1>2, <1>3, <1>4, <1>5

\* The invariant holds in every state.
LEMMA Invariant == Spec => []IInv
  <1>1. Init => IInv
    BY InitIInv
  <1>2. IInv /\ [Next]_vars => IInv'
    <2> SUFFICES ASSUME IInv, Next
                 PROVE  IInv'
      BY StutterIInv
    <2> USE DEF IInv
    <2>1. RequestsOK' /\ QueueOK' /\ ServedOK'
      BY RequestsStep, QueueStep
    <2>2. ControlOK' /\ LapsesOK' /\ CoreOK' /\ IdleOK' /\ AboutOK' /\ CountOK'
      BY ControlStep, LapsesStep, CoreStep, IdleStep, AboutStep, CountStep
    <2>3. FetchOK' /\ DescriptorsAccounted'
      BY FetchStep, DescriptorsStep
    <2>4. AnswersOK' /\ StatusOK'
      BY AnswersStep, StatusStep
    <2> QED
      BY <2>1, <2>2, <2>3, <2>4
  <1> QED
    BY <1>1, <1>2, PTL DEF Spec

\* No thread is between the lock and the unlock of the client list while it waits for the
\* auth server, in any interleaving of any number of workers and handlers
\* (authenticate_client, logout_client).
THEOREM AsksWithoutLock == Spec => []LockFreeWhileAsking
  <1>1. IInv => LockFreeWhileAsking
    BY ProgramSteps DEF IInv, CoreOK, WorkTypes, LockOK, LockFreeWhileAsking, At
  <1> QED
    BY <1>1, Invariant, PTL

\* Until a restart is handed over, every descriptor that is open belongs to a connection, a
\* command, a restart or a question that is being served, or is the one connection a listener
\* without a thread has left: no failure of connect, read, write or accept leaves one behind
\* or closes one twice (httpdEndRequest, http_get, thread_wdctl, thread_wdctl_handler).  The
\* hand-over is excepted because wdctl_restart and its caller both close the connection.
THEOREM DescriptorsKept == Spec => []DescriptorsAccounted
  <1>1. IInv => DescriptorsAccounted
    BY DEF IInv
  <1> QED
    BY <1>1, Invariant, PTL

\* Nobody gets the status page, or a client disconnected, without having sent the right name
\* and the right password on the same connection, even when the static variables of libhttpd got mixed
\* up (http_callback_status, http_callback_disconnect, httpdAuthenticate).
THEOREM StatusIsProtected == Spec => []StatusProtected
  <1>1. ASSUME IInv
        PROVE  StatusProtected
    <2> SUFFICES ASSUME Secured
                 PROVE  /\ \A c \in DOMAIN script : "status" \in ToSet(answer[c]) => SentByAdmin(c)
                        /\ \A w \in Slots : worker[w] \in {"status", "disconnect"} =>
                              SentByAdmin(request[w].sock)
      BY DEF StatusProtected
    <2>1. \A c : Admitted(scenario.scripts, c) => SentByAdmin(c)
      <3>1. \A c : Headers(c) = Credentials(scenario.scripts[c])
        BY DEF Headers, Credentials, script
      <3> QED
        BY <3>1 DEF SentByAdmin, Admitted, Names, Passwords
    <2>2. ASSUME NEW c \in DOMAIN script, "status" \in ToSet(answer[c])
          PROVE  SentByAdmin(c)
      <3>1. c \in Conns
        BY <1>1, ScenariosAssumption DEF IInv, RequestsOK, script
      <3>2. \E i \in DOMAIN answer[c] : answer[c][i] = "status"
        BY <2>2 DEF ToSet
      <3> QED
        BY <1>1, <2>1, <3>1, <3>2 DEF IInv, StatusOK
    <2>3. ASSUME NEW w \in Slots, worker[w] \in {"status", "disconnect"}
          PROVE  SentByAdmin(request[w].sock)
      BY <1>1, <2>1, <2>3 DEF IInv, StatusOK
    <2> QED
      BY <2>2, <2>3
  <1> QED
    BY <1>1, Invariant, PTL

\* However many wdctl reset commands race for a client, at most one of them is told Yes for
\* each of its sessions (wdctl_reset, logout_client).
THEOREM SessionsResetOnce == Spec => []ResetOnce
  <1>1. ASSUME IInv
        PROVE  ResetOnce
    <2> SUFFICES ASSUME NEW m \in Machines
                 PROVE  Cardinality(ToldYes(m)) <= ended[m]
      BY DEF ResetOnce, ToldYes
    <2>1. IsFiniteSet(ToldYes(m)) /\ IsFiniteSet(Resetting(m))
      <3>1. ToldYes(m) \subseteq Admins /\ Resetting(m) \subseteq Handlers
        BY <1>1, ScenariosAssumption DEF IInv, ControlOK, ToldYes, Resetting
      <3> QED
        BY <3>1, FS_Subset, ThreadsAssumption, ConnectionsAssumption
    <2>2. Cardinality(ToldYes(m)) \in Nat /\ Cardinality(Resetting(m)) \in Nat /\ ended[m] \in Nat
      BY <1>1, <2>1, FS_CardinalityType DEF IInv, CoreOK, WorkTypes
    <2> QED
      BY <1>1, <2>2 DEF IInv, CountOK
  <1> QED
    BY <1>1, Invariant, PTL

\* The children of execute have a state.
ChildOK == child \in [Callers -> {"none", "running", "zombie", "reaped"}]

\* Only these steps change the children of execute.
LEMMA ChildActions ==
    ASSUME Next
    PROVE  \/ UNCHANGED processVars
           \/ \E t \in Callers : Fork(t) \/ ChildEnds(t) \/ WaitReturns(t)
           \/ sigchld_handler
  <1> USE ThreadsAssumption
  <1>1. ASSUME NEW t \in Callers, CallStep(t)
        PROVE  UNCHANGED processVars \/ Fork(t) \/ WaitReturns(t)
    BY <1>1 DEF CallStep
  <1> QED
    BY <1>1 DEF Next, Browser, Main, Listener, UserInterrupts, Kernel, Signal, Child, Exit, ForkFails,
                Ends, Worker, Wdctl, Handler, Heir

\* execute reports success only for a child that was started and that ended with status 0,
\* although every thread shares SIGCHLD (execute, sigchld_handler).
THEOREM SuccessIsReal == Spec => NoFalseSuccess
  <1> DEFINE True(t) == child[t] # "none" /\ child'[t] = "none" /\ rc' = 0 => status[t] = 0
  <1>1. Init => ChildOK
    BY DEF Init, ProcessInit, ChildOK
  <1>2. ASSUME ChildOK, [Next]_vars
        PROVE  ChildOK' /\ [\A t \in Callers : True(t)]_processVars
    <2>1. CASE UNCHANGED processVars
      BY <1>2, <2>1 DEF processVars, ChildOK
    <2>2. ASSUME NEW t \in Callers, Fork(t) \/ ChildEnds(t)
          PROVE  ChildOK' /\ \A u \in Callers : True(u)
      BY <1>2, <2>2 DEF Fork, ChildEnds, ChildOK
    <2>3. ASSUME NEW t \in Callers, WaitReturns(t)
          PROVE  ChildOK' /\ \A u \in Callers : True(u)
      BY <1>2, <2>3 DEF WaitReturns, Result, ChildOK
    <2>4. CASE sigchld_handler
      BY <1>2, <2>4 DEF sigchld_handler, ChildOK
    <2> QED
      BY <1>2, <2>1, <2>2, <2>3, <2>4, ChildActions DEF vars
  <1> QED
    BY <1>1, <1>2, PTL DEF Spec, NoFalseSuccess

-----------------------------------------------------------------------------
(* The answers.  The proof follows the search of _httpd_findContentDir     *)
(* from one directory to the next: while the static variables are not      *)
(* mixed up, the search of each worker is in the path of its own request   *)
(* (WalkOK), hence the callback it reaches is the one of the page asked    *)
(* for (PlaceOK), and what that sends is an answer to it (ShownOK).        *)

\* The names between the slashes of a path.
Segments == STRING \ {NULL}

\* Where the search for the directory of a path can be: at the root, in
\* /wifidog, or given up.
Walk(p, item, dir) ==
    LET f == Front(p) IN
    \/ item = "root" /\ dir = Tokens(f)
    \/ item = "wifidog" /\ f # <<>> /\ Head(f) = "wifidog" /\ dir = Tokens(Tail(f))
    \/ item = NULL /\ dir = NULL /\ f # <<"wifidog">> /\ f # <<>>

\* The page a path names, and the one a search that is over has found.
Named(p) ==
    IF p = <<"wifidog">> THEN ""
    ELSE IF Front(p) = <<"wifidog">> /\ Last(p) \in Entries["wifidog"] THEN Last(p) ELSE "404"
Found(p, item) ==
    IF item = NULL THEN "404" ELSE IF Last(p) \in Entries[item] THEN Last(p) ELSE "404"

\* What the front of a path is.
LEMMA FrontOfPath ==
    ASSUME NEW p \in Seq(Segments), p # <<>>
    PROVE  /\ Front(p) \in Seq(Segments) /\ Len(Front(p)) = Len(p) - 1
           /\ Len(p) = 1 <=> Front(p) = <<>>
           /\ p = <<"wifidog">> <=> Front(p) = <<>> /\ Last(p) = "wifidog"
           /\ Front(p) # <<>> => Head(Front(p)) # NULL
           /\ Front(p) # <<>> => Tail(Front(p)) \in Seq(Segments)
  <1>1. Len(p) \in Nat /\ Len(p) > 0 /\ \A i \in 1 .. Len(p) : p[i] \in Segments
    OBVIOUS
  <1>2. Front(p) \in Seq(Segments) /\ Len(Front(p)) = Len(p) - 1
    <2>1. 1 \in Int /\ Len(p) - 1 \in Int /\ \A i \in 1 .. Len(p) - 1 : p[i] \in Segments
      BY <1>1
    <2>2. /\ Front(p) \in Seq(Segments)
          /\ Len(Front(p)) = IF 1 <= Len(p) - 1 THEN Len(p) - 1 - 1 + 1 ELSE 0
      BY <2>1, SubSeqProperties DEF Front
    <2> DEFINE n == Len(p)
    <2>3. n \in Nat /\ n > 0
      BY <1>1
    <2>4. Len(Front(p)) = IF 1 <= n - 1 THEN n - 1 - 1 + 1 ELSE 0
      BY <2>2
    <2> HIDE DEF n
    <2>5. Len(Front(p)) = n - 1
      BY <2>3, <2>4
    <2> QED
      BY <2>2, <2>5 DEF n
  <1>3. Len(p) = 1 <=> Front(p) = <<>>
    BY <1>1, <1>2
  <1>4. p = <<"wifidog">> <=> Len(p) = 1 /\ Last(p) = "wifidog"
    BY <1>1 DEF Last
  <1>5. Front(p) # <<>> => Head(Front(p)) \in Segments /\ Tail(Front(p)) \in Seq(Segments)
    BY <1>2
  <1> QED
    BY <1>2, <1>3, <1>4, <1>5 DEF Segments

\* A front that is one name.
LEMMA OnlySegment ==
    ASSUME NEW f \in Seq(Segments), f # <<>>
    PROVE  f = <<"wifidog">> <=> Head(f) = "wifidog" /\ Tail(f) = <<>>
  <1>1. ASSUME Head(f) = "wifidog", Tail(f) = <<>>
        PROVE  f = <<"wifidog">>
    <2>1. Len(Tail(f)) = Len(f) - 1
      BY HeadTailProperties
    <2>2. Len(f) \in Nat
      OBVIOUS
    <2>3. Len(<<>>) = 0
      OBVIOUS
    <2>4. Len(f) = 1
      BY <1>1, <2>1, <2>2, <2>3
    <2>5. f = <<f[1]>> /\ f[1] = Head(f)
      BY <2>4
    <2> QED
      BY <1>1, <2>5
  <1>2. Head(<<"wifidog">>) = "wifidog" /\ Tail(<<"wifidog">>) = <<>>
    OBVIOUS
  <1> QED
    BY <1>1, <1>2

\* The search ends where the path leads.
LEMMA WalkEnds ==
    ASSUME NEW p \in Seq(Segments), p # <<>>, NEW item, Walk(p, item, NULL)
    PROVE  (Found(p, item) = "wifidog" /\ Named(p) = "") \/ Found(p, item) = Named(p)
  <1> DEFINE f == Front(p)
  <1>1. CASE item = "root" /\ NULL = Tokens(f)
    <2>1. f = <<>>
      BY <1>1, FrontOfPath DEF Tokens
    <2>2. f # <<"wifidog">>
      BY <2>1
    <2> QED
      BY <1>1, <2>1, <2>2, FrontOfPath DEF Found, Named, Entries, NULL
  <1>2. CASE item = "wifidog" /\ f # <<>> /\ Head(f) = "wifidog" /\ NULL = Tokens(Tail(f))
    <2>1. Tail(f) = <<>>
      <3>1. f \in Seq(Segments) /\ Tail(f) \in Seq(Segments)
        BY <1>2, FrontOfPath
      <3>2. Tail(f) # <<>> => Head(Tail(f)) \in Segments
        BY <3>1
      <3> QED
        BY <1>2, <3>2 DEF Tokens, Segments
    <2>2. f = <<"wifidog">>
      BY <1>2, <2>1, FrontOfPath, OnlySegment
    <2> QED
      BY <1>2, <2>2, FrontOfPath DEF Found, Named, NULL
  <1>3. CASE item = NULL /\ f # <<"wifidog">> /\ f # <<>>
    BY <1>3, FrontOfPath DEF Found, Named
  <1> QED
    BY <1>1, <1>2, <1>3 DEF Walk

\* One round of the loop, with a token of the path itself.
LEMMA WalkGivesUp ==
    ASSUME NEW p \in Seq(Segments), p # <<>>, NEW item, NEW dir, Walk(p, item, dir), dir # NULL,
           dir \notin Children[item]
    PROVE  Walk(p, NULL, NULL)
  <1> DEFINE f == Front(p)
  <1>1. CASE item = "root" /\ dir = Tokens(f)
    <2>1. f # <<>> /\ Head(f) # "wifidog"
      BY <1>1 DEF Tokens, Children
    <2> QED
      BY <2>1 DEF Walk
  <1>2. CASE item = "wifidog" /\ f # <<>> /\ dir = Tokens(Tail(f))
    <2>1. Tail(f) # <<>>
      BY <1>2 DEF Tokens
    <2> QED
      BY <1>2, <2>1, FrontOfPath, OnlySegment DEF Walk
  <1> QED
    BY <1>1, <1>2 DEF Walk

\* One step of the search goes down one directory or gives up.
LEMMA WalkGoesDown ==
    ASSUME NEW p \in Seq(Segments), p # <<>>, NEW item, NEW dir, Walk(p, item, dir), dir # NULL,
           dir \in Children[item]
    PROVE  item = "root" /\ dir = "wifidog" /\ Front(p) # <<>> /\ Len(p) # 1
           /\ Walk(p, dir, Tokens(Tail(Front(p))))
  <1> DEFINE f == Front(p)
  <1>1. item = "root" /\ dir = Tokens(f) /\ dir = "wifidog"
    BY DEF Walk, Children
  <1>2. f # <<>> /\ Head(f) = "wifidog"
    BY <1>1 DEF Tokens
  <1> QED
    BY <1>1, <1>2, FrontOfPath DEF Walk

-----------------------------------------------------------------------------
(* The connections and what they are answered.                             *)

\* A worker whose search the static variables did not disturb.
Unmixed(w) == request[w].sock # NULL /\ request[w].sock \notin mixed

\* What is left for strtok is what is left of the path, as long as nobody
\* else has used it.
SaveOK == DOMAIN save = {"owner", "left"}
\* The search of a worker is where it can be in the path of its own request.
WalkOK ==
    \A w \in Slots : worker[w] = "dir" /\ Unmixed(w) =>
        LET r == request[w] IN
        /\ Walk(r.path, r.curItem, r.curDir)
        /\ save.owner = w /\ r.curItem = "root" =>
             save.left = IF Len(r.path) = 1 THEN <<>> ELSE Tail(Front(r.path))
\* A worker works for the page that was asked for.
PlaceOK ==
    \A w \in Slots, c \in Conns : worker[w] \in Working /\ request[w].sock = c /\ c \notin mixed =>
        Asked(c) = IF worker[w] = "host" THEN "404" ELSE worker[w]
\* A connection was answered only when its worker is about to end it, or has.
OnceOK ==
    \A c \in Conns :
        /\ Len(answer[c]) <= 1
        /\ answer[c] # <<>> => /\ conn[c] \in {"open", "closed"}
                               /\ \A w \in Slots : request[w].sock = c => worker[w] = "end"
\* What was sent is what was asked for.
ShownOK ==
    \A c \in Conns : \A i \in DOMAIN answer[c] :
        c \in mixed \/ (c \in DOMAIN script /\ answer[c][i] \in MayShow(c))
\* The part of the inductive invariant about answers.
PagesOK == SaveOK /\ WalkOK /\ PlaceOK /\ OnceOK /\ ShownOK

\* The path of a request is a path, and names what was asked for.
LEMMA PathOfRequest ==
    ASSUME RequestsOK, NEW w \in Slots, request[w].path # <<>>
    PROVE  /\ request[w].path \in Seq(Segments) /\ request[w].sock # NULL
           /\ request[w].sock \in DOMAIN script
           /\ Asked(request[w].sock) = Named(request[w].path)
  <1> DEFINE r == request[w]
             c == r.sock
             l == script[c][1]
  <1>1. /\ Rightful(scenario.scripts, worker[w], r) /\ scenario \in Scenarios
    BY DEF RequestsOK
  <1>2. /\ c # NULL /\ c \in DOMAIN script /\ 1 \in DOMAIN script[c] /\ l.kind = "get"
        /\ r.path = SanitiseUrl(l.path)
    BY <1>1 DEF Rightful, script
  <1>3. l.path # <<>>
    BY <1>2 DEF SanitiseUrl
  <1>4. r.path \in Seq(Segments)
    BY <1>1, <1>2, <1>3, PathsAssumption DEF script, Segments
  <1>5. script[c] # <<>>
    BY <1>2
  <1>6. Asked(c) = Named(r.path)
    BY <1>2, <1>3, <1>5 DEF Asked, Named
  <1> QED
    BY <1>2, <1>4, <1>6

\* What a step of one worker leaves alone.
LEMMA OthersKept ==
    ASSUME RequestsOK, SaveOK, NEW v \in Slots, ServerAction(v), NEW w \in Slots, w # v
    PROVE  /\ worker'[w] = worker[w] /\ request'[w] = request[w] /\ mixed \subseteq mixed'
           /\ save'.owner = w => /\ save.owner = w
                                 /\ save'.left = save.left \/ request[w].sock \in mixed'
  <1>1. /\ DOMAIN request = Slots /\ DOMAIN worker = Slots
    BY DEF RequestsOK
  <1>2. CASE ReadRequestLine(v)
    BY <1>1, <1>2 DEF ReadRequestLine, Goto
  <1>3. CASE CutOff(v) \/ SeeFirst(v) \/ Fill(v) \/ Decode(v)
    BY <1>1, <1>3 DEF CutOff, SeeFirst, Fill, Decode, Goto
  <1>4. CASE AnswerAtOnce(v) \/ StartWork(v) \/ EndWork(v) \/ EndRequest(v)
    BY <1>1, <1>4 DEF AnswerAtOnce, StartWork, EndWork, EndRequest, Goto
  <1>5. CASE FindDir(v)
    BY <1>1, <1>5 DEF FindDir, Goto
  <1>6. CASE NextDir(v)
    <2>1. UNCHANGED worker /\ request'[w] = request[w] /\ mixed \subseteq mixed'
      BY <1>1, <1>6 DEF NextDir
    <2>2. CASE UNCHANGED save
      BY <2>1, <2>2
    <2>3. CASE ~ UNCHANGED save
      <3>1. /\ save' = [save EXCEPT !.left = IF @ = <<>> THEN @ ELSE Tail(@)]
            /\ mixed' = IF ~Overwritten(v) THEN mixed
                        ELSE mixed \cup {request[v].sock, request[save.owner].sock}
        BY <1>6, <2>3 DEF NextDir
      <3>2. save'.owner = save.owner
        BY <3>1 DEF SaveOK
      <3>3. save.owner = w => request[w].sock \in mixed'
        BY <3>1 DEF Overwritten
      <3> QED
        BY <2>1, <3>2, <3>3
    <2> QED
      BY <2>2, <2>3
  <1> QED
    BY <1>2, <1>3, <1>4, <1>5, <1>6 DEF ServerAction

\* Every step keeps what strtok_r saved.
LEMMA SaveStep ==
    ASSUME SaveOK, Next
    PROVE  SaveOK'
  BY ServerActions, ZenonT(60)
     DEF SaveOK, serverVars, Connects, GetConnection, ServerAction, ReadRequestLine, CutOff, SeeFirst,
         Fill, Decode, FindDir, NextDir, AnswerAtOnce, StartWork, EndWork, EndRequest

\* What a connection asks for does not change.
LEMMA SameQuestions ==
    ASSUME Next
    PROVE  /\ script' = script
           /\ \A c : Asked(c)' = Asked(c) /\ MayShow(c)' = MayShow(c)
  <1>1. UNCHANGED scenario
    BY SameScenario
  <1>2. script' = script
    BY <1>1 DEF script
  <1>3. \A c : Asked(c)' = Asked(c)
    BY <1>2 DEF Asked
  <1> QED
    BY <1>2, <1>3 DEF MayShow

\* What got mixed up stays so.
LEMMA MixedGrows ==
    ASSUME Next
    PROVE  mixed \subseteq mixed'
  BY ServerActions, ZenonT(60)
     DEF serverVars, Connects, GetConnection, ServerAction, ReadRequestLine, CutOff, SeeFirst,
         Fill, Decode, FindDir, NextDir, AnswerAtOnce, StartWork, EndWork, EndRequest

\* A worker whose own step it is not keeps its request; one that has just
\* been started is reading.
LEMMA OwnStep ==
    ASSUME RequestsOK, SaveOK, Next, NEW w \in Slots
    PROVE  \/ ServerAction(w)
           \/ worker'[w] = "read" /\ worker[w] = "free"
           \/ /\ worker'[w] = worker[w] /\ request'[w] = request[w]
              /\ save'.owner = w => /\ save.owner = w
                                    /\ save'.left = save.left \/ request[w].sock \in mixed'
  <1>1. CASE UNCHANGED <<worker, request, save>>
    BY <1>1
  <1>2. CASE GetConnection(room)
    <2>1. DOMAIN request = Slots /\ DOMAIN worker = Slots /\ UNCHANGED save
      BY <1>2 DEF RequestsOK, GetConnection
    <2>2. ASSUME NEW v \in Slots, worker[v] = "free", Goto(v, "read"), NEW r,
                 request' = [request EXCEPT ![v] = r]
          PROVE  \/ worker'[w] = "read" /\ worker[w] = "free"
                 \/ worker'[w] = worker[w] /\ request'[w] = request[w]
      BY <2>1, <2>2 DEF Goto
    <2> QED
      BY <1>1, <1>2, <2>1, <2>2 DEF GetConnection, FreeSlots
  <1>3. ASSUME NEW v \in Slots, ServerAction(v), v # w
        PROVE  /\ worker'[w] = worker[w] /\ request'[w] = request[w]
               /\ save'.owner = w => /\ save.owner = w
                                     /\ save'.left = save.left \/ request[w].sock \in mixed'
    BY <1>3, OthersKept
  <1> QED
    BY <1>1, <1>2, <1>3, ServerActions DEF serverVars, Connects

\* Every step keeps the searches.
LEMMA WalkStep ==
    ASSUME RequestsOK, SaveOK, WalkOK, Next
    PROVE  WalkOK'
  <1> SUFFICES ASSUME NEW w \in Slots, worker'[w] = "dir", Unmixed(w)'
               PROVE  LET r == request'[w] IN
                      /\ Walk(r.path, r.curItem, r.curDir)
                      /\ save'.owner = w /\ r.curItem = "root" =>
                           save'.left = IF Len(r.path) = 1 THEN <<>> ELSE Tail(Front(r.path))
    BY DEF WalkOK
  <1> DEFINE r == request[w]
             q == request'[w]
             Left(p) == IF Len(p) = 1 THEN <<>> ELSE Tail(Front(p))
             Goal == /\ Walk(q.path, q.curItem, q.curDir)
                     /\ save'.owner = w /\ q.curItem = "root" => save'.left = Left(q.path)
  <1> SUFFICES Goal
    OBVIOUS
  <1>1. q.sock # NULL /\ q.sock \notin mixed' /\ mixed \subseteq mixed'
    BY MixedGrows DEF Unmixed
  <1>2. CASE /\ worker'[w] = worker[w] /\ q = r
             /\ save'.owner = w => /\ save.owner = w
                                   /\ save'.left = save.left \/ r.sock \in mixed'
    <2>1. Unmixed(w) /\ worker[w] = "dir"
      BY <1>1, <1>2 DEF Unmixed
    <2>2. Walk(r.path, r.curItem, r.curDir) /\ (save.owner = w /\ r.curItem = "root" => save.left = Left(r.path))
      BY <2>1 DEF WalkOK
    <2> QED
      BY <1>1, <1>2, <2>2
  <1>3. Rightful(scenario.scripts, worker[w], r) /\ DOMAIN request = Slots /\ DOMAIN r = Fields
        /\ worker \in [Slots -> Places]
    BY DEF RequestsOK, Rightful
  <1>4. CASE FindDir(w)
    <2>1. /\ request' = [request EXCEPT ![w].curItem = "root", ![w].curDir = Tokens(Front(r.path))]
          /\ save' = [owner |-> w, left |-> Left(r.path)]
      BY <1>3, <1>4 DEF FindDir, Goto
    <2>2. q.path = r.path /\ q.curItem = "root" /\ q.curDir = Tokens(Front(r.path))
      BY <1>3, <2>1 DEF Fields
    <2>3. save'.left = Left(r.path)
      BY <2>1
    <2> HIDE DEF q, Left
    <2>4. Walk(q.path, q.curItem, q.curDir)
      BY <2>2 DEF Walk
    <2> QED
      BY <2>2, <2>3, <2>4 DEF Left
  <1>5. CASE NextDir(w)
    <2>1. worker[w] = "dir" /\ r.curDir # NULL /\ r.path # <<>>
      BY <1>3, <1>5 DEF NextDir, WorkerAt, Rightful
    <2>2. r.path \in Seq(Segments)
      BY <2>1, PathOfRequest
    <2>3. q.sock = r.sock /\ q.path = r.path
      BY <1>3, <1>5 DEF NextDir, Fields
    <2>4. Walk(r.path, r.curItem, r.curDir) /\ (save.owner = w /\ r.curItem = "root" => save.left = Left(r.path))
      <3>1. Unmixed(w)
        BY <1>1, <2>3 DEF Unmixed
      <3> QED
        BY <2>1, <3>1 DEF WalkOK
    <2>5. CASE r.curDir \notin Children[r.curItem]
      <3>1. q.curItem = NULL /\ q.curDir = NULL
        BY <1>3, <1>5, <2>5 DEF NextDir, Fields
      <3>2. Walk(r.path, NULL, NULL)
        BY <2>1, <2>2, <2>4, <2>5, WalkGivesUp
      <3> HIDE DEF q
      <3> QED
        BY <2>3, <3>1, <3>2 DEF NULL
    <2>6. CASE r.curDir \in Children[r.curItem]
      <3>1. PICK token \in {Tokens(save.left)} \cup (IF Stale(w) THEN {NULL, "garbage"} ELSE {}) :
                 request' = [request EXCEPT ![w].curItem = r.curDir, ![w].curDir = token]
        BY <1>5, <2>6 DEF NextDir
      <3>2. q.curItem = r.curDir /\ q.curDir = token
        BY <1>3, <3>1 DEF Fields
      <3>3. ~ Overwritten(w)
        BY <1>1, <1>5, <2>3, <2>6 DEF NextDir
      <3>4. token = Tokens(save.left) /\ save.owner = w
        BY <3>1, <3>3 DEF Stale, Overwritten
      <3>5. /\ r.curItem = "root" /\ r.curDir = "wifidog" /\ Len(r.path) # 1
            /\ Walk(r.path, r.curDir, Tokens(Tail(Front(r.path))))
        BY <2>1, <2>2, <2>4, <2>6, WalkGoesDown
      <3>6. save.left = Tail(Front(r.path))
        BY <2>4, <3>4, <3>5
      <3> HIDE DEF q
      <3> QED
        BY <2>3, <3>2, <3>4, <3>5, <3>6
    <2> QED
      BY <2>5, <2>6
  <1>6. ASSUME ServerAction(w), ~FindDir(w), ~NextDir(w)
        PROVE  FALSE
    <2>1. \E place \in Places \ {"dir"} : worker'[w] = place
      <3>1. CASE ReadRequestLine(w)
        BY <1>3, <3>1 DEF ReadRequestLine, WorkerAt, Goto, Places, Decoding
      <3>2. CASE CutOff(w) \/ SeeFirst(w) \/ Fill(w) \/ Decode(w)
        BY <1>3, <3>2 DEF CutOff, SeeFirst, Fill, Decode, Goto, Places, Decoding
      <3>3. CASE AnswerAtOnce(w) \/ StartWork(w) \/ EndWork(w) \/ EndRequest(w)
        BY <1>3, <3>3 DEF AnswerAtOnce, StartWork, EndWork, EndRequest, Goto, Places, Working
      <3> QED
        BY <1>6, <3>1, <3>2, <3>3 DEF ServerAction
    <2> QED
      BY <2>1
  <1> QED
    BY <1>2, <1>4, <1>5, <1>6, OwnStep

\* The page of a search that is over is the one that was asked for.
LEMMA PageAsked ==
    ASSUME RequestsOK, WalkOK, NEW w \in Slots, worker[w] = "dir", request[w].curDir = NULL, Unmixed(w)
    PROVE  \/ Page(w) = "wifidog" /\ Asked(request[w].sock) = ""
           \/ Page(w) = Asked(request[w].sock)
  <1> DEFINE r == request[w]
  <1>1. r.path # <<>>
    BY DEF RequestsOK, Rightful
  <1>2. r.path \in Seq(Segments) /\ Asked(r.sock) = Named(r.path)
    BY <1>1, PathOfRequest
  <1>3. Walk(r.path, r.curItem, NULL)
    BY DEF WalkOK
  <1>4. Page(w) = Found(r.path, r.curItem)
    BY DEF Page, Found
  <1> QED
    BY <1>1, <1>2, <1>3, <1>4, WalkEnds

\* Every step keeps each callback for the page that was asked for.
LEMMA PlaceStep ==
    ASSUME RequestsOK, SaveOK, WalkOK, PlaceOK, Next
    PROVE  PlaceOK'
  <1> SUFFICES ASSUME NEW w \in Slots, NEW c \in Conns,
                      worker'[w] \in Working, request'[w].sock = c, c \notin mixed'
               PROVE  Asked(c)' = IF worker'[w] = "host" THEN "404" ELSE worker'[w]
    BY DEF PlaceOK
  <1>1. mixed \subseteq mixed' /\ Asked(c)' = Asked(c) /\ c # NULL
    BY MixedGrows, SameQuestions, ConnectionsAssumption
  <1>2. CASE worker'[w] = worker[w] /\ request'[w] = request[w]
    BY <1>1, <1>2 DEF PlaceOK
  <1>3. CASE StartWork(w)
    <2>1. UNCHANGED <<request, mixed>> /\ worker[w] = "dir" /\ request[w].curDir = NULL
      BY <1>3 DEF StartWork, WorkerAt
    <2>2. Unmixed(w)
      BY <1>1, <2>1 DEF Unmixed
    <2>3. Page(w) = IF worker'[w] = "host" THEN "404" ELSE worker'[w]
      <3>1. DOMAIN worker = Slots
        BY DEF RequestsOK
      <3>2. \/ Page(w) = "status" /\ Goto(w, "status")
            \/ Page(w) = "disconnect" /\ Goto(w, "disconnect")
            \/ Page(w) = "auth" /\ Goto(w, "auth")
            \/ Page(w) = "404" /\ Goto(w, "host")
        BY <1>3 DEF StartWork
      <3> QED
        BY <3>1, <3>2 DEF Goto
    <2>4. Page(w) # "wifidog"
      BY <2>3 DEF Working
    <2> QED
      BY <1>1, <2>1, <2>2, <2>3, <2>4, PageAsked
  <1>4. ASSUME ServerAction(w), ~StartWork(w)
        PROVE  FALSE
    <2>1. worker \in [Slots -> Places]
      BY DEF RequestsOK
    <2>2. CASE ReadRequestLine(w)
      BY <2>1, <2>2 DEF ReadRequestLine, WorkerAt, Goto, Working
    <2>3. CASE CutOff(w) \/ SeeFirst(w) \/ Fill(w) \/ Decode(w)
      BY <2>1, <2>3 DEF CutOff, SeeFirst, Fill, Decode, Goto, Working
    <2>4. CASE FindDir(w) \/ NextDir(w)
      BY <2>1, <2>4 DEF FindDir, NextDir, WorkerAt, Goto, Working
    <2>5. CASE AnswerAtOnce(w) \/ EndWork(w) \/ EndRequest(w)
      BY <2>1, <2>5 DEF AnswerAtOnce, EndWork, EndRequest, Goto, Working
    <2> QED
      BY <1>4, <2>2, <2>3, <2>4, <2>5 DEF ServerAction
  <1> QED
    BY <1>2, <1>3, <1>4, OwnStep DEF Working

\* Who answers has not answered before.
LEMMA AnswerPlace ==
    ASSUME NEW w \in Slots, ReadRequestLine(w) \/ AnswerAtOnce(w) \/ EndWork(w)
    PROVE  worker[w] # "end" /\ UNCHANGED <<conn, mixed, scenario>>
  BY DEF ReadRequestLine, AnswerAtOnce, EndWork, WorkerAt

\* A worker that has answered can only end its request.
LEMMA EndedWorker ==
    ASSUME NEW w \in Slots, ServerAction(w), worker[w] = "end"
    PROVE  EndRequest(w)
  BY DEF ServerAction, ReadRequestLine, CutOff, SeeFirst, Fill, Decode, FindDir, NextDir,
         AnswerAtOnce, StartWork, EndWork, WorkerAt

\* A worker that answers keeps its connection and disturbs no other.
LEMMA SockKept ==
    ASSUME RequestsOK, NEW w \in Slots, ReadRequestLine(w) \/ AnswerAtOnce(w) \/ EndWork(w),
           Goto(w, "end")
    PROVE  /\ worker'[w] = "end"
           /\ \A v \in Slots : /\ request'[v].sock = request[v].sock
                               /\ v # w => worker'[v] = worker[v]
  <1>1. ServerAction(w) /\ ~EndRequest(w)
    BY DEF ServerAction, ReadRequestLine, AnswerAtOnce, EndWork, EndRequest, WorkerAt
  <1>2. DOMAIN worker = Slots
    BY DEF RequestsOK
  <1> QED
    BY <1>1, <1>2, SocksKept DEF Goto

\* Every step keeps connections answered once.
LEMMA OnceStep ==
    ASSUME RequestsOK, QueueOK, ServedOK, AnswersOK, SaveOK, OnceOK, Next
    PROVE  OnceOK'
  <1> SUFFICES ASSUME NEW c \in Conns
               PROVE  /\ Len(answer'[c]) <= 1
                      /\ answer'[c] # <<>> =>
                           /\ conn'[c] \in {"open", "closed"}
                           /\ \A w \in Slots : request'[w].sock = c => worker'[w] = "end"
    BY DEF OnceOK
  <1>1. /\ answer[c] \in Seq(Pages) /\ Len(answer[c]) <= 1
        /\ answer[c] # <<>> => /\ conn[c] \in {"open", "closed"}
                               /\ \A w \in Slots : request[w].sock = c => worker[w] = "end"
    BY DEF OnceOK, AnswersOK
  <1>2. CASE UNCHANGED answer
    <2> SUFFICES ASSUME answer[c] # <<>>
                 PROVE  /\ conn'[c] \in {"open", "closed"}
                        /\ \A w \in Slots : request'[w].sock = c => worker'[w] = "end"
      BY <1>1, <1>2
    <2>1. conn'[c] = conn[c] \/ conn'[c] = "closed"
      <3>1. ASSUME NEW d \in Conns, Connects(d)
            PROVE  conn'[c] = conn[c]
        BY <1>1, <3>1 DEF Connects, QueueOK
      <3>2. CASE GetConnection(room)
        <4>1. queue # <<>> => conn[Head(queue)] = "queued" /\ Head(queue) \in Conns
          BY DEF QueueOK
        <4> QED
          BY <1>1, <3>2, <4>1 DEF GetConnection, GetSocket, QueueOK
      <3>3. ASSUME NEW w \in Slots, EndRequest(w)
            PROVE  conn'[c] = conn[c] \/ conn'[c] = "closed"
        BY <3>3 DEF EndRequest, QueueOK
      <3> QED
        BY <3>1, <3>2, <3>3, ServerActions, ZenonT(60)
           DEF serverVars, ServerAction, ReadRequestLine, CutOff, SeeFirst, Fill, Decode, FindDir,
               NextDir, AnswerAtOnce, StartWork, EndWork
    <2>2. ASSUME NEW w \in Slots, request'[w].sock = c
          PROVE  worker'[w] = "end"
      <3>1. CASE ServerAction(w)
        <4>1. CASE request[w].sock = c
          <5>1. EndRequest(w)
            BY <1>1, <3>1, <4>1, EndedWorker
          <5>2. request'[w].sock = NULL
            BY <5>1 DEF EndRequest, Blank, RequestsOK
          <5> QED
            BY <2>2, <5>2, ConnectionsAssumption
        <4>2. CASE request[w].sock # c
          <5>1. CASE EndRequest(w)
            <6>1. request'[w].sock = NULL
              BY <5>1 DEF EndRequest, Blank, RequestsOK
            <6> QED
              BY <2>2, <6>1, ConnectionsAssumption
          <5>2. CASE ~EndRequest(w)
            <6>1. request'[w].sock = request[w].sock
              BY <3>1, <5>2, SocksKept
            <6> QED
              BY <2>2, <4>2, <6>1
          <5> QED
            BY <5>1, <5>2
        <4> QED
          BY <4>1, <4>2
      <3>2. CASE worker'[w] = worker[w] /\ request'[w] = request[w]
        BY <1>1, <2>2, <3>2
      <3>3. CASE ~ServerAction(w) /\ worker'[w] = "read" /\ worker[w] = "free"
        <4>1. request[w].sock = NULL /\ DOMAIN request = Slots
          BY <3>3 DEF RequestsOK, Rightful
        <4>2. request'[w].sock # request[w].sock
          BY <2>2, <4>1, ConnectionsAssumption
        <4>3. GetConnection(room)
          BY <3>3, <4>2, ServerActions, OthersKept DEF serverVars, Connects
        <4>4. queue # <<>> /\ conn[Head(queue)] = "queued"
          BY <4>3 DEF GetConnection, QueueOK
        <4>5. c = Head(queue)
          <5>1. ASSUME NEW v \in Slots, NEW r, request' = [request EXCEPT ![v] = r]
                PROVE  v = w /\ request'[w] = r
            BY <4>1, <4>2, <5>1
          <5>2. [Blank EXCEPT !.sock = Socket].sock = Socket
            BY DEF Blank
          <5>3. PICK v \in Slots : request' = [request EXCEPT ![v] = [Blank EXCEPT !.sock = Socket]]
            BY <4>2, <4>3 DEF GetConnection, FreeSlots
          <5>4. request'[w].sock = Socket
            BY <5>1, <5>2, <5>3
          <5> QED
            BY <2>2, <5>4, ConnectionsAssumption DEF Socket
        <4> QED
          BY <1>1, <4>4, <4>5
      <3> QED
        BY <3>1, <3>2, <3>3, OwnStep
    <2> QED
      BY <1>1, <2>1, <2>2
  <1>3. CASE ~ UNCHANGED answer
    <2>1. PICK w \in Slots, what \in Pages :
               /\ Goto(w, "end") /\ Reply(w, what) /\ request[w].sock # NULL
               /\ ReadRequestLine(w) \/ AnswerAtOnce(w) \/ EndWork(w)
      BY <1>3, AnswerChanges
    <2> DEFINE d == request[w].sock
    <2>2. d \in Conns /\ conn[d] = "open" /\ \A v \in Slots : v # w => request[v].sock # d
      BY <2>1, ScenariosAssumption DEF RequestsOK, Rightful, ServedOK
    <2>3. /\ worker[w] # "end" /\ UNCHANGED conn /\ worker'[w] = "end"
          /\ \A v \in Slots : /\ request'[v].sock = request[v].sock
                              /\ v # w => worker'[v] = worker[v]
      BY <2>1, AnswerPlace, SockKept
    <2>4. answer' = [answer EXCEPT ![d] = Append(answer[d], what)]
      BY <2>1 DEF Reply
    <2>5. CASE c = d
      <3>1. answer[c] = <<>>
        BY <1>1, <2>3, <2>5
      <3>2. answer'[c] = Append(<<>>, what)
        BY <2>2, <2>4, <2>5, <3>1 DEF AnswersOK
      <3>3. Len(answer'[c]) = 1
        BY <3>2
      <3> QED
        BY <2>2, <2>3, <2>5, <3>3
    <2>6. CASE c # d
      <3>1. answer'[c] = answer[c]
        BY <2>2, <2>4, <2>6 DEF AnswersOK
      <3> QED
        BY <1>1, <2>3, <2>6, <3>1
    <2> QED
      BY <2>5, <2>6
  <1> QED
    BY <1>2, <1>3

\* The pages that answer a question, as one case distinction.
PagesFor(asked) ==
    CASE asked = ""           -> {"menu"}
      [] asked = "404"        -> {"offline", "login page", "try again"}
      [] asked = "invalid"    -> {"invalid method"}
      [] asked = "about"      -> {"about"}
      [] asked = "status"     -> {"status", "401"}
      [] asked = "disconnect" -> {"401", "both needed", "wrong token"}
      [] asked = "auth"       -> {"invalid token", "no mac", "error page", "redirect"}
      [] OTHER                -> {}

\* These pages are what OwnAnswer allows.
LEMMA MayShowPages ==
    ASSUME NEW c
    PROVE  PagesFor(Asked(c)) \subseteq MayShow(c)
  <1> DEFINE asked == Asked(c)
  <1>1. MayShow(c) = IF asked = "" THEN {"menu"}
                     ELSE IF asked = "404" THEN {"offline", "login page", "try again"}
                     ELSE Shown[asked]
    BY DEF MayShow
  <1>2. /\ Shown["invalid"] = {"invalid method"} /\ Shown["about"] = {"about"}
        /\ Shown["status"] = {"status", "401"}
        /\ {"401", "both needed", "wrong token"} \subseteq Shown["disconnect"]
        /\ {"invalid token", "no mac", "error page", "redirect"} \subseteq Shown["auth"]
    BY DEF Shown
  <1> HIDE DEF asked
  <1> QED
    BY <1>1, <1>2 DEF PagesFor, asked

\* What a worker sends for the page that was asked for.
LEMMA AnswerShown ==
    ASSUME RequestsOK, WalkOK, PlaceOK, NEW w \in Slots, NEW what, Reply(w, what), ~ UNCHANGED answer,
           ReadRequestLine(w) \/ AnswerAtOnce(w) \/ EndWork(w), Unmixed(w)
    PROVE  \E page \in Pages : /\ answer' = [answer EXCEPT ![request[w].sock] = Append(@, page)]
                              /\ page \in MayShow(request[w].sock)
  <1> DEFINE r == request[w]
             c == r.sock
             Sent(page) == answer' = [answer EXCEPT ![c] = Append(@, page)]
  <1>1. c # NULL /\ c \in DOMAIN script /\ c \in Conns /\ c \notin mixed
        /\ DOMAIN script \subseteq Conns
    BY ScenariosAssumption DEF Unmixed, RequestsOK, Rightful, script
  <1>2. ASSUME NEW page, Reply(w, page) \/ SendPage(w, page)
        PROVE  Sent(page)
    BY <1>1, <1>2 DEF Reply, SendPage
  <1>3. CASE ReadRequestLine(w)
    <2>1. /\ Reply(w, "invalid method") /\ r.lines = 0 /\ script[c][r.lines + 1].kind # "get"
          /\ r.lines < Len(script[c])
      BY <1>3 DEF ReadRequestLine
    <2>2. script[c][1].kind # "get"
      <3> DEFINE n == r.lines
      <3>1. n = 0 /\ script[c][n + 1].kind # "get"
        BY <2>1
      <3> HIDE DEF n
      <3>2. n + 1 = 1
        BY <3>1
      <3> QED
        BY <3>1, <3>2
    <2>3. Asked(c) = "invalid"
      BY <2>2 DEF Asked
    <2>4. "invalid method" \in MayShow(c)
      BY <2>3 DEF MayShow, Shown
    <2> QED
      BY <1>2, <2>1, <2>4 DEF Pages
  <1>4. CASE AnswerAtOnce(w)
    <2>1. worker[w] = "dir" /\ r.curDir = NULL
      BY <1>4 DEF AnswerAtOnce, WorkerAt
    <2>2. (Page(w) = "wifidog" /\ Asked(c) = "") \/ Page(w) = Asked(c)
      BY <2>1, PageAsked
    <2>3. \/ Page(w) \in {"wifidog", ""} /\ Sent("menu")
          \/ Page(w) = "about" /\ Sent("about")
          \/ Page(w) = "status" /\ Sent("401")
          \/ Page(w) = "disconnect" /\ (Sent("401") \/ Sent("both needed"))
          \/ Page(w) = "auth" /\ (Sent("invalid token") \/ Sent("no mac"))
          \/ Page(w) = "404" /\ (Sent("offline") \/ Sent("login page"))
      BY <1>2, <1>4 DEF AnswerAtOnce
    <2>4. Asked(c) # "wifidog"
      <3>1. Asked(c) = Named(r.path) /\ r.path # <<>>
        BY <2>1, PathOfRequest DEF RequestsOK, Rightful
      <3> QED
        BY <3>1 DEF Named, Entries
    <2>5. PICK page \in Pages : Sent(page) /\ page \in PagesFor(Asked(c))
      <3> HIDE DEF Sent, c
      <3> QED
        BY <2>2, <2>3, <2>4 DEF PagesFor, Pages
    <2> QED
      BY <2>5, MayShowPages
  <1>5. CASE EndWork(w)
    <2>1. worker[w] \in Working
      BY <1>5 DEF EndWork, Working
    <2>2. Asked(c) = IF worker[w] = "host" THEN "404" ELSE worker[w]
      BY <1>1, <2>1 DEF PlaceOK
    <2>3. \/ worker[w] = "status" /\ Sent("status")
          \/ worker[w] = "host" /\ Sent("try again")
          \/ worker[w] = "disconnect" /\ Sent("wrong token")
          \/ worker[w] = "auth" /\ (Sent("error page") \/ Sent("redirect"))
      BY <1>2, <1>5 DEF EndWork
    <2>4. PICK page \in Pages : Sent(page) /\ page \in PagesFor(Asked(c))
      <3> HIDE DEF Sent, c
      <3> QED
        BY <2>2, <2>3 DEF PagesFor, Pages
    <2> QED
      BY <2>4, MayShowPages
  <1> QED
    BY <1>3, <1>4, <1>5

\* Every step keeps answers to what was asked for.
LEMMA ShownStep ==
    ASSUME RequestsOK, AnswersOK, WalkOK, PlaceOK, ShownOK, Next
    PROVE  ShownOK'
  <1> SUFFICES ASSUME NEW c \in Conns, NEW i \in DOMAIN answer'[c], c \notin mixed'
               PROVE  c \in DOMAIN script /\ answer'[c][i] \in MayShow(c)
    BY SameQuestions DEF ShownOK
  <1>1. c \notin mixed
    BY MixedGrows
  <1>2. CASE i \in DOMAIN answer[c] /\ answer'[c][i] = answer[c][i]
    BY <1>1, <1>2 DEF ShownOK
  <1>3. CASE ~ (i \in DOMAIN answer[c] /\ answer'[c][i] = answer[c][i])
    <2>1. ~ UNCHANGED answer
      BY <1>3
    <2>2. PICK w \in Slots, what \in Pages :
               /\ Reply(w, what) /\ request[w].sock # NULL
               /\ ReadRequestLine(w) \/ AnswerAtOnce(w) \/ EndWork(w)
      BY <2>1, AnswerChanges
    <2> DEFINE d == request[w].sock
    <2>3. d \in Conns /\ d \in DOMAIN script /\ answer[d] \in Seq(Pages) /\ answer[c] \in Seq(Pages)
      BY <2>2, ScenariosAssumption DEF RequestsOK, Rightful, AnswersOK, script
    <2>4. answer' = [answer EXCEPT ![d] = Append(@, what)]
      BY <2>2 DEF Reply
    <2>5. c = d
      BY <1>3, <2>3, <2>4 DEF AnswersOK
    <2>6. Unmixed(w)
      BY <1>1, <2>2, <2>5 DEF Unmixed
    <2>7. PICK page \in Pages : answer' = [answer EXCEPT ![d] = Append(@, page)] /\ page \in MayShow(d)
      BY <2>1, <2>2, <2>6, AnswerShown
    <2>8. answer'[c] = Append(answer[c], page)
      BY <2>3, <2>5, <2>7 DEF AnswersOK
    <2>9. i = Len(answer[c]) + 1 /\ answer'[c][i] = page
      BY <1>3, <2>3, <2>8
    <2> QED
      BY <2>3, <2>5, <2>7, <2>9
  <1> QED
    BY <1>2, <1>3

\* Nothing was asked or sent at the start.
LEMMA InitPagesOK ==
    ASSUME Init
    PROVE  PagesOK
  <1>1. PICK s \in Scenarios : ServerInit(s)
    BY DEF Init
  <1> QED
    BY <1>1 DEF ServerInit, PagesOK, SaveOK, WalkOK, PlaceOK, OnceOK, ShownOK, Working

\* A step that changes nothing keeps the answers.
LEMMA StutterPagesOK ==
    ASSUME PagesOK, UNCHANGED serverVars
    PROVE  PagesOK'
  <1> USE DEF serverVars
  <1>1. script' = script
    BY DEF script
  <1>2. \A c : Asked(c)' = Asked(c)
    BY <1>1 DEF Asked
  <1>3. \A c : MayShow(c)' = MayShow(c)
    BY <1>2 DEF MayShow
  <1>4. SaveOK' /\ WalkOK'
    BY DEF PagesOK, SaveOK, WalkOK, Unmixed
  <1>5. PlaceOK' /\ ShownOK'
    BY <1>1, <1>2, <1>3 DEF PagesOK, PlaceOK, ShownOK
  <1>6. OnceOK'
    BY DEF PagesOK, OnceOK
  <1> QED
    BY <1>4, <1>5, <1>6 DEF PagesOK

\* A browser is answered at most once, and with a page that its own request asked for,
\* whoever else is being served, unless libhttpd's static variables got mixed up
\* (_httpd_findContentDir, httpdProcessRequest, the callbacks of http.c).
THEOREM AnswersAreOwn == Spec => []OwnAnswer
  <1>1. Init => PagesOK
    BY InitPagesOK
  <1>2. PagesOK /\ IInv /\ [Next]_vars => PagesOK'
    <2> SUFFICES ASSUME PagesOK, IInv, Next
                 PROVE  PagesOK'
      BY StutterPagesOK DEF vars
    <2> USE DEF IInv, PagesOK
    <2>1. SaveOK' /\ WalkOK' /\ PlaceOK'
      BY SaveStep, WalkStep, PlaceStep
    <2>2. OnceOK' /\ ShownOK'
      BY OnceStep, ShownStep
    <2> QED
      BY <2>1, <2>2
  <1>3. PagesOK /\ IInv => OwnAnswer
    <2> SUFFICES ASSUME PagesOK, IInv, NEW c \in DOMAIN script
                 PROVE  /\ Len(answer[c]) <= 1
                        /\ \A i \in DOMAIN answer[c] : c \in mixed \/ answer[c][i] \in MayShow(c)
      BY DEF OwnAnswer
    <2>1. c \in Conns
      BY ScenariosAssumption DEF IInv, RequestsOK, script
    <2> QED
      BY <2>1 DEF PagesOK, OnceOK, ShownOK
  <1> QED
    BY <1>1, <1>2, <1>3, Invariant, PTL DEF Spec
=============================================================================
