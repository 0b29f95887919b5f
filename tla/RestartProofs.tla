--------------------------- MODULE RestartProofs ---------------------------
(***************************************************************************)
(* Proofs about Restart, for any number of restart commands, machines and  *)
(* failures: what a new process inherits, when the parent may exit, and    *)
(* that the rules are rebuilt.                                             *)
(***************************************************************************)
EXTENDS Restart, TLAPS

Lists == [Machines -> Marks \cup {Absent}]
Stages == {"idle", "bind", "accept", "lock", "send", "stop", "done", "failed"}
Phases == {"none", "up", "dead"} \cup Starting \cup InFirewall

TypeOK ==
    /\ phase \in [Procs -> Phases]
    /\ req \in [Requests -> Stages]
    /\ lock \in Requests \cup {NoOne} /\ path \in Requests \cup {NoOne}
    /\ queue \in [Requests -> SUBSET Requests]
    /\ peer \in [Requests -> Requests \cup {NoOne}]
    /\ eof \subseteq Requests
    /\ todo \in [Requests -> SUBSET Machines]
    /\ wire \in [Requests -> SUBSET (Machines \X Marks)]
    /\ sessions \in [Procs -> Lists]
    /\ chain \in BOOLEAN
    /\ rules \in [Machines \X Marks -> Nat]
    /\ port \in Procs \cup {NoOne}
    /\ faults \in 0 .. MaxFaults
    /\ stopped \in BOOLEAN
    /\ steady \subseteq Machines
    /\ snapshot \in [Requests -> Lists]

\* A process exists once its command has forked it, and has an end of a
\* connection once it has connected; only a command that accepts has
\* connections waiting, and one that goes on has accepted one.
CommandsOK ==
    /\ \A r \in Requests :
         /\ req[r] \in {"idle", "bind", "failed"} => phase[r] = "none"
         /\ req[r] \in {"lock", "send", "stop"} => peer[r] # NoOne
         /\ req[r] \in {"idle", "bind", "accept", "failed"} => peer[r] = NoOne
         /\ req[r] # "accept" => queue[r] = {}
         /\ req[r] = "stop" => peer[r] \in eof
         /\ peer[r] # NoOne => phase[peer[r]] \notin {"none", "connect"}
         /\ \A c \in queue[r] : phase[c] \notin {"none", "connect"}
    /\ phase[Parent] \in {"up", "flush", "drop", "dead"}
    /\ \A c \in Requests :
         /\ phase[c] \in {"bind", "listen", "up"} \cup InFirewall => ~Alive
         /\ phase[c] \in {"none", "connect"} => c \notin eof

\* A process has one connection at most.
ConnectionsOK ==
    \A q, r \in Requests :
        /\ \A c \in queue[q] : peer[r] # c /\ (c \in queue[r] => q = r)
        /\ peer[q] = peer[r] /\ peer[q] # NoOne => q = r

\* What a process has on its own list and what was sent to it and not yet
\* read is from the list, and nothing is missing but the clients in left.
Receives(sent, own, list, left) ==
    /\ \A m \in Machines, k \in Marks : <<m, k>> \in sent => list[m] = k
    /\ \A m \in Machines : own[m] \in {Absent, list[m]}
    /\ \A m \in left : list[m] # Absent
    /\ \A m \in Machines : \/ list[m] = Absent \/ m \in left
                           \/ <<m, list[m]>> \in sent \/ own[m] = list[m]

\* Clients are under way only to a process that reads.
WireOK == \A c \in Requests : phase[c] # "read" => wire[c] = {}

\* A process that nobody has accepted yet, or ever, has no clients.
Accepted(by, c) == \E r \in Requests : by[r] = c
UnacceptedOK ==
    \A c \in Requests : Accepted(peer, c) \/ phase[c] \in {"up", "dead"}
                        \/ (wire[c] = {} /\ sessions[c] = NoSessions)

\* A process whose connection waits to be accepted reads on.
WaitingOK ==
    Alive => \A r \in Requests : \A c \in queue[r] : c \notin eof /\ phase[c] = "read"

\* A command sends to a process that reads on, and has the lock as long as
\* the parent is alive, so that the list it sends does not change.
SendingOK ==
    \A r \in Requests :
        /\ Alive /\ req[r] \in {"lock", "send"} => peer[r] \notin eof /\ phase[peer[r]] = "read"
        /\ Alive /\ req[r] = "lock" => wire[peer[r]] = {} /\ sessions[peer[r]] = NoSessions
        /\ Alive /\ req[r] = "send" =>
               /\ lock = r
               /\ Receives(wire[peer[r]], sessions[peer[r]], sessions[Parent], todo[r])

\* What a process gets from a command that got to its end is its snapshot.
SentOK ==
    \A r \in Requests :
        (/\ req[r] \in {"stop", "done"} /\ peer[r] # NoOne
         /\ phase[peer[r]] \notin {"up", "dead"}) =>
            Receives(wire[peer[r]], sessions[peer[r]], snapshot[peer[r]], {})

\* The parent leaves because it was told to, because a command got to its end
\* or because fork() failed.
DepartureOK ==
    (phase[Parent] # "up" /\ ~stopped) =>
        \/ \E r \in Requests : req[r] = "done" /\ peer[r] \in eof
        \/ phase[Parent] = "dead" /\ \E r \in Requests : req[r] = "failed"

NoOneElse(c) == \A d \in Requests \ {c} : KeptOut(d)
RuleFor(m, k, list, left) == IF m \notin left /\ list[m] = k THEN 1 ELSE 0

\* The processes that change the chain, and a step that does not concern them.
AtRules == {"drop", "init", "restore", "up"}
Untouched(d) ==
    /\ KeptOut(d)' => KeptOut(d)
    /\ phase'[d] \in AtRules => UNCHANGED <<phase[d], rules, chain, sessions[d], todo[d]>>

\* The chain while a process alone rebuilds it.
RulesOK ==
    \A c \in Requests : NoOneElse(c) =>
        /\ phase[c] \in {"drop", "init"} =>
               \A m \in Machines, k \in Marks : rules[<<m, k>>] = 0
        /\ phase[c] = "restore" =>
               chain /\ \A m \in Machines, k \in Marks :
                            rules[<<m, k>>] = RuleFor(m, k, sessions[c], todo[c])
        /\ phase[c] = "up" =>
               chain /\ \A m \in Machines, k \in Marks \ {"none"} :
                            rules[<<m, k>>] = RuleFor(m, k, sessions[c], {})

\* The machines with steady access are on the parent's list, and on the one
\* it has sent.
SteadyOK ==
    /\ Alive => \A m \in steady : sessions[Parent][m] # Absent
    /\ \A r \in Requests :
         (req[r] \in {"stop", "done"} /\ peer[r] # NoOne) =>
             \A m \in steady : snapshot[peer[r]][m] # Absent

IInv == TypeOK /\ CommandsOK /\ ConnectionsOK
        /\ WireOK /\ UnacceptedOK /\ WaitingOK /\ SendingOK /\ SentOK
        /\ DepartureOK /\ RulesOK /\ SteadyOK

-----------------------------------------------------------------------------

USE ProcsAssumption, FaultsAssumption
    DEF Procs, Marks, Absent, NoSessions, Lists, Stages, Phases, Starting, InFirewall,
        sockVars, fwVars, ghostVars

\* fw_allow keeps the types of the rules, also for a client that is gone.
LEMMA AddedType ==
    ASSUME NEW f \in [Machines \X Marks -> Nat], NEW m \in Machines, NEW k \in Marks \cup {Absent}
    PROVE  Added(f, m, k) \in [Machines \X Marks -> Nat]
<1>1. CASE k \in Marks
  BY <1>1 DEF Added
<1>2. CASE k = Absent
  <2>1. \A v : [f EXCEPT ![<<m, k>>] = v] = f
    BY <1>2
  <2>2. QED
    BY <1>2, <2>1 DEF Added
<1>3. QED
  BY <1>1, <1>2

\* So does the deletion of a rule.
LEMMA DeletedType ==
    ASSUME NEW f \in [Machines \X Marks -> Nat], NEW m \in Machines, NEW k \in Marks
    PROVE  Deleted(f, m, k) \in [Machines \X Marks -> Nat]
  BY DEF Deleted

\* A rule that is added to an existing chain is counted once more.
LEMMA AddedRule ==
    ASSUME NEW f \in [Machines \X Marks -> Nat], NEW m \in Machines, NEW k \in Marks, chain
    PROVE  /\ Added(f, m, k)[<<m, k>>] = f[<<m, k>>] + 1
           /\ \A n \in Machines, j \in Marks :
                n # m \/ j # k => Added(f, m, k)[<<n, j>>] = f[<<n, j>>]
  BY DEF Added

\* A rule that is deleted is gone, and no other.
LEMMA DeletedRule ==
    ASSUME NEW f \in [Machines \X Marks -> Nat], NEW m \in Machines, NEW k \in Marks, chain,
           f[<<m, k>>] = 1
    PROVE  /\ Deleted(f, m, k)[<<m, k>>] = 0
           /\ \A n \in Machines, j \in Marks :
                n # m \/ j # k => Deleted(f, m, k)[<<n, j>>] = f[<<n, j>>]
  BY DEF Deleted

\* fw_allow for another mark: the new rule is added, the old one is gone.
LEMMA RemarkedRule ==
    ASSUME NEW f \in [Machines \X Marks -> Nat], NEW m \in Machines,
           NEW k \in Marks, NEW i \in Marks \ {k}, chain, f[<<m, i>>] = 1
    PROVE  /\ Deleted(Added(f, m, k), m, i)[<<m, k>>] = f[<<m, k>>] + 1
           /\ Deleted(Added(f, m, k), m, i)[<<m, i>>] = 0
           /\ \A n \in Machines, j \in Marks :
                n # m \/ j \notin {i, k} => Deleted(Added(f, m, k), m, i)[<<n, j>>] = f[<<n, j>>]
<1> DEFINE g == Added(f, m, k)
<1>1. g \in [Machines \X Marks -> Nat]
  BY AddedType
<1> HIDE DEF Marks
<1>2. /\ g[<<m, k>>] = f[<<m, k>>] + 1
      /\ \A n \in Machines, j \in Marks : n # m \/ j # k => g[<<n, j>>] = f[<<n, j>>]
  BY AddedRule, ZenonT(60)
<1> HIDE DEF g
<1>3. g[<<m, i>>] = 1
  BY <1>2
<1>4. /\ Deleted(g, m, i)[<<m, i>>] = 0
      /\ \A n \in Machines, j \in Marks : n # m \/ j # i => Deleted(g, m, i)[<<n, j>>] = g[<<n, j>>]
  BY <1>1, <1>3, DeletedRule, ZenonT(60)
<1>5. QED
  BY <1>2, <1>4 DEF g

\* At the start of the loop everybody on the list is still to be sent.
LEMMA ReceivesNone ==
    ASSUME NEW list \in Lists
    PROVE  Receives({}, NoSessions, list, {m \in Machines : list[m] # Absent})
  BY DEF Receives

\* Sending a client moves it from the loop to the wire.
LEMMA ReceivesSent ==
    ASSUME NEW sent \in SUBSET (Machines \X Marks), NEW own \in Lists, NEW list \in Lists,
           NEW left \in SUBSET Machines, NEW m \in left, Receives(sent, own, list, left)
    PROVE  /\ Receives(sent \cup {<<m, list[m]>>}, own, list, left \ {m})
           /\ list[m] \in Marks
  BY DEF Receives

\* Reading a client moves it from the wire to the list of the new process.
LEMMA ReceivesRead ==
    ASSUME NEW sent \in SUBSET (Machines \X Marks), NEW own \in Lists, NEW list \in Lists,
           NEW left \in SUBSET Machines, NEW x \in sent, Receives(sent, own, list, left)
    PROVE  Receives(sent \ {x}, [own EXCEPT ![x[1]] = x[2]], list, left)
<1>1. PICK m \in Machines, k \in Marks : x = <<m, k>>
  OBVIOUS
<1>2. list[m] = k
  BY <1>1 DEF Receives
<1>3. QED
  BY <1>1, <1>2 DEF Receives

\* When nobody is left in the loop and on the wire the lists are the same.
LEMMA ReceivesAll ==
    ASSUME NEW own \in Lists, NEW list \in Lists, Receives({}, own, list, {})
    PROVE  own = list
  BY DEF Receives

\* When a process rebuilds the firewall alone, nobody else changes a session.
LEMMA RunsAlone ==
    ASSUME TypeOK, CommandsOK, NEW p \in Procs, Runs(p), NEW c \in Requests, NoOneElse(c),
           phase[c] \in AtRules
    PROVE  p = c /\ phase[c] = "up"
  BY DEF Runs, TypeOK, CommandsOK, NoOneElse, KeptOut, Alive, AtRules

\* A step that leaves alone what the processes at the rules have is no matter.
LEMMA UntouchedRules ==
    ASSUME RulesOK, \A d \in Requests : Untouched(d) PROVE RulesOK'
<1> SUFFICES ASSUME NEW c \in Requests, NoOneElse(c)', phase'[c] \in AtRules
             PROVE  UNCHANGED <<phase[c], rules, chain, sessions[c], todo[c]>> /\ NoOneElse(c)
  BY DEF RulesOK, AtRules
<1>1. UNCHANGED <<phase[c], rules, chain, sessions[c], todo[c]>>
  BY DEF Untouched
<1>2. NoOneElse(c)
  BY DEF Untouched, NoOneElse
<1>3. QED
  BY <1>1, <1>2

\* What reading one client changes.
LEMMA ReadEffect ==
    ASSUME TypeOK, NEW c \in Requests, Read(c)
    PROVE  /\ \E x \in wire[c] : /\ wire'[c] = wire[c] \ {x}
                               /\ sessions'[c] = [sessions[c] EXCEPT ![x[1]] = x[2]]
           /\ \A d \in Requests \ {c} : wire'[d] = wire[d] /\ sessions'[d] = sessions[d]
           /\ sessions'[Parent] = sessions[Parent]
<1>1. wire \in [Requests -> SUBSET (Machines \X Marks)] /\ sessions \in [Procs -> Lists]
  BY DEF TypeOK
<1>2. QED
  BY <1>1 DEF Read

\* Reading one client loses nothing.
LEMMA ReadKeeps ==
    ASSUME TypeOK, NEW c \in Requests, Read(c), NEW list \in Lists, NEW left \in SUBSET Machines,
           Receives(wire[c], sessions[c], list, left)
    PROVE  Receives(wire'[c], sessions'[c], list, left)
<1>1. wire[c] \subseteq Machines \X Marks /\ sessions[c] \in Lists
  BY DEF TypeOK
<1>2. PICK x \in wire[c] : /\ wire'[c] = wire[c] \ {x}
                         /\ sessions'[c] = [sessions[c] EXCEPT ![x[1]] = x[2]]
  BY ReadEffect
<1>3. QED
  BY <1>1, <1>2, ReceivesRead

\* What sending one client changes.
LEMMA SendClientEffect ==
    ASSUME TypeOK, CommandsOK, SendingOK, NEW r \in Requests, SendClient(r)
    PROVE  /\ wire' \in [Requests -> SUBSET (Machines \X Marks)]
           /\ \A d \in Requests : d # peer[r] => wire'[d] = wire[d]
           /\ \A q \in Requests \ {r} : todo'[q] = todo[q]
           /\ todo' \in [Requests -> SUBSET Machines]
           /\ Receives(wire'[peer[r]], sessions[peer[r]], sessions[Parent], todo'[r])
<1>1. PICK m \in todo[r] :
          /\ todo' = [todo EXCEPT ![r] = @ \ {m}]
          /\ wire' = [wire EXCEPT ![peer[r]] = @ \cup {<<m, sessions[Parent][m]>>}]
  BY DEF SendClient
<1>2. /\ peer[r] \in Requests /\ sessions[Parent] \in Lists /\ sessions[peer[r]] \in Lists
      /\ wire \in [Requests -> SUBSET (Machines \X Marks)] /\ todo \in [Requests -> SUBSET Machines]
  BY DEF TypeOK, CommandsOK, SendClient
<1>3. Receives(wire[peer[r]], sessions[peer[r]], sessions[Parent], todo[r])
  BY DEF SendClient, SendingOK
<1>4. /\ Receives(wire[peer[r]] \cup {<<m, sessions[Parent][m]>>}, sessions[peer[r]],
                  sessions[Parent], todo[r] \ {m})
      /\ sessions[Parent][m] \in Marks
  BY <1>1, <1>2, <1>3, ReceivesSent
<1>5. wire'[peer[r]] = wire[peer[r]] \cup {<<m, sessions[Parent][m]>>} /\ todo'[r] = todo[r] \ {m}
  BY <1>1, <1>2
<1>6. /\ wire' \in [Requests -> SUBSET (Machines \X Marks)]
      /\ \A d \in Requests : d # peer[r] => wire'[d] = wire[d]
  BY <1>1, <1>2, <1>4
<1>7. todo' \in [Requests -> SUBSET Machines] /\ \A q \in Requests \ {r} : todo'[q] = todo[q]
  BY <1>1, <1>2
<1>8. QED
  BY <1>4, <1>5, <1>6, <1>7

\* Every step keeps the types: only clients of the list are put on a wire.
LEMMA TypeStep ==
    ASSUME TypeOK, CommandsOK, SendingOK, [Next]_vars
    PROVE  TypeOK'
<1>1. ASSUME NEW p \in Procs, NEW m \in Machines, Arrive(p, m) PROVE TypeOK'
  BY <1>1 DEF Arrive, Change, TypeOK
<1>2. ASSUME NEW p \in Procs, NEW m \in Machines, Leave(p, m) PROVE TypeOK'
  <2>1. sessions[p][m] \in Marks /\ rules \in [Machines \X Marks -> Nat]
    BY <1>2 DEF Leave, TypeOK
  <2>2. rules' \in [Machines \X Marks -> Nat]
    BY <1>2, <2>1, DeletedType DEF Leave
  <2>3. QED
    BY <1>2, <2>2 DEF Leave, Change, TypeOK
<1>3. ASSUME NEW p \in Procs, NEW m \in Machines,
           NEW k \in Marks \ {"none"}, Allow(p, m, k) PROVE TypeOK'
  <2>1. sessions[p][m] \in Marks /\ rules \in [Machines \X Marks -> Nat]
    BY <1>3 DEF Allow, TypeOK
  <2>2. Added(rules, m, k) \in [Machines \X Marks -> Nat]
    BY <2>1, AddedType
  <2>3. rules' \in [Machines \X Marks -> Nat]
    BY <1>3, <2>1, <2>2, DeletedType DEF Allow
  <2>4. QED
    BY <1>3, <2>3 DEF Allow, Change, TypeOK
<1>4. ASSUME NEW r \in Requests, Unlink(r) PROVE TypeOK'
  BY <1>4 DEF Unlink, TypeOK
<1>5. ASSUME NEW r \in Requests, BindFails(r) PROVE TypeOK'
  BY <1>5 DEF BindFails, TypeOK
<1>6. ASSUME NEW r \in Requests, Fork(r) PROVE TypeOK'
  BY <1>6 DEF Fork, TypeOK
<1>7. ASSUME NEW r \in Requests, Accept(r) PROVE TypeOK'
  BY <1>7 DEF Accept, TypeOK
<1>8. ASSUME NEW r \in Requests, AcceptFails(r) PROVE TypeOK'
  BY <1>8 DEF AcceptFails, Fault, TypeOK
<1>9. ASSUME NEW r \in Requests, SendBegins(r) PROVE TypeOK'
  BY <1>9 DEF SendBegins, TypeOK
<1>10. ASSUME NEW r \in Requests, Suicide(r) PROVE TypeOK'
  BY <1>10 DEF Suicide, Terminate, TypeOK
<1>11. ASSUME NEW r \in Requests, SendClient(r) PROVE TypeOK'
  BY <1>11, SendClientEffect DEF SendClient, TypeOK
<1>12. ASSUME NEW r \in Requests, SendEnds(r) PROVE TypeOK'
  BY <1>12 DEF SendEnds, CommandsOK, TypeOK
<1>13. ASSUME NEW c \in Requests, ExecFails(c) PROVE TypeOK'
  BY <1>13 DEF ExecFails, Fault, TypeOK
<1>14. ASSUME NEW c \in Requests, Connect(c) PROVE TypeOK'
  BY <1>14 DEF Connect, Listening, TypeOK
<1>15. ASSUME NEW c \in Requests, ConnectFails(c) PROVE TypeOK'
  BY <1>15 DEF ConnectFails, Fault, TypeOK
<1>16. ASSUME NEW c \in Requests, Read(c) PROVE TypeOK'
  BY <1>16 DEF Read, TypeOK
<1>17. ASSUME NEW c \in Requests, ReadEnds(c) PROVE TypeOK'
  BY <1>17 DEF ReadEnds, TypeOK
<1>18. ASSUME NEW c \in Requests, ParentGone(c) PROVE TypeOK'
  BY <1>18 DEF ParentGone, TypeOK
<1>19. ASSUME NEW c \in Requests, Bind(c) PROVE TypeOK'
  BY <1>19 DEF Bind, TypeOK
<1>20. ASSUME NEW c \in Requests, Listen(c) PROVE TypeOK'
  BY <1>20 DEF Listen, TypeOK
<1>21. ASSUME NEW c \in Requests, Flush(c) PROVE TypeOK'
  BY <1>21 DEF Flush, TypeOK
<1>22. ASSUME NEW c \in Requests, Drop(c) PROVE TypeOK'
  BY <1>22 DEF Drop, Dropped, TypeOK
<1>23. ASSUME NEW c \in Requests, FwInit(c) PROVE TypeOK'
  BY <1>23 DEF FwInit, TypeOK
<1>24. ASSUME NEW c \in Requests, FwInitFails(c) PROVE TypeOK'
  BY <1>24 DEF FwInitFails, Fault, TypeOK
<1>25. ASSUME NEW c \in Requests, Serve(c) PROVE TypeOK'
  BY <1>25 DEF Serve, TypeOK
<1>26. ASSUME NEW c \in Requests, Restore(c) PROVE TypeOK'
  <2>1. PICK m \in todo[c] : /\ todo' = [todo EXCEPT ![c] = @ \ {m}]
                             /\ rules' = Added(rules, m, sessions[c][m])
    BY <1>26 DEF Restore
  <2>2. rules' \in [Machines \X Marks -> Nat]
    <3>1. /\ m \in Machines /\ sessions[c][m] \in Marks \cup {Absent}
          /\ rules \in [Machines \X Marks -> Nat]
      BY <2>1 DEF TypeOK
    <3>2. QED
      BY <2>1, <3>1, AddedType
  <2>3. QED
    BY <1>26, <2>2 DEF Restore, TypeOK
<1>27. CASE Exit
  <2>1. chain' \in BOOLEAN
    BY <1>27 DEF Exit, Dies, Dropped
  <2>2. QED
    BY <1>27, <2>1 DEF Exit, Dies, TypeOK
<1>28. CASE Flush(Parent)
  BY <1>28 DEF Flush, TypeOK
<1>29. CASE WdctlStop
  BY <1>29 DEF WdctlStop, Terminate, TypeOK
<1>30. CASE UNCHANGED vars
  BY <1>30 DEF vars, TypeOK
<1>31. ASSUME NEW r \in Requests, ForkFails(r) PROVE TypeOK'
  BY <1>31 DEF ForkFails, Dies, Fault, TypeOK, Alive
<1>32. QED
  BY <1>1, <1>2, <1>3, <1>4, <1>5, <1>6, <1>7, <1>8, <1>9, <1>10, <1>11, <1>12, <1>13, <1>14, <1>15,
      <1>16, <1>17, <1>18, <1>19, <1>20, <1>21, <1>22, <1>23, <1>24, <1>25, <1>26, <1>27, <1>28,
      <1>29, <1>30, <1>31 DEF Next, Sessions, Command, Child, Ends

\* Every step keeps commands and processes in step with each other.
LEMMA CommandsStep ==
    ASSUME TypeOK, CommandsOK, WaitingOK, [Next]_vars
    PROVE  CommandsOK'
<1>1. ASSUME NEW p \in Procs, NEW m \in Machines,
           Arrive(p, m) \/ Leave(p, m) \/ (\E k \in Marks \ {"none"} : Allow(p, m, k))
      PROVE  CommandsOK'
  BY <1>1 DEF Arrive, Change, Runs, Unlocked, Leave, Allow, TypeOK, CommandsOK, Alive
<1>2. ASSUME NEW r \in Requests,
           Unlink(r) \/ BindFails(r) \/ Fork(r) \/ Accept(r) \/ AcceptFails(r)
      PROVE  CommandsOK'
  BY <1>2 DEF Unlink, BindFails, Fork, Accept, AcceptFails, Fault, TypeOK, CommandsOK, Alive
<1>3. ASSUME NEW r \in Requests,
           SendBegins(r) \/ SendClient(r) \/ SendEnds(r) \/ Suicide(r)
      PROVE  CommandsOK'
  BY <1>3 DEF SendBegins, SendClient, SendEnds, Suicide, Terminate, TypeOK, CommandsOK, Alive
<1>4. ASSUME NEW c \in Requests, ExecFails(c) PROVE CommandsOK'
  BY <1>4 DEF ExecFails, Fault, TypeOK, CommandsOK, Alive
<1>5. ASSUME NEW c \in Requests, Connect(c) PROVE CommandsOK'
  BY <1>5 DEF Connect, Listening, TypeOK, CommandsOK, Alive
<1>6. ASSUME NEW c \in Requests, ConnectFails(c) PROVE CommandsOK'
  BY <1>6 DEF ConnectFails, Fault, TypeOK, CommandsOK, Alive
<1>7. ASSUME NEW c \in Requests, Read(c) \/ ReadEnds(c) \/ ParentGone(c) PROVE CommandsOK'
  BY <1>7 DEF Read, ReadEnds, ParentGone, TypeOK, CommandsOK, Alive
<1>8. ASSUME NEW c \in Requests,
           Bind(c) \/ Listen(c) \/ Flush(c) \/ Drop(c)
      PROVE  CommandsOK'
  BY <1>8 DEF Bind, Listen, Flush, Drop, Dropped, TypeOK, CommandsOK, Alive
<1>9. ASSUME NEW c \in Requests,
           FwInit(c) \/ FwInitFails(c) \/ Restore(c) \/ Serve(c)
      PROVE  CommandsOK'
  BY <1>9 DEF FwInit, FwInitFails, Fault, Restore, Serve, TypeOK, CommandsOK, Alive
<1>10. CASE Flush(Parent) \/ Exit
  BY <1>10 DEF Flush, Exit, Dies, Dropped, TypeOK, CommandsOK, Alive
<1>11. CASE WdctlStop \/ UNCHANGED vars
  BY <1>11 DEF WdctlStop, Terminate, vars, TypeOK, CommandsOK, Alive
<1>12. ASSUME NEW r \in Requests, ForkFails(r) PROVE CommandsOK'
  BY <1>12 DEF ForkFails, Dies, Fault, TypeOK, CommandsOK, Alive
<1>13. QED
  BY <1>1, <1>2, <1>3, <1>4, <1>5, <1>6, <1>7, <1>8, <1>9, <1>10, <1>11, <1>12 DEF Next, Sessions,
      Command, Child, Ends

\* accept and connect never give a process a second connection.
LEMMA ConnectionsStep ==
    ASSUME TypeOK, CommandsOK, ConnectionsOK, [Next]_vars
    PROVE  ConnectionsOK'
<1>1. ASSUME NEW p \in Procs, NEW m \in Machines,
           Arrive(p, m) \/ Leave(p, m) \/ (\E k \in Marks \ {"none"} : Allow(p, m, k))
      PROVE  ConnectionsOK'
  BY <1>1 DEF Arrive, Change, Leave, Allow, TypeOK, CommandsOK, ConnectionsOK
<1>2. ASSUME NEW r \in Requests, Unlink(r) \/ BindFails(r) \/ Fork(r) PROVE ConnectionsOK'
  BY <1>2 DEF Unlink, BindFails, Fork, TypeOK, CommandsOK, ConnectionsOK
<1>3. ASSUME NEW r \in Requests, Accept(r) PROVE ConnectionsOK'
  BY <1>3 DEF Accept, TypeOK, CommandsOK, ConnectionsOK
<1>4. ASSUME NEW r \in Requests, AcceptFails(r) PROVE ConnectionsOK'
  BY <1>4 DEF AcceptFails, Fault, TypeOK, CommandsOK, ConnectionsOK
<1>5. ASSUME NEW r \in Requests,
           SendBegins(r) \/ SendClient(r) \/ SendEnds(r) \/ Suicide(r)
      PROVE  ConnectionsOK'
  BY <1>5 DEF SendBegins, SendClient, SendEnds, Suicide, Terminate, TypeOK, CommandsOK, ConnectionsOK
<1>6. ASSUME NEW c \in Requests, ExecFails(c) PROVE ConnectionsOK'
  BY <1>6 DEF ExecFails, Fault, TypeOK, CommandsOK, ConnectionsOK
<1>7. ASSUME NEW c \in Requests, Connect(c) PROVE ConnectionsOK'
  BY <1>7 DEF Connect, Listening, TypeOK, CommandsOK, ConnectionsOK
<1>8. ASSUME NEW c \in Requests, ConnectFails(c) PROVE ConnectionsOK'
  BY <1>8 DEF ConnectFails, Fault, TypeOK, CommandsOK, ConnectionsOK
<1>9. ASSUME NEW c \in Requests, Read(c) \/ ReadEnds(c) \/ ParentGone(c) PROVE ConnectionsOK'
  BY <1>9 DEF Read, ReadEnds, ParentGone, TypeOK, CommandsOK, ConnectionsOK
<1>10. ASSUME NEW c \in Requests,
           Bind(c) \/ Listen(c) \/ Flush(c) \/ Drop(c)
      PROVE  ConnectionsOK'
  BY <1>10 DEF Bind, Listen, Flush, Drop, Dropped, TypeOK, CommandsOK, ConnectionsOK
<1>11. ASSUME NEW c \in Requests,
           FwInit(c) \/ FwInitFails(c) \/ Restore(c) \/ Serve(c)
      PROVE  ConnectionsOK'
  BY <1>11 DEF FwInit, FwInitFails, Fault, Restore, Serve, TypeOK, CommandsOK, ConnectionsOK
<1>12. CASE Flush(Parent) \/ Exit \/ WdctlStop \/ UNCHANGED vars
  BY <1>12 DEF Flush, Exit, Dies, Dropped, WdctlStop, Terminate, vars, TypeOK, CommandsOK, ConnectionsOK
<1>13. ASSUME NEW r \in Requests, ForkFails(r) PROVE ConnectionsOK'
  BY <1>13 DEF ForkFails, Dies, Fault, TypeOK, CommandsOK, ConnectionsOK, Alive
<1>14. QED
  BY <1>1, <1>2, <1>3, <1>4, <1>5, <1>6, <1>7, <1>8, <1>9, <1>10, <1>11, <1>12, <1>13 DEF Next,
      Sessions, Command, Child, Ends

\* A process leaves its reading loop only when everything sent has been read.
LEMMA WireStep ==
    ASSUME TypeOK, CommandsOK, WireOK, SendingOK, [Next]_vars
    PROVE  WireOK'
<1>1. ASSUME NEW p \in Procs, NEW m \in Machines,
           Arrive(p, m) \/ Leave(p, m) \/ (\E k \in Marks \ {"none"} : Allow(p, m, k))
      PROVE  WireOK'
  BY <1>1 DEF Arrive, Change, Leave, Allow, TypeOK, WireOK
<1>2. ASSUME NEW r \in Requests,
           Unlink(r) \/ BindFails(r) \/ Accept(r) \/ AcceptFails(r)
      PROVE  WireOK'
  BY <1>2 DEF Unlink, BindFails, Accept, AcceptFails, Fault, TypeOK, WireOK
<1>3. ASSUME NEW r \in Requests, Fork(r) PROVE WireOK'
  BY <1>3 DEF Fork, TypeOK, CommandsOK, WireOK
<1>4. ASSUME NEW r \in Requests, SendBegins(r) \/ SendEnds(r) \/ Suicide(r) PROVE WireOK'
  BY <1>4 DEF SendBegins, SendEnds, Suicide, Terminate, TypeOK, WireOK
<1>5. ASSUME NEW r \in Requests, SendClient(r) PROVE WireOK'
  BY <1>5 DEF SendClient, TypeOK, CommandsOK, WireOK, SendingOK, Alive
<1>6. ASSUME NEW c \in Requests,
           ExecFails(c) \/ Connect(c) \/ ConnectFails(c) \/ Read(c) \/ ReadEnds(c) \/ ParentGone(c)
      PROVE  WireOK'
  BY <1>6 DEF ExecFails, Fault, Connect, Listening, ConnectFails, Read, ReadEnds, ParentGone, TypeOK,
      WireOK
<1>7. ASSUME NEW c \in Requests,
           Bind(c) \/ Listen(c) \/ Flush(c) \/ Drop(c)
      PROVE  WireOK'
  BY <1>7 DEF Bind, Listen, Flush, Drop, Dropped, TypeOK, WireOK
<1>8. ASSUME NEW c \in Requests,
           FwInit(c) \/ FwInitFails(c) \/ Restore(c) \/ Serve(c)
      PROVE  WireOK'
  BY <1>8 DEF FwInit, FwInitFails, Fault, Restore, Serve, TypeOK, WireOK
<1>9. CASE Flush(Parent) \/ Exit \/ WdctlStop \/ UNCHANGED vars
  BY <1>9 DEF Flush, Exit, Dies, Dropped, WdctlStop, Terminate, vars, TypeOK, WireOK
<1>10. ASSUME NEW r \in Requests, ForkFails(r) PROVE WireOK'
  BY <1>10 DEF ForkFails, Dies, Fault, TypeOK, CommandsOK, WireOK, Alive
<1>11. QED
  BY <1>1, <1>2, <1>3, <1>4, <1>5, <1>6, <1>7, <1>8, <1>9, <1>10 DEF Next, Sessions, Command, Child,
      Ends

\* Nothing reaches a process whose connection nobody has accepted.
LEMMA UnacceptedStep ==
    ASSUME TypeOK, CommandsOK, UnacceptedOK, [Next]_vars
    PROVE  UnacceptedOK'
<1>1. ASSUME NEW p \in Procs, NEW m \in Machines,
           Arrive(p, m) \/ Leave(p, m) \/ (\E k \in Marks \ {"none"} : Allow(p, m, k))
      PROVE  UnacceptedOK'
  <2>1. CASE Arrive(p, m)
    BY <2>1 DEF Arrive, Change, Runs, Unlocked, TypeOK, UnacceptedOK
  <2>2. CASE Leave(p, m)
    BY <2>2 DEF Leave, Change, Runs, Unlocked, TypeOK, UnacceptedOK
  <2>3. CASE \E k \in Marks \ {"none"} : Allow(p, m, k)
    BY <2>3 DEF Allow, Change, Runs, Unlocked, TypeOK, UnacceptedOK
  <2>4. QED
    BY <1>1, <2>1, <2>2, <2>3
<1>2. ASSUME NEW r \in Requests,
           Unlink(r) \/ BindFails(r) \/ AcceptFails(r)
      PROVE  UnacceptedOK'
  BY <1>2 DEF Unlink, BindFails, AcceptFails, Fault, TypeOK, UnacceptedOK
<1>3. ASSUME NEW r \in Requests, Fork(r) PROVE UnacceptedOK'
  BY <1>3 DEF Fork, TypeOK, CommandsOK, UnacceptedOK
<1>4. ASSUME NEW r \in Requests, Accept(r) PROVE UnacceptedOK'
  <2>1. \A d \in Requests : Accepted(peer, d) => Accepted(peer', d)
    <3>1. SUFFICES ASSUME NEW d \in Requests, NEW q \in Requests, peer[q] = d PROVE peer'[q] = d
      BY DEF Accepted
    <3>2. QED
      BY <1>4, <3>1 DEF Accept, TypeOK, CommandsOK
  <2>2. QED
    BY <1>4, <2>1 DEF Accept, TypeOK, UnacceptedOK
<1>5. ASSUME NEW r \in Requests, SendBegins(r) \/ SendEnds(r) \/ Suicide(r) PROVE UnacceptedOK'
  BY <1>5 DEF SendBegins, SendEnds, Suicide, Terminate, TypeOK, UnacceptedOK
<1>6. ASSUME NEW r \in Requests, SendClient(r) PROVE UnacceptedOK'
  <2>1. UNCHANGED <<phase, peer, sessions>> /\ \A d \in Requests : d # peer[r] => wire'[d] = wire[d]
    BY <1>6 DEF SendClient, TypeOK
  <2>2. QED
    BY <2>1 DEF UnacceptedOK, Accepted
<1>7. ASSUME NEW c \in Requests,
           ExecFails(c) \/ Connect(c) \/ ConnectFails(c) \/ ReadEnds(c) \/ ParentGone(c)
      PROVE  UnacceptedOK'
  BY <1>7 DEF ExecFails, Fault, Connect, Listening, ConnectFails, ReadEnds, ParentGone, TypeOK,
      UnacceptedOK
<1>8. ASSUME NEW c \in Requests, Read(c) PROVE UnacceptedOK'
  <2>1. UNCHANGED <<phase, peer>> /\ wire[c] # {}
    BY <1>8 DEF Read
  <2>2. Accepted(peer, c)
    BY <1>8, <2>1 DEF Read, UnacceptedOK
  <2>3. QED
    BY <1>8, <2>1, <2>2, ReadEffect DEF UnacceptedOK
<1>9. ASSUME NEW c \in Requests,
           Bind(c) \/ Listen(c) \/ Flush(c) \/ Drop(c)
      PROVE  UnacceptedOK'
  BY <1>9 DEF Bind, Listen, Flush, Drop, Dropped, TypeOK, UnacceptedOK
<1>10. ASSUME NEW c \in Requests,
           FwInit(c) \/ FwInitFails(c) \/ Restore(c) \/ Serve(c)
      PROVE  UnacceptedOK'
  BY <1>10 DEF FwInit, FwInitFails, Fault, Restore, Serve, TypeOK, UnacceptedOK
<1>11. CASE Flush(Parent) \/ Exit \/ WdctlStop \/ UNCHANGED vars
  BY <1>11 DEF Flush, Exit, Dies, Dropped, WdctlStop, Terminate, vars, TypeOK, UnacceptedOK
<1>12. ASSUME NEW r \in Requests, ForkFails(r) PROVE UnacceptedOK'
  BY <1>12 DEF ForkFails, Dies, Fault, TypeOK, CommandsOK, UnacceptedOK, Alive
<1>13. QED
  BY <1>1, <1>2, <1>3, <1>4, <1>5, <1>6, <1>7, <1>8, <1>9, <1>10, <1>11, <1>12 DEF Next, Sessions,
      Command, Child, Ends

\* A connection that waits is closed only when its socket is.
LEMMA WaitingStep ==
    ASSUME TypeOK, CommandsOK, ConnectionsOK, WaitingOK, [Next]_vars
    PROVE  WaitingOK'
<1>1. ASSUME NEW p \in Procs, NEW m \in Machines,
           Arrive(p, m) \/ Leave(p, m) \/ (\E k \in Marks \ {"none"} : Allow(p, m, k))
      PROVE  WaitingOK'
  BY <1>1 DEF Arrive, Change, Runs, Unlocked, Leave, Allow, TypeOK, CommandsOK, ConnectionsOK,
      WaitingOK, Alive
<1>2. ASSUME NEW r \in Requests, Unlink(r) \/ BindFails(r) \/ Fork(r) PROVE WaitingOK'
  BY <1>2 DEF Unlink, BindFails, Fork, TypeOK, CommandsOK, ConnectionsOK, WaitingOK, Alive
<1>3. ASSUME NEW r \in Requests, Accept(r) PROVE WaitingOK'
  BY <1>3 DEF Accept, TypeOK, CommandsOK, ConnectionsOK, WaitingOK, Alive
<1>4. ASSUME NEW r \in Requests, AcceptFails(r) PROVE WaitingOK'
  BY <1>4 DEF AcceptFails, Fault, TypeOK, CommandsOK, ConnectionsOK, WaitingOK, Alive
<1>5. ASSUME NEW r \in Requests,
           SendBegins(r) \/ SendClient(r) \/ SendEnds(r) \/ Suicide(r)
      PROVE  WaitingOK'
  BY <1>5 DEF SendBegins, SendClient, SendEnds, Suicide, Terminate, TypeOK, CommandsOK,
      ConnectionsOK, WaitingOK, Alive
<1>6. ASSUME NEW c \in Requests,
           ExecFails(c) \/ Connect(c) \/ ConnectFails(c)
      PROVE  WaitingOK'
  <2>1. CASE ExecFails(c)
    BY <2>1 DEF ExecFails, Fault, TypeOK, CommandsOK, ConnectionsOK, WaitingOK, Alive
  <2>2. CASE Connect(c)
    BY <2>2 DEF Connect, Listening, TypeOK, CommandsOK, ConnectionsOK, WaitingOK, Alive
  <2>3. CASE ConnectFails(c)
    BY <2>3 DEF ConnectFails, Fault, TypeOK, CommandsOK, ConnectionsOK, WaitingOK, Alive
  <2>4. QED
    BY <1>6, <2>1, <2>2, <2>3
<1>7. ASSUME NEW c \in Requests, Read(c) \/ ReadEnds(c) \/ ParentGone(c) PROVE WaitingOK'
  BY <1>7 DEF Read, ReadEnds, ParentGone, TypeOK, CommandsOK, ConnectionsOK, WaitingOK, Alive
<1>8. ASSUME NEW c \in Requests,
           Bind(c) \/ Listen(c) \/ Flush(c) \/ Drop(c)
      PROVE  WaitingOK'
  BY <1>8 DEF Bind, Listen, Flush, Drop, Dropped, TypeOK, CommandsOK, ConnectionsOK, WaitingOK, Alive
<1>9. ASSUME NEW c \in Requests,
           FwInit(c) \/ FwInitFails(c) \/ Restore(c) \/ Serve(c)
      PROVE  WaitingOK'
  BY <1>9 DEF FwInit, FwInitFails, Fault, Restore, Serve, TypeOK, CommandsOK, ConnectionsOK,
      WaitingOK, Alive
<1>10. CASE Flush(Parent) \/ Exit \/ WdctlStop \/ UNCHANGED vars
  BY <1>10 DEF Flush, Exit, Dies, Dropped, WdctlStop, Terminate, vars, TypeOK, CommandsOK, ConnectionsOK,
      WaitingOK, Alive
<1>11. ASSUME NEW r \in Requests, ForkFails(r) PROVE WaitingOK'
  BY <1>11 DEF ForkFails, Dies, Fault, TypeOK, CommandsOK, ConnectionsOK, WaitingOK, Alive
<1>12. QED
  BY <1>1, <1>2, <1>3, <1>4, <1>5, <1>6, <1>7, <1>8, <1>9, <1>10, <1>11 DEF Next, Sessions, Command,
      Child, Ends

\* A command that sends keeps the lock, and the receiver keeps what was sent.
LEMMA SendingStep ==
    ASSUME TypeOK, CommandsOK, ConnectionsOK, UnacceptedOK, WaitingOK, SendingOK, [Next]_vars
    PROVE  SendingOK'
<1>1. ASSUME NEW p \in Procs, NEW m \in Machines,
           Arrive(p, m) \/ Leave(p, m) \/ (\E k \in Marks \ {"none"} : Allow(p, m, k))
      PROVE  SendingOK'
  BY <1>1 DEF Arrive, Change, Runs, Unlocked, Leave, Allow, TypeOK, CommandsOK, ConnectionsOK,
      WaitingOK, SendingOK, Alive
<1>2. ASSUME NEW r \in Requests,
           Unlink(r) \/ BindFails(r) \/ Fork(r) \/ AcceptFails(r)
      PROVE  SendingOK'
  BY <1>2 DEF Unlink, BindFails, Fork, AcceptFails, Fault, TypeOK, CommandsOK, ConnectionsOK,
      WaitingOK, SendingOK, Alive
<1>3. ASSUME NEW r \in Requests, Accept(r) PROVE SendingOK'
  <2>1. PICK d \in queue[r] : /\ peer' = [peer EXCEPT ![r] = d]
                              /\ eof' = eof \cup (queue[r] \ {d})
    BY <1>3 DEF Accept
  <2>2. phase[d] = "read" /\ d \notin eof'
    BY <1>3, <2>1 DEF Accept, WaitingOK
  <2>3. wire[d] = {} /\ sessions[d] = NoSessions
    <3>1. d \in Requests /\ ~Accepted(peer, d)
      BY <2>1 DEF TypeOK, ConnectionsOK, Accepted
    <3>2. QED
      BY <2>2, <3>1 DEF UnacceptedOK
  <2>4. \A q \in Requests : peer[q] \notin queue[r]
    BY DEF TypeOK, ConnectionsOK
  <2>5. QED
    BY <1>3, <2>1, <2>2, <2>3, <2>4 DEF Accept, TypeOK, SendingOK, Alive
<1>4. ASSUME NEW r \in Requests, SendEnds(r) \/ Suicide(r) PROVE SendingOK'
  BY <1>4 DEF SendEnds, Suicide, Terminate, TypeOK, CommandsOK, ConnectionsOK, WaitingOK, SendingOK,
      Alive
<1>5. ASSUME NEW r \in Requests, SendBegins(r) PROVE SendingOK'
  <2>1. sessions[Parent] \in Lists /\ todo'[r] = {m \in Machines : sessions[Parent][m] # Absent}
    BY <1>5 DEF SendBegins, TypeOK
  <2>2. wire[peer[r]] = {} /\ sessions[peer[r]] = NoSessions
    BY <1>5 DEF SendBegins, SendingOK
  <2>3. Receives(wire[peer[r]], sessions[peer[r]], sessions[Parent], todo'[r])
    BY <2>1, <2>2, ReceivesNone
  <2>4. \A q \in Requests : req[q] # "send"
    BY <1>5 DEF SendBegins, SendingOK
  <2>5. QED
    BY <1>5, <2>3, <2>4 DEF SendBegins, TypeOK, SendingOK, Alive
<1>6. ASSUME NEW r \in Requests, SendClient(r) PROVE SendingOK'
  <2>1. \A q \in Requests \ {r} : req[q] # "send" /\ peer[q] # peer[r]
    BY <1>6 DEF SendClient, TypeOK, CommandsOK, ConnectionsOK, SendingOK
  <2>2. /\ peer[r] \in Requests /\ Alive /\ req[r] = "send"
        /\ UNCHANGED <<phase, req, lock, peer, eof, sessions>>
    BY <1>6 DEF SendClient, TypeOK, CommandsOK
  <2>3. \A d \in Requests : d # peer[r] => wire'[d] = wire[d]
    BY <1>6, SendClientEffect
  <2>4. Receives(wire'[peer[r]], sessions[peer[r]], sessions[Parent], todo'[r])
    BY <1>6, SendClientEffect
  <2>5. \A q \in Requests : req[q] = "lock" => peer[q] \in Requests
    BY DEF TypeOK, CommandsOK
  <2>6. QED
    BY <2>1, <2>2, <2>3, <2>4, <2>5 DEF SendingOK, Alive
<1>7. ASSUME NEW c \in Requests,
           ExecFails(c) \/ Connect(c) \/ ConnectFails(c) \/ ReadEnds(c) \/ ParentGone(c)
      PROVE  SendingOK'
  BY <1>7 DEF ExecFails, Fault, Connect, Listening, ConnectFails, ReadEnds, ParentGone, TypeOK,
      CommandsOK, ConnectionsOK, WaitingOK, SendingOK, Alive
<1>8. ASSUME NEW c \in Requests, Read(c) PROVE SendingOK'
  <2>1. \A q \in Requests : Alive /\ req[q] = "send" /\ peer[q] = c =>
            Receives(wire'[c], sessions'[c], sessions[Parent], todo[q])
    BY <1>8, ReadKeeps DEF TypeOK, SendingOK
  <2>2. wire[c] # {} /\ UNCHANGED <<phase, req, lock, peer, eof, todo>>
    BY <1>8 DEF Read
  <2>3. /\ \A d \in Requests \ {c} : wire'[d] = wire[d] /\ sessions'[d] = sessions[d]
        /\ sessions'[Parent] = sessions[Parent]
    BY <1>8, ReadEffect
  <2>4. \A q \in Requests : req[q] \in {"lock", "send"} => peer[q] \in Requests
    BY DEF TypeOK, CommandsOK
  <2>5. QED
    BY <2>1, <2>2, <2>3, <2>4 DEF SendingOK, Alive
<1>9. ASSUME NEW c \in Requests,
           Bind(c) \/ Listen(c) \/ Flush(c) \/ Drop(c)
      PROVE  SendingOK'
  BY <1>9 DEF Bind, Listen, Flush, Drop, Dropped, TypeOK, CommandsOK, ConnectionsOK, WaitingOK,
      SendingOK, Alive
<1>10. ASSUME NEW c \in Requests,
           FwInit(c) \/ FwInitFails(c) \/ Restore(c) \/ Serve(c)
      PROVE  SendingOK'
  BY <1>10 DEF FwInit, FwInitFails, Fault, Restore, Serve, TypeOK, CommandsOK, ConnectionsOK,
      WaitingOK, SendingOK, Alive
<1>11. CASE Flush(Parent) \/ Exit \/ WdctlStop \/ UNCHANGED vars
  BY <1>11 DEF Flush, Exit, Dies, Dropped, WdctlStop, Terminate, vars, TypeOK, CommandsOK, ConnectionsOK,
      WaitingOK, SendingOK, Alive
<1>12. ASSUME NEW r \in Requests, ForkFails(r) PROVE SendingOK'
  BY <1>12 DEF ForkFails, Dies, Fault, TypeOK, CommandsOK, ConnectionsOK, WaitingOK, SendingOK, Alive
<1>13. QED
  BY <1>1, <1>2, <1>3, <1>4, <1>5, <1>6, <1>7, <1>8, <1>9, <1>10, <1>11, <1>12 DEF Next, Sessions,
      Command, Child, Ends

\* What has been sent is not changed by what happens to the parent later.
LEMMA SentStep ==
    ASSUME TypeOK, CommandsOK, ConnectionsOK, SendingOK, SentOK, [Next]_vars
    PROVE  SentOK'
<1>1. ASSUME NEW p \in Procs, NEW m \in Machines,
           Arrive(p, m) \/ Leave(p, m) \/ (\E k \in Marks \ {"none"} : Allow(p, m, k))
      PROVE  SentOK'
  <2>1. CASE Arrive(p, m)
    BY <2>1 DEF Arrive, Change, Runs, Unlocked, TypeOK, SentOK
  <2>2. CASE Leave(p, m)
    BY <2>2 DEF Leave, Change, Runs, Unlocked, TypeOK, SentOK
  <2>3. CASE \E k \in Marks \ {"none"} : Allow(p, m, k)
    BY <2>3 DEF Allow, Change, Runs, Unlocked, TypeOK, SentOK
  <2>4. QED
    BY <1>1, <2>1, <2>2, <2>3
<1>2. ASSUME NEW r \in Requests, Unlink(r) PROVE SentOK'
  BY <1>2 DEF Unlink, TypeOK, SentOK
<1>3. ASSUME NEW r \in Requests, BindFails(r) PROVE SentOK'
  BY <1>3 DEF BindFails, TypeOK, CommandsOK, SentOK
<1>4. ASSUME NEW r \in Requests, Fork(r) PROVE SentOK'
  BY <1>4 DEF Fork, TypeOK, CommandsOK, SentOK
<1>5. ASSUME NEW r \in Requests, Accept(r) PROVE SentOK'
  BY <1>5 DEF Accept, TypeOK, SentOK
<1>6. ASSUME NEW r \in Requests, AcceptFails(r) PROVE SentOK'
  BY <1>6 DEF AcceptFails, TypeOK, CommandsOK, SentOK
<1>7. ASSUME NEW r \in Requests, SendBegins(r) PROVE SentOK'
  BY <1>7 DEF SendBegins, TypeOK, SentOK
<1>8. ASSUME NEW r \in Requests, Suicide(r) PROVE SentOK'
  BY <1>8 DEF Suicide, Terminate, TypeOK, SentOK
<1>9. ASSUME NEW r \in Requests, SendClient(r) PROVE SentOK'
  BY <1>9 DEF SendClient, TypeOK, CommandsOK, ConnectionsOK, SendingOK, SentOK
<1>10. ASSUME NEW r \in Requests, SendEnds(r) PROVE SentOK'
  <2>1. Receives(wire[peer[r]], sessions[peer[r]], sessions[Parent], {})
    BY <1>10 DEF SendEnds, SendingOK
  <2>2. \A q \in Requests \ {r} : peer[q] # peer[r]
    BY <1>10 DEF SendEnds, TypeOK, CommandsOK, ConnectionsOK
  <2>3. QED
    BY <1>10, <2>1, <2>2 DEF SendEnds, TypeOK, CommandsOK, SentOK
<1>11. ASSUME NEW c \in Requests, ExecFails(c) PROVE SentOK'
  BY <1>11 DEF ExecFails, Fault, TypeOK, SentOK
<1>12. ASSUME NEW c \in Requests, Connect(c) PROVE SentOK'
  BY <1>12 DEF Connect, Listening, TypeOK, SentOK
<1>13. ASSUME NEW c \in Requests, ConnectFails(c) PROVE SentOK'
  BY <1>13 DEF ConnectFails, Fault, TypeOK, SentOK
<1>14. ASSUME NEW c \in Requests, ReadEnds(c) PROVE SentOK'
  BY <1>14 DEF ReadEnds, TypeOK, SentOK
<1>15. ASSUME NEW c \in Requests, ParentGone(c) PROVE SentOK'
  BY <1>15 DEF ParentGone, TypeOK, SentOK
<1>16. ASSUME NEW c \in Requests, Read(c) PROVE SentOK'
  <2>1. Receives(wire[c], sessions[c], snapshot[c], {}) =>
            Receives(wire'[c], sessions'[c], snapshot[c], {})
    BY <1>16, ReadKeeps DEF TypeOK
  <2>2. QED
    BY <1>16, <2>1, ReadEffect DEF Read, TypeOK, SentOK
<1>17. ASSUME NEW c \in Requests, Bind(c) PROVE SentOK'
  BY <1>17 DEF Bind, TypeOK, SentOK
<1>18. ASSUME NEW c \in Requests, Listen(c) PROVE SentOK'
  BY <1>18 DEF Listen, TypeOK, SentOK
<1>19. ASSUME NEW c \in Requests, Flush(c) PROVE SentOK'
  BY <1>19 DEF Flush, TypeOK, SentOK
<1>20. ASSUME NEW c \in Requests, Drop(c) PROVE SentOK'
  BY <1>20 DEF Drop, Dropped, TypeOK, SentOK
<1>21. ASSUME NEW c \in Requests,
           FwInit(c) \/ FwInitFails(c) \/ Restore(c) \/ Serve(c)
      PROVE  SentOK'
  <2>1. CASE FwInit(c)
    BY <2>1 DEF FwInit, TypeOK, SentOK
  <2>2. CASE FwInitFails(c)
    BY <2>2 DEF FwInitFails, Fault, TypeOK, SentOK
  <2>3. CASE Restore(c)
    BY <2>3 DEF Restore, TypeOK, SentOK
  <2>4. CASE Serve(c)
    BY <2>4 DEF Serve, TypeOK, SentOK
  <2>5. QED
    BY <1>21, <2>1, <2>2, <2>3, <2>4
<1>22. CASE Flush(Parent) \/ Exit \/ WdctlStop \/ UNCHANGED vars
  <2>1. CASE Flush(Parent)
    BY <2>1 DEF Flush, TypeOK, SentOK
  <2>2. CASE Exit
    BY <2>2 DEF Exit, Dies, Dropped, TypeOK, SentOK
  <2>3. CASE WdctlStop
    BY <2>3 DEF WdctlStop, Terminate, TypeOK, SentOK
  <2>4. CASE UNCHANGED vars
    BY <2>4 DEF vars, TypeOK, SentOK
  <2>5. QED
    BY <1>22, <2>1, <2>2, <2>3, <2>4
<1>23. ASSUME NEW r \in Requests, ForkFails(r) PROVE SentOK'
  BY <1>23 DEF ForkFails, Dies, Fault, TypeOK, CommandsOK, SentOK, Alive
<1>24. QED
  BY <1>1, <1>2, <1>3, <1>4, <1>5, <1>6, <1>7, <1>8, <1>9, <1>10, <1>11, <1>12, <1>13, <1>14, <1>15,
      <1>16, <1>17, <1>18, <1>19, <1>20, <1>21, <1>22, <1>23 DEF Next, Sessions, Command, Child,
      Ends

\* Only the end of a command, or a stop, makes the parent leave.
LEMMA DepartureStep ==
    ASSUME TypeOK, CommandsOK, DepartureOK, [Next]_vars
    PROVE  DepartureOK'
<1>1. ASSUME NEW p \in Procs, NEW m \in Machines,
           Arrive(p, m) \/ Leave(p, m) \/ (\E k \in Marks \ {"none"} : Allow(p, m, k))
      PROVE  DepartureOK'
  BY <1>1 DEF Arrive, Change, Leave, Allow, TypeOK, CommandsOK, DepartureOK
<1>2. ASSUME NEW r \in Requests, Unlink(r) \/ BindFails(r) \/ Fork(r) PROVE DepartureOK'
  BY <1>2 DEF Unlink, BindFails, Fork, TypeOK, CommandsOK, DepartureOK
<1>3. ASSUME NEW r \in Requests, Accept(r) PROVE DepartureOK'
  BY <1>3 DEF Accept, TypeOK, CommandsOK, DepartureOK
<1>4. ASSUME NEW r \in Requests, AcceptFails(r) PROVE DepartureOK'
  BY <1>4 DEF AcceptFails, Fault, TypeOK, CommandsOK, DepartureOK
<1>5. ASSUME NEW r \in Requests,
           SendBegins(r) \/ SendClient(r) \/ SendEnds(r) \/ Suicide(r)
      PROVE  DepartureOK'
  BY <1>5 DEF SendBegins, SendClient, SendEnds, Suicide, Terminate, TypeOK, CommandsOK, DepartureOK
<1>6. ASSUME NEW c \in Requests,
           ExecFails(c) \/ Connect(c) \/ ConnectFails(c) \/ Read(c) \/ ReadEnds(c) \/ ParentGone(c)
      PROVE  DepartureOK'
  BY <1>6 DEF ExecFails, Fault, Connect, Listening, ConnectFails, Read, ReadEnds, ParentGone, TypeOK,
      CommandsOK, DepartureOK
<1>7. ASSUME NEW c \in Requests,
           Bind(c) \/ Listen(c) \/ Flush(c) \/ Drop(c)
      PROVE  DepartureOK'
  BY <1>7 DEF Bind, Listen, Flush, Drop, Dropped, TypeOK, CommandsOK, DepartureOK
<1>8. ASSUME NEW c \in Requests,
           FwInit(c) \/ FwInitFails(c) \/ Restore(c) \/ Serve(c)
      PROVE  DepartureOK'
  BY <1>8 DEF FwInit, FwInitFails, Fault, Restore, Serve, TypeOK, CommandsOK, DepartureOK
<1>9. CASE Flush(Parent) \/ Exit \/ WdctlStop \/ UNCHANGED vars
  BY <1>9 DEF Flush, Exit, Dies, Dropped, WdctlStop, Terminate, vars, TypeOK, CommandsOK, DepartureOK
<1>10. ASSUME NEW r \in Requests, ForkFails(r) PROVE DepartureOK'
  BY <1>10 DEF ForkFails, Dies, Fault, TypeOK, CommandsOK, DepartureOK, Alive
<1>11. QED
  BY <1>1, <1>2, <1>3, <1>4, <1>5, <1>6, <1>7, <1>8, <1>9, <1>10 DEF Next, Sessions, Command, Child,
      Ends

\* Every step of the clean-up and of the new process keeps the rules as they must be.
LEMMA RulesStep ==
    ASSUME TypeOK, CommandsOK, RulesOK, [Next]_vars
    PROVE  RulesOK'
<1>1. ASSUME NEW p \in Procs, NEW m \in Machines, Arrive(p, m) PROVE RulesOK'
  <2>1. UNCHANGED <<phase, chain, rules, faults, todo>> /\ Runs(p)
    BY <1>1 DEF Arrive, Change
  <2>2. ASSUME NEW c \in Requests, NoOneElse(c), phase[c] \in AtRules
        PROVE  /\ phase[c] = "up" /\ chain
               /\ \A n \in Machines, j \in Marks \ {"none"} :
                    rules[<<n, j>>] = RuleFor(n, j, sessions'[c], {})
    <3>1. p = c /\ phase[c] = "up"
      BY <2>1, <2>2, RunsAlone
    <3>2. sessions'[c] = [sessions[c] EXCEPT ![m] = "none"] /\ sessions[c] \in Lists /\ sessions[c][m] = Absent
      BY <1>1, <3>1 DEF Arrive, Change, TypeOK
    <3>3. chain /\ \A n \in Machines, j \in Marks \ {"none"} :
                     rules[<<n, j>>] = RuleFor(n, j, sessions[c], {})
      BY <2>2, <3>1 DEF RulesOK
    <3>4. QED
      BY <3>1, <3>2, <3>3 DEF RuleFor
  <2>3. QED
    BY <2>1, <2>2 DEF RulesOK, NoOneElse, KeptOut, AtRules
<1>2. ASSUME NEW p \in Procs, NEW m \in Machines, Leave(p, m) PROVE RulesOK'
  <2>1. phase' = phase /\ chain' = chain /\ faults' = faults /\ Runs(p)
    BY <1>2 DEF Leave, Change
  <2>2. ASSUME NEW c \in Requests, NoOneElse(c), phase[c] \in AtRules
        PROVE  /\ phase[c] = "up" /\ chain
               /\ \A n \in Machines, j \in Marks \ {"none"} :
                    rules'[<<n, j>>] = RuleFor(n, j, sessions'[c], {})
    <3>1. p = c /\ phase[c] = "up"
      BY <2>1, <2>2, RunsAlone
    <3>2. /\ sessions'[c] = [sessions[c] EXCEPT ![m] = Absent] /\ sessions[c] \in Lists
          /\ sessions[c][m] \in Marks /\ rules \in [Machines \X Marks -> Nat]
          /\ rules' = Deleted(rules, m, sessions[c][m])
      BY <1>2, <3>1 DEF Leave, Change, TypeOK
    <3>3. chain /\ \A n \in Machines, j \in Marks \ {"none"} :
                     rules[<<n, j>>] = RuleFor(n, j, sessions[c], {})
      BY <2>2, <3>1 DEF RulesOK
    <3>4. QED
      BY <3>1, <3>2, <3>3 DEF RuleFor, Deleted
  <2>3. QED
    BY <2>1, <2>2 DEF RulesOK, NoOneElse, KeptOut, AtRules
<1>3. ASSUME NEW p \in Procs, NEW m \in Machines,
           NEW k \in Marks \ {"none"}, Allow(p, m, k) PROVE RulesOK'
  <2>1. phase' = phase /\ chain' = chain /\ faults' = faults /\ Runs(p)
    BY <1>3 DEF Allow, Change
  <2>2. ASSUME NEW c \in Requests, NoOneElse(c), phase[c] \in AtRules
        PROVE  /\ phase[c] = "up" /\ chain
               /\ \A n \in Machines, j \in Marks \ {"none"} :
                    rules'[<<n, j>>] = RuleFor(n, j, sessions'[c], {})
    <3>1. p = c /\ phase[c] = "up"
      BY <2>1, <2>2, RunsAlone
    <3>2. /\ sessions'[c] = [sessions[c] EXCEPT ![m] = k] /\ sessions[c] \in Lists
          /\ sessions[c][m] \in Marks \ {k} /\ rules \in [Machines \X Marks -> Nat]
          /\ rules' = IF sessions[c][m] = "none" THEN Added(rules, m, k)
                      ELSE Deleted(Added(rules, m, k), m, sessions[c][m])
      BY <1>3, <3>1 DEF Allow, Change, TypeOK
    <3>3. chain /\ \A n \in Machines, j \in Marks \ {"none"} :
                     rules[<<n, j>>] = RuleFor(n, j, sessions[c], {})
      BY <2>2, <3>1 DEF RulesOK
    <3>5. \A n \in Machines, j \in Marks \ {"none"} :
             rules'[<<n, j>>] = IF n = m /\ j = k THEN rules[<<n, j>>] + 1
                                ELSE IF n = m /\ j = sessions[c][m] THEN 0
                                ELSE rules[<<n, j>>]
      <4>1. CASE sessions[c][m] = "none"
        BY <3>2, <3>3, <4>1 DEF Added
      <4>2. CASE sessions[c][m] # "none"
        <5>1. rules[<<m, sessions[c][m]>>] = 1
          BY <3>2, <3>3, <4>2 DEF RuleFor
        <5>2. /\ k \in Marks /\ sessions[c][m] \in Marks \ {k}
              /\ rules' = Deleted(Added(rules, m, k), m, sessions[c][m])
          BY <3>2, <4>2
        <5> HIDE DEF Marks
        <5>3. rules \in [Machines \X Marks -> Nat] /\ chain
          BY <3>2, <3>3
        <5>4. /\ rules'[<<m, k>>] = rules[<<m, k>>] + 1 /\ rules'[<<m, sessions[c][m]>>] = 0
              /\ \A n \in Machines, j \in Marks :
                   n # m \/ j \notin {sessions[c][m], k} => rules'[<<n, j>>] = rules[<<n, j>>]
          BY <5>1, <5>2, <5>3, RemarkedRule
        <5>5. QED
          BY <5>4
      <4>3. QED
        BY <4>1, <4>2
    <3>6. QED
      BY <3>1, <3>2, <3>3, <3>5 DEF RuleFor
  <2>3. QED
    BY <2>1, <2>2 DEF RulesOK, NoOneElse, KeptOut, AtRules
<1>4. ASSUME NEW r \in Requests,
           Unlink(r) \/ BindFails(r) \/ Fork(r) \/ Accept(r) \/ AcceptFails(r)
      PROVE  RulesOK'
  BY <1>4, UntouchedRules DEF Unlink, BindFails, Fork, Accept, AcceptFails, Fault, Untouched, TypeOK,
      CommandsOK, Alive, KeptOut, AtRules
<1>5. ASSUME NEW r \in Requests,
           SendBegins(r) \/ SendClient(r) \/ SendEnds(r) \/ Suicide(r)
      PROVE  RulesOK'
  BY <1>5, UntouchedRules DEF SendBegins, SendClient, SendEnds, Suicide, Terminate, Untouched,
      TypeOK, CommandsOK, Alive, KeptOut, AtRules
<1>6. ASSUME NEW c \in Requests,
           ExecFails(c) \/ Connect(c) \/ ConnectFails(c) \/ Read(c) \/ ReadEnds(c) \/ ParentGone(c)
      PROVE  RulesOK'
  BY <1>6, UntouchedRules DEF ExecFails, Fault, Connect, Listening, ConnectFails, Read, ReadEnds,
      ParentGone, Untouched, TypeOK, CommandsOK, Alive, KeptOut, AtRules
<1>7. ASSUME NEW c \in Requests, Bind(c) \/ Listen(c) PROVE RulesOK'
  BY <1>7, UntouchedRules DEF Bind, Listen, Untouched, TypeOK, CommandsOK, Alive, KeptOut, AtRules
<1>8. ASSUME NEW c \in Requests, Flush(c) PROVE RulesOK'
  BY <1>8 DEF Flush, TypeOK, RulesOK, NoOneElse, KeptOut
<1>9. ASSUME NEW c \in Requests, Drop(c) PROVE RulesOK'
  BY <1>9 DEF Drop, TypeOK, RulesOK, NoOneElse, KeptOut
<1>10. ASSUME NEW c \in Requests, FwInitFails(c) PROVE RulesOK'
  BY <1>10, UntouchedRules DEF FwInitFails, Fault, Untouched, TypeOK, CommandsOK, Alive, KeptOut,
      AtRules
<1>11. ASSUME NEW c \in Requests, FwInit(c) PROVE RulesOK'
  <2>1. /\ phase[c] = "init" /\ todo'[c] = {m \in Machines : sessions[c][m] # Absent}
        /\ phase' = [phase EXCEPT ![c] = "restore"] /\ chain' = TRUE
        /\ UNCHANGED <<sessions, rules, faults>>
    BY <1>11 DEF FwInit, TypeOK
  <2>2. ASSUME NEW d \in Requests, NoOneElse(d)', phase'[d] \in AtRules
        PROVE  d = c /\ NoOneElse(c)
    BY <2>1, <2>2 DEF NoOneElse, KeptOut, TypeOK, AtRules
  <2>3. \A m \in Machines, k \in Marks : RuleFor(m, k, sessions[c], todo'[c]) = 0
    BY <2>1 DEF RuleFor
  <2>4. phase'[c] = "restore"
    BY <2>1 DEF TypeOK
  <2>5. QED
    BY <2>1, <2>2, <2>3, <2>4 DEF RulesOK, AtRules
<1>12. ASSUME NEW c \in Requests, Restore(c) PROVE RulesOK'
  <2>1. PICK m \in todo[c] : /\ todo' = [todo EXCEPT ![c] = @ \ {m}]
                             /\ rules' = Added(rules, m, sessions[c][m])
    BY <1>12 DEF Restore
  <2>2. /\ UNCHANGED <<phase, sessions, chain, faults>> /\ phase[c] = "restore"
        /\ m \in Machines /\ todo'[c] = todo[c] \ {m} /\ rules \in [Machines \X Marks -> Nat]
        /\ sessions[c][m] \in Marks \cup {Absent}
    BY <1>12, <2>1 DEF Restore, TypeOK
  <2>3. ASSUME NEW d \in Requests, NoOneElse(d), phase[d] \in AtRules
        PROVE  d = c
    BY <2>2, <2>3 DEF NoOneElse, KeptOut, AtRules
  <2>4. ASSUME NoOneElse(c)
        PROVE  chain /\ \A n \in Machines, j \in Marks :
                           rules'[<<n, j>>] = RuleFor(n, j, sessions[c], todo'[c])
    <3>1. chain /\ \A n \in Machines, j \in Marks : rules[<<n, j>>] = RuleFor(n, j, sessions[c], todo[c])
      BY <2>2, <2>4 DEF RulesOK
    <3>2. CASE sessions[c][m] \in Marks
      BY <2>1, <2>2, <3>1, <3>2 DEF RuleFor, Added
    <3>3. CASE sessions[c][m] = Absent
      <4>1. rules' = rules
        BY <2>1, <2>2, <3>3 DEF Added
      <4>2. QED
        BY <2>2, <3>1, <3>3, <4>1 DEF RuleFor
    <3>4. QED
      BY <2>2, <3>2, <3>3
  <2>5. QED
    BY <2>2, <2>3, <2>4 DEF RulesOK, NoOneElse, KeptOut, AtRules
<1>13. ASSUME NEW c \in Requests, Serve(c) PROVE RulesOK'
  <2>1. /\ phase[c] = "restore" /\ todo[c] = {} /\ phase' = [phase EXCEPT ![c] = "up"]
        /\ UNCHANGED <<sessions, rules, chain, faults, todo>>
    BY <1>13 DEF Serve
  <2>2. ASSUME NEW d \in Requests, NoOneElse(d)', phase'[d] \in AtRules
        PROVE  d = c /\ NoOneElse(c)
    BY <2>1, <2>2 DEF NoOneElse, KeptOut, TypeOK, AtRules
  <2>3. QED
    BY <2>1, <2>2 DEF RulesOK, TypeOK, AtRules
<1>14. CASE Flush(Parent) \/ Exit \/ WdctlStop \/ UNCHANGED vars
  BY <1>14, UntouchedRules DEF Flush, Exit, Dies, Dropped, WdctlStop, Terminate, vars, Untouched, TypeOK,
      CommandsOK, Alive, KeptOut, AtRules
<1>15. ASSUME NEW r \in Requests, ForkFails(r) PROVE RulesOK'
  BY <1>15, UntouchedRules DEF ForkFails, Dies, Fault, Untouched, TypeOK, CommandsOK, Alive,
      KeptOut, AtRules
<1>16. QED
  BY <1>1, <1>2, <1>3, <1>4, <1>5, <1>6, <1>7, <1>8, <1>9, <1>10, <1>11, <1>12, <1>13, <1>14, <1>15
      DEF Next, Sessions, Command, Child, Ends

\* A session of the parent that did not change is in what the parent sends.
LEMMA SteadyStep ==
    ASSUME TypeOK, CommandsOK, ConnectionsOK, SteadyOK, [Next]_vars
    PROVE  SteadyOK'
<1>1. ASSUME NEW p \in Procs, NEW m \in Machines,
           Arrive(p, m) \/ Leave(p, m) \/ (\E k \in Marks \ {"none"} : Allow(p, m, k))
      PROVE  SteadyOK'
  BY <1>1 DEF Arrive, Change, Runs, Unlocked, Leave, Allow, TypeOK, CommandsOK, ConnectionsOK,
      SteadyOK, Alive
<1>2. ASSUME NEW r \in Requests, Unlink(r) \/ BindFails(r) \/ Fork(r) PROVE SteadyOK'
  <2>1. CASE Unlink(r)
    BY <2>1 DEF Unlink, TypeOK, CommandsOK, ConnectionsOK, SteadyOK, Alive
  <2>2. CASE BindFails(r)
    BY <2>2 DEF BindFails, TypeOK, CommandsOK, ConnectionsOK, SteadyOK, Alive
  <2>3. CASE Fork(r)
    BY <2>3 DEF Fork, TypeOK, CommandsOK, ConnectionsOK, SteadyOK, Alive
  <2>4. QED
    BY <1>2, <2>1, <2>2, <2>3
<1>3. ASSUME NEW r \in Requests, Accept(r) PROVE SteadyOK'
  BY <1>3 DEF Accept, TypeOK, CommandsOK, ConnectionsOK, SteadyOK, Alive
<1>4. ASSUME NEW r \in Requests, AcceptFails(r) PROVE SteadyOK'
  BY <1>4 DEF AcceptFails, Fault, TypeOK, CommandsOK, ConnectionsOK, SteadyOK, Alive
<1>5. ASSUME NEW r \in Requests, SendBegins(r) PROVE SteadyOK'
  BY <1>5 DEF SendBegins, TypeOK, CommandsOK, ConnectionsOK, SteadyOK, Alive
<1>6. ASSUME NEW r \in Requests, SendClient(r) PROVE SteadyOK'
  BY <1>6 DEF SendClient, TypeOK, CommandsOK, ConnectionsOK, SteadyOK, Alive
<1>7. ASSUME NEW r \in Requests, SendEnds(r) PROVE SteadyOK'
  BY <1>7 DEF SendEnds, TypeOK, CommandsOK, ConnectionsOK, SteadyOK, Alive
<1>8. ASSUME NEW r \in Requests, Suicide(r) PROVE SteadyOK'
  BY <1>8 DEF Suicide, Terminate, TypeOK, CommandsOK, ConnectionsOK, SteadyOK, Alive
<1>9. ASSUME NEW c \in Requests,
           ExecFails(c) \/ Connect(c) \/ ConnectFails(c) \/ Read(c) \/ ReadEnds(c) \/ ParentGone(c)
      PROVE  SteadyOK'
  BY <1>9 DEF ExecFails, Fault, Connect, Listening, ConnectFails, Read, ReadEnds, ParentGone, TypeOK,
      CommandsOK, ConnectionsOK, SteadyOK, Alive
<1>10. ASSUME NEW c \in Requests,
           Bind(c) \/ Listen(c) \/ Flush(c) \/ Drop(c)
      PROVE  SteadyOK'
  BY <1>10 DEF Bind, Listen, Flush, Drop, Dropped, TypeOK, CommandsOK, ConnectionsOK, SteadyOK, Alive
<1>11. ASSUME NEW c \in Requests,
           FwInit(c) \/ FwInitFails(c) \/ Restore(c) \/ Serve(c)
      PROVE  SteadyOK'
  BY <1>11 DEF FwInit, FwInitFails, Fault, Restore, Serve, TypeOK, CommandsOK, ConnectionsOK,
      SteadyOK, Alive
<1>12. CASE Flush(Parent) \/ Exit \/ WdctlStop \/ UNCHANGED vars
  BY <1>12 DEF Flush, Exit, Dies, Dropped, WdctlStop, Terminate, vars, TypeOK, CommandsOK, ConnectionsOK,
      SteadyOK, Alive
<1>13. ASSUME NEW r \in Requests, ForkFails(r) PROVE SteadyOK'
  BY <1>13 DEF ForkFails, Dies, Fault, TypeOK, CommandsOK, ConnectionsOK, SteadyOK, Alive
<1>14. QED
  BY <1>1, <1>2, <1>3, <1>4, <1>5, <1>6, <1>7, <1>8, <1>9, <1>10, <1>11, <1>12, <1>13 DEF Next,
      Sessions, Command, Child, Ends

-----------------------------------------------------------------------------
(* The invariant, and what it gives.                                       *)

\* The program starts in it.
LEMMA InitIInv == Init => IInv
<1> SUFFICES ASSUME Init PROVE IInv
  OBVIOUS
<1>1. TypeOK
  <2>1. phase \in [Procs -> Phases] /\ sessions \in [Procs -> Lists]
    BY DEF Init
  <2>2. snapshot \in [Requests -> Lists] /\ rules \in [Machines \X Marks -> Nat]
    BY DEF Init
  <2>3. faults \in 0 .. MaxFaults
    BY DEF Init
  <2>4. QED
    BY <2>1, <2>2, <2>3 DEF Init, TypeOK
<1>2. CommandsOK /\ ConnectionsOK /\ DepartureOK
  BY DEF Init, CommandsOK, ConnectionsOK, DepartureOK, Alive
<1>3. WireOK /\ UnacceptedOK /\ WaitingOK /\ SendingOK /\ SentOK
  BY DEF Init, WireOK, UnacceptedOK, WaitingOK, SendingOK, SentOK, Alive
<1>4. RulesOK /\ SteadyOK
  BY DEF Init, RulesOK, SteadyOK, Alive
<1>5. QED
  BY <1>1, <1>2, <1>3, <1>4 DEF IInv

\* And stays in it.
LEMMA Invariant == Spec => []IInv
<1>1. IInv /\ [Next]_vars => IInv'
  BY TypeStep, CommandsStep, ConnectionsStep, WireStep, UnacceptedStep, WaitingStep,
     SendingStep, SentStep, DepartureStep, RulesStep, SteadyStep DEF IInv
<1>2. QED
  BY InitIInv, <1>1, PTL DEF Spec

\* A new process that has read everything has the list that was sent.
LEMMA ListOfSender == IInv => Inherited
<1> SUFFICES ASSUME IInv, NEW c \in Requests,
                    phase[c] \in {"wait", "bind", "listen"} \cup InFirewall
             PROVE  /\ (\E r \in Requests : peer[r] = c /\ req[r] \in {"stop", "done"}) =>
                           sessions[c] = snapshot[c]
                    /\ (\A r \in Requests : peer[r] # c) => sessions[c] = NoSessions
  BY DEF Inherited
<1>1. ASSUME NEW r \in Requests, peer[r] = c, req[r] \in {"stop", "done"}
      PROVE  sessions[c] = snapshot[c]
  <2>1. wire[c] = {} /\ sessions[c] \in Lists /\ snapshot[c] \in Lists
    BY DEF IInv, TypeOK, WireOK
  <2>2. Receives(wire[c], sessions[c], snapshot[c], {})
    BY <1>1 DEF IInv, TypeOK, SentOK
  <2>3. QED
    BY <2>1, <2>2, ReceivesAll
<1>2. ASSUME \A r \in Requests : peer[r] # c PROVE sessions[c] = NoSessions
  BY <1>2 DEF IInv, UnacceptedOK, Accepted
<1>3. QED
  BY <1>1, <1>2

\* A process that takes over from a parent that nobody stopped, when there was
\* one command, is the one that command has sent the list to.
LEMMA OneCommandKeeps == IInv => UsersKeptByOne
<1> SUFFICES ASSUME IInv, \A q, r \in Requests : req[q] # "idle" /\ req[r] # "idle" => q = r,
                    NEW c \in Requests, phase[c] = "restore", ~stopped, NEW m \in steady
             PROVE  sessions[c][m] # Absent
  BY DEF UsersKeptByOne, UsersKept
<1>1. phase[Parent] # "up"
  BY DEF IInv, CommandsOK, Alive
<1>2. PICK r \in Requests : req[r] = "done" /\ peer[r] \in eof
  <2>1. \A r \in Requests : req[r] # "failed"
    BY DEF IInv, TypeOK, CommandsOK
  <2>2. QED
    BY <1>1, <2>1 DEF IInv, DepartureOK
<1>3. peer[r] \in Requests /\ phase[peer[r]] # "none"
  BY <1>2 DEF IInv, TypeOK, CommandsOK
<1>4. r = c /\ peer[r] = c
  BY <1>2, <1>3 DEF IInv, CommandsOK
<1>5. sessions[c] = snapshot[c]
  BY <1>2, <1>4, ListOfSender DEF Inherited
<1>6. snapshot[c][m] # Absent
  BY <1>2, <1>3, <1>4 DEF IInv, SteadyOK
<1>7. QED
  BY <1>5, <1>6

\* The types of the model of a restart.
THEOREM RestartTypes == Spec => []TypeOK
  BY Invariant, PTL DEF IInv

\* A new process whose sender got to the end starts from the list the parent
\* had at that moment, and one that nobody accepted from an empty one, however
\* the commands, the clients and the failures interleave (wdctl_restart,
\* get_clients_from_parent).
THEOREM NewProcessInherits == Spec => []Inherited
  BY Invariant, ListOfSender, PTL

\* The parent leaves its service only when asked to stop, when it has sent its
\* clients to a process, or on the spot when fork() fails (wdctl_restart's
\* early returns, safe_fork).
THEOREM FailureLeavesParent == Spec => []ParentOutlivesFailure
<1>1. IInv => ParentOutlivesFailure
  <2> SUFFICES ASSUME IInv, NEW r \in Requests, req[r] = "done", peer[r] \in eof
               PROVE  \E c \in Requests : HandedOver(c)
    BY DEF IInv, DepartureOK, ParentOutlivesFailure
  <2>1. peer[r] \in Requests /\ phase[peer[r]] \notin {"none", "connect"}
    BY DEF IInv, TypeOK, CommandsOK
  <2>2. QED
    BY <2>1 DEF HandedOver
<1>2. QED
  BY <1>1, Invariant, PTL

\* A new process that serves alone has exactly the rules of its list: nothing
\* the parent or an earlier process left, nothing removed by them (fw_destroy
\* and fw_init in gw_main, the wait for the parent).
THEOREM RulesAreRebuilt == Spec => []RulesRebuilt
<1>1. IInv => RulesRebuilt
  <2> SUFFICES ASSUME IInv, NEW c \in Requests, phase[c] = "up", NoOneElse(c),
                      NEW m \in Machines, NEW k \in Marks \ {"none"}
               PROVE  rules[<<m, k>>] = IF sessions[c][m] = k THEN 1 ELSE 0
    BY DEF RulesRebuilt, NoOneElse
  <2>1. rules[<<m, k>>] = RuleFor(m, k, sessions[c], {})
    BY DEF IInv, RulesOK
  <2>2. QED
    BY <2>1 DEF RuleFor
<1>2. QED
  BY <1>1, Invariant, PTL

\* One restart at a time loses nobody who had access and was left alone.
THEOREM RestartKeepsUsers == Spec => []UsersKeptByOne
  BY Invariant, OneCommandKeeps, PTL
=============================================================================
