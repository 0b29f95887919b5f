------------------------ MODULE ConfigurationProofs ------------------------
(***************************************************************************)
(* Configuration, proved for every command line and every file without a   *)
(* line that may both open and close a block: a restart keeps the          *)
(* configuration, the auth servers, the rule sets and the trusted MACs are *)
(* what the file says, and the gateway starts only with a file whose every *)
(* line it has recognised.                                                 *)
(*                                                                         *)
(* A line takes one state to the next, in whatever process it is read      *)
(* (Taken, Steps).  Three invariants rest on this.                         *)
(*                                                                         *)
(* RestartInv: there are runs over the options handed on and over the      *)
(* lines read, those that the next process will make, and what the first   *)
(* process has is alike to where they are (Succeeds).  In the second       *)
(* process it is where they are.  The runs are not kept in variables; the  *)
(* invariant says that they exist.                                         *)
(*                                                                         *)
(* FileInv: what has been read is what the lines so far say, block by      *)
(* block (Read), and in the end what the whole file says (Holds).          *)
(*                                                                         *)
(* ListsInv: the rule sets and the trusted MACs are those of the lines so  *)
(* far (Lists), in every state.  What the entries of a line add is a       *)
(* recursive function, whose steps come by induction (AddAllSteps, with    *)
(* AllNaturals for sets of numbers).                                       *)
(***************************************************************************)
EXTENDS Configuration, TLAPS, SequenceTheorems, FiniteSetTheorems, WellFoundedInduction

-----------------------------------------------------------------------------
(* Lines as steps from state to state.                                     *)

\* While lines are read.
Reading == {"read", "server", "ruleset"}

\* The fields of a configuration, and those a process has for itself.
Fields == {"daemon", "log_stderr", "restart_orig_pid", "configfile", "internal_sock",
           "arp_table_path", "pidfile", "debuglevel", "log_syslog", "deltatraffic",
           "options", "flags", "auth_servers", "rulesets", "trustedmaclist", "popular_servers"}
Own == {"daemon", "log_stderr", "restart_orig_pid"}

\* A configuration.
IsConfig(c) ==
    /\ c = [f \in Fields |-> c[f]]
    /\ c.daemon \in {-1, 0, 1} /\ c.log_stderr \in {0, 1}

\* a may be the configuration of the process that replaces one with
\* configuration b.
Alike(a, b) ==
    /\ IsConfig(a) /\ IsConfig(b)
    /\ \A f \in Fields \ Own : a[f] = b[f]
    /\ b.daemon # 0 => a.daemon = b.daemon
Succeeds(a, b) == Alike(a, b) /\ a.restart_orig_pid = 1

\* Where a process is in its file.
State(p, c, b) == [pc |-> p, config |-> c, block |-> b]
Here == State(pc, config, block)

\* A line of the top level, of a server's block and of a rule set.
AfterOption(l) == IF BreaksOff(l) THEN "exited" ELSE "read"
TopLine(s, l) ==
    IF l.arg = <<>> \/ l.kw = "#" THEN s
    ELSE IF l.kw \in PlainOptions \/ (l.kw \in StrictFlags /\ parse_boolean_value(Value(l)) # -1)
    THEN State(AfterOption(l), SetByLine(s.config, l), s.block)
    ELSE IF l.kw = "authserver" THEN State("server", s.config, s.block)
    ELSE IF l.kw = "firewallruleset"
    THEN State("ruleset", s.config, [s.block EXCEPT !.ruleset = Value(l)])
    ELSE State("exited", s.config, s.block)

WithServer(s) ==
    IF s.block.server["hostname"] = Unset THEN s.config ELSE AppendServer(s.config, s.block)

ServerLine(s, l) ==
    IF Closes(l) THEN State("read", WithServer(s), NoBlock)
    ELSE IF Empty(l) \/ l.kw = "#" THEN s
    ELSE IF \/ l.kw \in ServerStrings \cup ServerNumbers
            \/ l.kw = "sslavailable" /\ Flag(l) # -1
    THEN State("server", s.config, SetInServer(s.block, l))
    ELSE State("exited", s.config, s.block)

RuleLine(s, l) ==
    IF Closes(l) THEN State("read", s.config, NoBlock)
    ELSE IF Empty(l) \/ l.kw = "#" THEN s
    ELSE IF l.kw = "firewallrule"
    THEN State("ruleset", [s.config EXCEPT !.rulesets =
                             _parse_firewall_rule(@, s.block.ruleset, l.arg)], s.block)
    ELSE State("exited", s.config, s.block)

\* The state a line leads to.
Taken(s, l) ==
    IF s.pc = "read" THEN TopLine(s, l)
    ELSE IF s.pc = "server" THEN ServerLine(s, l)
    ELSE IF s.pc = "ruleset" THEN RuleLine(s, l)
    ELSE s

\* The configuration when the file ends here, and when it is accepted.
Ended(s) == IF s.pc = "server" THEN WithServer(s) ELSE s.config
Final(s) == WithPopular(Ended(s))

\* A line is read; a block is ended by the end of the file.
ReadsLine ==
    \E l \in text :
        /\ Reads(l)
        /\ pc \in Reading
        /\ Here' = Taken(Here, l)
        /\ UNCHANGED <<argv, left, restartargv, text, generation, former>>

BlockEnds ==
    /\ pc \in {"server", "ruleset"} /\ EndOfFile
    /\ pc' = "eof" /\ config' = Ended(Here) /\ block' = NoBlock
    /\ UNCHANGED <<argv, left, restartargv, text, file, at, generation, former>>

\* The parts of a state.
LEMMA StateParts ==
    ASSUME NEW p, NEW c, NEW b
    PROVE  State(p, c, b).pc = p /\ State(p, c, b).config = c /\ State(p, c, b).block = b
  BY DEF State

\* Every action that reads a line does what Taken says of it, whatever process
\* takes it; and a block that the file ends is closed alike.
LEMMA ReadLineStep == ReadLine => ReadsLine
  <1> SUFFICES ASSUME ReadLine PROVE ReadsLine
    OBVIOUS
  <1>1. PICK l \in text : ReadLine!2!(l)
    BY DEF ReadLine
  <1>2. pc = "read" /\ UNCHANGED <<argv, left, restartargv, text, generation, former>>
    BY DEF ReadLine
  <1>3. Here.pc = "read" /\ Here.config = config /\ Here.block = block
    BY <1>2, StateParts DEF Here
  <1>4. Here' = State(pc', config', block')
    BY DEF Here
  <1>5. Here' = TopLine(Here, l)
    <2>1. CASE l.arg = <<>> \/ l.kw = "#"
      <3>1. UNCHANGED <<pc, config, block>>
        BY <2>1, <1>1 DEF PlainOptions, StringOptions, NumberOptions, StrictFlags
      <3> QED
        BY <3>1, <2>1, <1>4 DEF TopLine, Here
    <2> DEFINE plain == l.kw \in PlainOptions \/ (l.kw \in StrictFlags /\ parse_boolean_value(Value(l)) # -1)
    <2>2. CASE ~(l.arg = <<>> \/ l.kw = "#") /\ plain
      <3>1. /\ config' = SetByLine(config, l) /\ UNCHANGED block
            /\ pc' = IF BreaksOff(l) THEN "exited" ELSE pc
        BY <2>2, <1>1 DEF PlainOptions, StringOptions, NumberOptions, StrictFlags
      <3>2. pc' = AfterOption(l)
        BY <3>1, <1>2 DEF AfterOption
      <3> QED
        BY <3>1, <3>2, <2>2, <1>3, <1>4 DEF TopLine
    <2>3. CASE ~(l.arg = <<>> \/ l.kw = "#") /\ ~plain /\ l.kw = "authserver"
      <3>1. pc' = "server" /\ UNCHANGED <<config, block>>
        BY <2>3, <1>1
      <3> QED
        BY <3>1, <2>3, <1>2, <1>3, <1>4 DEF TopLine
    <2>4. CASE ~(l.arg = <<>> \/ l.kw = "#") /\ ~plain /\ l.kw = "firewallruleset"
      <3>1. pc' = "ruleset" /\ block' = [block EXCEPT !.ruleset = Value(l)] /\ UNCHANGED config
        BY <2>4, <1>1
      <3>2. l.kw # "authserver"
        BY <2>4
      <3> QED
        BY <3>1, <3>2, <2>4, <1>2, <1>3, <1>4 DEF TopLine
    <2>5. CASE ~(l.arg = <<>> \/ l.kw = "#") /\ ~plain /\ l.kw # "authserver" /\ l.kw # "firewallruleset"
      <3>1. pc' = "exited" /\ UNCHANGED <<config, block>>
        BY <2>5, <1>1
      <3> QED
        BY <3>1, <2>5, <1>2, <1>3, <1>4 DEF TopLine
    <2> QED
      BY <2>1, <2>2, <2>3, <2>4, <2>5
  <1> QED
    BY <1>1, <1>2, <1>3, <1>5 DEF ReadsLine, Taken, Reading

\* A line inside a server's block.
LEMMA ReadServerLineStep == ReadServerLine => ReadsLine
  <1> SUFFICES ASSUME ReadServerLine PROVE ReadsLine
    OBVIOUS
  <1>1. PICK l \in text : ReadServerLine!2!(l)
    BY DEF ReadServerLine
  <1>2. pc = "server" /\ UNCHANGED <<argv, left, restartargv, text, config, generation, former>>
    BY DEF ReadServerLine
  <1>3. Here.pc = "server" /\ Here.config = config /\ Here.block = block
    BY <1>2, StateParts DEF Here
  <1>4. Here' = State(pc', config', block')
    BY DEF Here
  <1>5. Here' = ServerLine(Here, l)
    <2>1. CASE Empty(l) \/ l.kw = "#"
      <3>1. UNCHANGED <<pc, config, block>>
        BY <2>1, <1>1, <1>2 DEF Empty, Nothing, ServerStrings, ServerNumbers
      <3> QED
        BY <3>1, <2>1, <1>1, <1>4 DEF ServerLine, Here
    <2> DEFINE given == \/ l.kw \in ServerStrings \cup ServerNumbers
                        \/ l.kw = "sslavailable" /\ Flag(l) # -1
    <2>2. CASE ~(Empty(l) \/ l.kw = "#") /\ given
      <3>1. block' = SetInServer(block, l) /\ UNCHANGED pc
        BY <2>2, <1>1
      <3> QED
        BY <3>1, <2>2, <1>1, <1>2, <1>3, <1>4 DEF ServerLine
    <2>3. CASE ~(Empty(l) \/ l.kw = "#") /\ ~given
      <3>1. pc' = "exited" /\ UNCHANGED block
        BY <2>3, <1>1
      <3> QED
        BY <3>1, <2>3, <1>1, <1>2, <1>3, <1>4 DEF ServerLine
    <2> QED
      BY <2>1, <2>2, <2>3
  <1> QED
    BY <1>1, <1>2, <1>3, <1>5 DEF ReadsLine, Taken, Reading

\* A line inside a rule set.
LEMMA ReadRuleStep == ReadRule => ReadsLine
  <1> SUFFICES ASSUME ReadRule PROVE ReadsLine
    OBVIOUS
  <1>1. PICK l \in text : ReadRule!2!(l)
    BY DEF ReadRule
  <1>2. pc = "ruleset" /\ UNCHANGED <<argv, left, restartargv, text, block, generation, former>>
    BY DEF ReadRule
  <1>3. Here.pc = "ruleset" /\ Here.config = config /\ Here.block = block
    BY <1>2, StateParts DEF Here
  <1>4. Here' = State(pc', config', block')
    BY DEF Here
  <1>5. Here' = RuleLine(Here, l)
    <2>1. CASE Empty(l) \/ l.kw = "#"
      <3>1. UNCHANGED <<pc, config, block>>
        BY <2>1, <1>1, <1>2 DEF Empty, Nothing
      <3> QED
        BY <3>1, <2>1, <1>1, <1>4 DEF RuleLine, Here
    <2>2. CASE ~(Empty(l) \/ l.kw = "#") /\ l.kw = "firewallrule"
      <3>1. /\ config' = [config EXCEPT !.rulesets =
                            _parse_firewall_rule(@, block.ruleset, l.arg)]
            /\ UNCHANGED pc
        BY <2>2, <1>1
      <3> QED
        BY <3>1, <2>2, <1>1, <1>2, <1>3, <1>4 DEF RuleLine
    <2>3. CASE ~(Empty(l) \/ l.kw = "#") /\ l.kw # "firewallrule"
      <3>1. pc' = "exited" /\ UNCHANGED config
        BY <2>3, <1>1
      <3> QED
        BY <3>1, <2>3, <1>1, <1>2, <1>3, <1>4 DEF RuleLine
    <2> QED
      BY <2>1, <2>2, <2>3
  <1> QED
    BY <1>1, <1>2, <1>3, <1>5 DEF ReadsLine, Taken, Reading

\* The end of a server's block, by a brace or by the end of the file.
LEMMA ServerEndsStep == ServerEnds => ReadsLine \/ BlockEnds
  <1> SUFFICES ASSUME ServerEnds PROVE ReadsLine \/ BlockEnds
    OBVIOUS
  <1>1. /\ pc = "server" /\ block' = NoBlock
        /\ UNCHANGED <<argv, left, restartargv, text, generation, former>>
    BY DEF ServerEnds
  <1>2. Here.pc = "server" /\ Here.config = config /\ Here.block = block
    BY <1>1, StateParts DEF Here
  <1>3. config' = WithServer(Here)
    BY <1>2 DEF ServerEnds, WithServer
  <1>4. CASE pc' = "read" /\ \E l \in text : Reads(l) /\ Closes(l)
    <2>1. PICK l \in text : Reads(l) /\ Closes(l)
      BY <1>4
    <2>2. Here' = ServerLine(Here, l)
      BY <1>1, <1>3, <1>4, <2>1 DEF Here, ServerLine
    <2> QED
      BY <1>1, <1>2, <2>1, <2>2 DEF ReadsLine, Taken, Reading
  <1>5. CASE pc' = "eof" /\ EndOfFile /\ UNCHANGED <<file, at>>
    BY <1>1, <1>2, <1>3, <1>5 DEF BlockEnds, Ended
  <1> QED
    BY <1>4, <1>5 DEF ServerEnds

\* The end of a rule set.
LEMMA RulesetEndsStep == RulesetEnds => ReadsLine \/ BlockEnds
  <1> SUFFICES ASSUME RulesetEnds PROVE ReadsLine \/ BlockEnds
    OBVIOUS
  <1>1. /\ pc = "ruleset" /\ block' = NoBlock
        /\ UNCHANGED <<argv, left, restartargv, text, config, generation, former>>
    BY DEF RulesetEnds
  <1>2. Here.pc = "ruleset" /\ Here.config = config /\ Here.block = block
    BY <1>1, StateParts DEF Here
  <1>4. CASE pc' = "read" /\ \E l \in text : Reads(l) /\ Closes(l)
    <2>1. PICK l \in text : Reads(l) /\ Closes(l)
      BY <1>4
    <2>2. Here' = RuleLine(Here, l)
      BY <1>1, <1>2, <1>4, <2>1 DEF Here, RuleLine
    <2> QED
      BY <1>1, <1>2, <2>1, <2>2 DEF ReadsLine, Taken, Reading
  <1>5. CASE pc' = "eof" /\ EndOfFile /\ UNCHANGED <<file, at>>
    BY <1>1, <1>2, <1>5 DEF BlockEnds, Ended
  <1> QED
    BY <1>4, <1>5 DEF RulesetEnds

\* The steps, with those that read a line put together.
LEMMA Steps ==
    Next => \/ ParseOption \/ CommandLineEnds \/ ReadsLine \/ BlockEnds
            \/ FileEnds \/ Reexecute
  BY ReadLineStep, ReadServerLineStep, ReadRuleStep, ServerEndsStep, RulesetEndsStep DEF Next

-----------------------------------------------------------------------------

\* config_init makes a configuration, which leaves open whether to daemonise.
LEMMA InitialConfig == IsConfig(config_init) /\ config_init.daemon = -1
  BY DEF IsConfig, config_init, Fields

\* A field that both configurations set alike.
LEMMA AlikeUpdate ==
    ASSUME NEW a, NEW b, Alike(a, b), NEW f \in Fields \ Own, NEW v
    PROVE  /\ Alike([a EXCEPT ![f] = v], [b EXCEPT ![f] = v])
           /\ [a EXCEPT ![f] = v].daemon = a.daemon
           /\ [a EXCEPT ![f] = v].restart_orig_pid = a.restart_orig_pid
  <1>1. /\ DOMAIN a = Fields /\ DOMAIN b = Fields
        /\ "daemon" \in Fields /\ "log_stderr" \in Fields /\ "restart_orig_pid" \in Fields
        /\ f # "daemon" /\ f # "log_stderr" /\ f # "restart_orig_pid"
    BY DEF Alike, IsConfig, Fields, Own
  <1> DEFINE aa == [a EXCEPT ![f] = v]
             bb == [b EXCEPT ![f] = v]
  <1>2. /\ aa = [g \in Fields |-> aa[g]] /\ bb = [g \in Fields |-> bb[g]]
        /\ \A g \in Fields : aa[g] = (IF g = f THEN v ELSE a[g])
        /\ \A g \in Fields : bb[g] = (IF g = f THEN v ELSE b[g])
    BY <1>1
  <1> HIDE DEF aa, bb
  <1>3. aa.daemon = a.daemon /\ aa.log_stderr = a.log_stderr
        /\ aa.restart_orig_pid = a.restart_orig_pid
    BY <1>1, <1>2
  <1>4. bb.daemon = b.daemon /\ bb.log_stderr = b.log_stderr
    BY <1>1, <1>2
  <1>5. IsConfig(aa) /\ IsConfig(bb)
    BY <1>2, <1>3, <1>4 DEF Alike, IsConfig
  <1>6. \A g \in Fields \ Own : aa[g] = bb[g]
    BY <1>2 DEF Alike
  <1> QED
    BY <1>3, <1>4, <1>5, <1>6 DEF Alike, aa, bb

\* Daemon counts only while nothing has decided it; a process that got -f has
\* decided it, its successor may not have.
LEMMA AlikeDaemon ==
    ASSUME NEW a, NEW b, Alike(a, b), NEW w
    PROVE  /\ Alike(SetDaemon(a, w), SetDaemon(b, w))
           /\ SetDaemon(a, w).restart_orig_pid = a.restart_orig_pid
  <1> DEFINE v == parse_boolean_value(w)
             Set(c) == [c EXCEPT !.daemon = v, !.log_stderr = 1 - v]
  <1>1. v \in {-1, 0, 1}
    BY DEF parse_boolean_value
  <1>2. \A c : SetDaemon(c, w) = IF c.daemon # -1 \/ v = -1 THEN c ELSE Set(c)
    BY DEF SetDaemon
  <1>3. ASSUME NEW c, IsConfig(c), v # -1
        PROVE  /\ IsConfig(Set(c)) /\ Set(c).daemon = v
               /\ Set(c).restart_orig_pid = c.restart_orig_pid
               /\ \A g \in Fields \ Own : Set(c)[g] = c[g]
    <2>1. /\ DOMAIN c = Fields
          /\ "daemon" \in Fields /\ "log_stderr" \in Fields /\ "restart_orig_pid" \in Fields
      BY <1>3 DEF IsConfig, Fields
    <2> HIDE DEF v
    <2>2. Set(c) = [g \in Fields |-> Set(c)[g]]
      BY <2>1
    <2>3. \A g \in Fields : Set(c)[g] = IF g = "log_stderr" THEN 1 - v
                                        ELSE IF g = "daemon" THEN v ELSE c[g]
      BY <2>1
    <2> HIDE DEF Set
    <2>4. Set(c).daemon = v /\ Set(c).log_stderr = 1 - v
          /\ Set(c).restart_orig_pid = c.restart_orig_pid
      BY <2>1, <2>3
    <2>5. IsConfig(Set(c))
      BY <2>2, <2>4, <1>1, <1>3 DEF IsConfig
    <2> QED
      BY <2>3, <2>4, <2>5 DEF Own
  <1> HIDE DEF v, Set
  <1>4. CASE v = -1
    BY <1>2, <1>4
  <1>5. CASE v # -1 /\ b.daemon = -1
    <2>1. a.daemon = -1
      BY <1>5 DEF Alike
    <2>2. SetDaemon(a, w) = Set(a) /\ SetDaemon(b, w) = Set(b)
      BY <2>1, <1>2, <1>5
    <2> QED
      BY <2>2, <1>3, <1>5 DEF Alike
  <1>6. CASE v # -1 /\ b.daemon # -1 /\ a.daemon # -1
    BY <1>2, <1>6
  <1>7. CASE v # -1 /\ b.daemon # -1 /\ a.daemon = -1
    <2>1. b.daemon = 0
      BY <1>7 DEF Alike
    <2>2. SetDaemon(a, w) = Set(a) /\ SetDaemon(b, w) = b
      BY <2>1, <1>2, <1>7
    <2> QED
      BY <2>1, <2>2, <1>3, <1>7 DEF Alike
  <1> QED
    BY <1>4, <1>5, <1>6, <1>7

\* c with the value v in field f.
Put(c, f, v) == [c EXCEPT ![f] = v]

\* A field set alike, in terms of Put.
LEMMA SucceedsPut ==
    ASSUME NEW a, NEW b, Succeeds(a, b), NEW f \in Fields \ Own, NEW v
    PROVE  Succeeds(Put(a, f, v), Put(b, f, v))
  BY AlikeUpdate DEF Succeeds, Put

\* The kinds of lines of the top level, one by one.
LEMMA LineKinds ==
    ASSUME NEW c, NEW l
    PROVE  /\ l.kw \in StringOptions =>
                SetByLine(c, l) = Put(c, "options", Put(c.options, l.kw, Value(l)))
           /\ l.kw \in NumberOptions =>
                SetByLine(c, l) = IF Value(l) \in Numerals
                                  THEN Put(c, "options", Put(c.options, l.kw, Value(l))) ELSE c
           /\ l.kw \in StrictFlags =>
                SetByLine(c, l) = Put(c, "flags", Put(c.flags, l.kw, parse_boolean_value(Value(l))))
           /\ l.kw = "deltatraffic" =>
                SetByLine(c, l) = Put(c, "deltatraffic", parse_boolean_value(Value(l)))
           /\ l.kw = "daemon" => SetByLine(c, l) = SetDaemon(c, Value(l))
           /\ l.kw = "trustedmaclist" =>
                SetByLine(c, l) = Put(c, "trustedmaclist",
                                      parse_trusted_mac_list(c.trustedmaclist, l.arg))
           /\ l.kw = "popularservers" =>
                SetByLine(c, l) = Put(c, "popular_servers",
                                      parse_popular_servers(c.popular_servers, l.arg))
  <1> DEFINE v == Value(l)
             k == l.kw
             n == parse_boolean_value(v)
             c1 == [c EXCEPT !.options[k] = v]
             c2 == [c EXCEPT !.flags[k] = n]
             c3 == [c EXCEPT !.deltatraffic = n]
             c4 == [c EXCEPT !.trustedmaclist = parse_trusted_mac_list(@, l.arg)]
             c5 == [c EXCEPT !.popular_servers = parse_popular_servers(@, l.arg)]
  <1>1. /\ c1 = Put(c, "options", Put(c.options, k, v))
        /\ c2 = Put(c, "flags", Put(c.flags, k, n))
    <2> HIDE DEF v, k, n
    <2> QED
      BY DEF Put
  <1>2. c3 = Put(c, "deltatraffic", n)
    BY DEF Put
  <1>3. c4 = Put(c, "trustedmaclist", parse_trusted_mac_list(c.trustedmaclist, l.arg))
    BY DEF Put
  <1>4. c5 = Put(c, "popular_servers", parse_popular_servers(c.popular_servers, l.arg))
    BY DEF Put
  <1>5. SetByLine(c, l) = CASE k \in StringOptions -> c1
                            [] k \in NumberOptions -> IF v \in Numerals THEN c1 ELSE c
                            [] k \in StrictFlags -> c2
                            [] k = "deltatraffic" -> c3
                            [] k = "daemon" -> SetDaemon(c, v)
                            [] k = "trustedmaclist" -> c4
                            [] k = "popularservers" -> c5
    BY Zenon DEF SetByLine
  <1> HIDE DEF v, k, n, c1, c2, c3, c4, c5
  <1>6. /\ k \in StringOptions => SetByLine(c, l) = c1
        /\ k \in NumberOptions => SetByLine(c, l) = IF v \in Numerals THEN c1 ELSE c
        /\ k \in StrictFlags => SetByLine(c, l) = c2
        /\ k = "deltatraffic" => SetByLine(c, l) = c3
        /\ k = "daemon" => SetByLine(c, l) = SetDaemon(c, v)
        /\ k = "trustedmaclist" => SetByLine(c, l) = c4
        /\ k = "popularservers" => SetByLine(c, l) = c5
    BY <1>5, SMTT(30) DEF StringOptions, NumberOptions, StrictFlags
  <1> QED
    BY <1>1, <1>2, <1>3, <1>4, <1>6 DEF v, k, n

\* A line of the top level keeps alike configurations alike.
LEMMA SucceedsLine ==
    ASSUME NEW a, NEW b, Succeeds(a, b), NEW l, l.kw \in PlainOptions \cup StrictFlags
    PROVE  Succeeds(SetByLine(a, l), SetByLine(b, l))
  <1>0. /\ "options" \in Fields \ Own /\ "flags" \in Fields \ Own /\ "deltatraffic" \in Fields \ Own
        /\ "trustedmaclist" \in Fields \ Own /\ "popular_servers" \in Fields \ Own
    BY DEF Fields, Own
  <1>1. /\ a.options = b.options /\ a.flags = b.flags
        /\ a.trustedmaclist = b.trustedmaclist /\ a.popular_servers = b.popular_servers
    BY <1>0 DEF Succeeds, Alike
  <1>2. CASE l.kw \in StringOptions
    BY <1>0, <1>1, <1>2, LineKinds, SucceedsPut
  <1>3. CASE l.kw \in NumberOptions
    BY <1>0, <1>1, <1>3, LineKinds, SucceedsPut
  <1>4. CASE l.kw \in StrictFlags
    BY <1>0, <1>1, <1>4, LineKinds, SucceedsPut
  <1>5. CASE l.kw = "deltatraffic"
    BY <1>0, <1>5, LineKinds, SucceedsPut
  <1>6. CASE l.kw = "daemon"
    BY <1>6, LineKinds, AlikeDaemon DEF Succeeds
  <1>7. CASE l.kw = "trustedmaclist"
    BY <1>0, <1>1, <1>7, LineKinds, SucceedsPut
  <1>8. CASE l.kw = "popularservers"
    BY <1>0, <1>1, <1>8, LineKinds, SucceedsPut
  <1> QED
    BY <1>2, <1>3, <1>4, <1>5, <1>6, <1>7, <1>8 DEF PlainOptions

\* s may be where the next process is when this one is at t.
Matches(s, t) ==
    /\ s.pc = t.pc /\ s.block = t.block
    /\ Succeeds(s.config, t.config)

\* States put together from alike configurations.
LEMMA MatchesState ==
    ASSUME NEW p, NEW b, NEW c, NEW d, Succeeds(c, d)
    PROVE  Matches(State(p, c, b), State(p, d, b))
  BY StateParts DEF Matches

\* A server's block is added alike.
LEMMA MatchingServers ==
    ASSUME NEW s, NEW t, Matches(s, t)
    PROVE  Succeeds(WithServer(s), WithServer(t))
  <1>1. CASE s.block.server["hostname"] = Unset
    BY <1>1 DEF Matches, WithServer
  <1>2. CASE s.block.server["hostname"] # Unset
    <2>1. "auth_servers" \in Fields \ Own
      BY DEF Fields, Own
    <2>2. s.config.auth_servers = t.config.auth_servers /\ s.block = t.block
      BY <2>1 DEF Matches, Succeeds, Alike
    <2>3. /\ WithServer(s) = Put(s.config, "auth_servers",
                                 Append(s.config.auth_servers, s.block.server))
          /\ WithServer(t) = Put(t.config, "auth_servers",
                                 Append(t.config.auth_servers, t.block.server))
      BY <1>2, <2>2 DEF WithServer, AppendServer, Put
    <2> QED
      BY <2>1, <2>2, <2>3, SucceedsPut DEF Matches
  <1> QED
    BY <1>1, <1>2

\* A line leads to matching states from matching states.
LEMMA MatchingLines ==
    ASSUME NEW s, NEW t, NEW l, Matches(s, t)
    PROVE  Matches(Taken(s, l), Taken(t, l))
  <1>0. s.pc = t.pc /\ s.block = t.block /\ Succeeds(s.config, t.config)
    BY DEF Matches
  <1>1. Matches(TopLine(s, l), TopLine(t, l))
    <2> DEFINE plain == l.kw \in PlainOptions \/ (l.kw \in StrictFlags /\ parse_boolean_value(Value(l)) # -1)
               b == [s.block EXCEPT !.ruleset = Value(l)]
    <2>1. plain => Succeeds(SetByLine(s.config, l), SetByLine(t.config, l))
      BY <1>0, SucceedsLine
    <2>2. TopLine(s, l) =
             IF l.arg = <<>> \/ l.kw = "#" THEN s
             ELSE IF plain THEN State(AfterOption(l), SetByLine(s.config, l), s.block)
             ELSE IF l.kw = "authserver" THEN State("server", s.config, s.block)
             ELSE IF l.kw = "firewallruleset" THEN State("ruleset", s.config, b)
             ELSE State("exited", s.config, s.block)
      BY Zenon DEF TopLine
    <2>3. TopLine(t, l) =
             IF l.arg = <<>> \/ l.kw = "#" THEN t
             ELSE IF plain THEN State(AfterOption(l), SetByLine(t.config, l), s.block)
             ELSE IF l.kw = "authserver" THEN State("server", t.config, s.block)
             ELSE IF l.kw = "firewallruleset" THEN State("ruleset", t.config, b)
             ELSE State("exited", t.config, s.block)
      BY <1>0, Zenon DEF TopLine
    <2> HIDE DEF plain, b
    <2> QED
      BY <1>0, <2>1, <2>2, <2>3, MatchesState
  <1>2. Matches(ServerLine(s, l), ServerLine(t, l))
    BY <1>0, MatchesState, MatchingServers DEF ServerLine
  <1>3. Matches(RuleLine(s, l), RuleLine(t, l))
    <2> DEFINE Ruled(c, b) == [c EXCEPT !.rulesets = _parse_firewall_rule(@, b.ruleset, l.arg)]
    <2>1. "rulesets" \in Fields \ Own
      BY DEF Fields, Own
    <2>2. s.config.rulesets = t.config.rulesets
      BY <1>0, <2>1 DEF Succeeds, Alike
    <2>3. Succeeds(Ruled(s.config, s.block), Ruled(t.config, t.block))
      BY <1>0, <2>1, <2>2, SucceedsPut DEF Put
    <2>4. \A u : RuleLine(u, l) =
             IF Closes(l) THEN State("read", u.config, NoBlock)
             ELSE IF Empty(l) \/ l.kw = "#" THEN u
             ELSE IF l.kw = "firewallrule" THEN State("ruleset", Ruled(u.config, u.block), u.block)
             ELSE State("exited", u.config, u.block)
      BY DEF RuleLine
    <2> HIDE DEF Ruled
    <2> QED
      BY <1>0, <2>3, <2>4, MatchesState
  <1> QED
    BY <1>0, <1>1, <1>2, <1>3 DEF Taken

\* The end of the file, too.
LEMMA MatchingEnds ==
    ASSUME NEW s, NEW t, Matches(s, t)
    PROVE  Succeeds(Ended(s), Ended(t))
  BY MatchingServers DEF Ended, Matches

\* config_validate decides alike, and leaves alike configurations.
LEMMA MatchingValidation ==
    ASSUME NEW a, NEW b, Succeeds(a, b)
    PROVE  /\ HasPassword(a) <=> HasPassword(b)
           /\ Complete(a) <=> Complete(b)
           /\ Succeeds(WithPopular(a), WithPopular(b))
  <1>0. /\ "options" \in Fields \ Own /\ "auth_servers" \in Fields \ Own
        /\ "popular_servers" \in Fields \ Own
    BY DEF Fields, Own
  <1>1. /\ a.options = b.options /\ a.auth_servers = b.auth_servers
        /\ a.popular_servers = b.popular_servers
    BY <1>0 DEF Succeeds, Alike
  <1>2. Succeeds(WithPopular(a), WithPopular(b))
    BY <1>0, <1>1, SucceedsPut DEF WithPopular, Put
  <1> QED
    BY <1>1, <1>2 DEF HasPassword, Complete

-----------------------------------------------------------------------------

\* The options that restartargv takes.
HandedOn == (TakesArgument \cup {"f", "s"}) \ SkipOnRestart

\* An option that is handed on keeps alike configurations alike.
LEMMA AlikeOption ==
    ASSUME NEW a, NEW b, Alike(a, b), NEW o, o.c \in HandedOn
    PROVE  /\ Alike(SetByOption(a, o), SetByOption(b, o))
           /\ SetByOption(a, o).daemon = a.daemon
  <1>0. /\ "options" \in Fields \ Own /\ "log_syslog" \in Fields \ Own
        /\ \A x \in {"c", "d", "i", "a", "p"} : Field[x] \in Fields \ Own
    BY DEF Fields, Own, Field
  <1>1. a.options = b.options
    BY <1>0 DEF Alike
  <1>2. \A f \in Fields \ Own : \A v : /\ Alike(Put(a, f, v), Put(b, f, v))
                                       /\ Put(a, f, v).daemon = a.daemon
    BY AlikeUpdate DEF Put
  <1>3. o.c \in {"c", "w", "d", "i", "a", "p", "s"}
    BY DEF HandedOn, TakesArgument, SkipOnRestart
  <1>4. CASE o.c = "w"
    <2>1. /\ SetByOption(a, o) = [a EXCEPT !.options["wdctlsocket"] = o.optarg]
          /\ SetByOption(b, o) = [b EXCEPT !.options["wdctlsocket"] = o.optarg]
      BY <1>4 DEF SetByOption
    <2>2. /\ SetByOption(a, o) = Put(a, "options", Put(a.options, "wdctlsocket", o.optarg))
          /\ SetByOption(b, o) = Put(b, "options", Put(b.options, "wdctlsocket", o.optarg))
      BY <2>1 DEF Put
    <2> QED
      BY <1>0, <1>1, <1>2, <2>2
  <1>5. CASE o.c = "s"
    <2>1. /\ SetByOption(a, o) = Put(a, "log_syslog", 1)
          /\ SetByOption(b, o) = Put(b, "log_syslog", 1)
      BY <1>5 DEF SetByOption, Put
    <2> QED
      BY <1>0, <1>2, <2>1
  <1>6. CASE o.c \in {"c", "d", "i", "a", "p"}
    <2>1. /\ SetByOption(a, o) = Put(a, Field[o.c], o.optarg)
          /\ SetByOption(b, o) = Put(b, Field[o.c], o.optarg)
      BY <1>6 DEF SetByOption, Put
    <2> QED
      BY <1>0, <1>2, <1>6, <2>1
  <1> QED
    BY <1>3, <1>4, <1>5, <1>6

\* The options that are not handed on change nothing that has to be.
LEMMA AlikeSkipped ==
    ASSUME NEW a, NEW b, Alike(a, b), NEW o, o.c \in SkipOnRestart, a.daemon = -1
    PROVE  Alike(a, SetByOption(b, o))
  <1>1. /\ DOMAIN b = Fields
        /\ "daemon" \in Fields /\ "log_stderr" \in Fields /\ "restart_orig_pid" \in Fields
    BY DEF Alike, IsConfig, Fields
  <1>2. CASE o.c = "f"
    <2> DEFINE bb == [b EXCEPT !.daemon = 0, !.log_stderr = 1]
    <2>1. SetByOption(b, o) = bb
      BY <1>2 DEF SetByOption
    <2>2. /\ bb = [f \in Fields |-> bb[f]]
          /\ \A f \in Fields : bb[f] = IF f = "log_stderr" THEN 1
                                       ELSE IF f = "daemon" THEN 0 ELSE b[f]
      BY <1>1
    <2> HIDE DEF bb
    <2>3. bb.daemon = 0 /\ bb.log_stderr = 1
      BY <1>1, <2>2
    <2>4. IsConfig(bb)
      BY <2>2, <2>3 DEF IsConfig
    <2> QED
      BY <2>1, <2>2, <2>3, <2>4 DEF Alike, Own
  <1>3. CASE o.c = "x"
    <2> DEFINE bb == [b EXCEPT !.restart_orig_pid = 1]
    <2>1. SetByOption(b, o) = bb
      BY <1>3 DEF SetByOption
    <2>2. /\ bb = [f \in Fields |-> bb[f]]
          /\ \A f \in Fields : bb[f] = IF f = "restart_orig_pid" THEN 1 ELSE b[f]
      BY <1>1
    <2> HIDE DEF bb
    <2>3. bb.daemon = b.daemon /\ bb.log_stderr = b.log_stderr
      BY <1>1, <2>2
    <2>4. IsConfig(bb)
      BY <2>2, <2>3 DEF IsConfig, Alike
    <2> QED
      BY <2>1, <2>2, <2>3, <2>4 DEF Alike, Own
  <1> QED
    BY <1>2, <1>3 DEF SkipOnRestart

\* -x on the command line of the new process.
LEMMA SucceedsMark ==
    ASSUME NEW a, NEW b, Alike(a, b), NEW o, o.c = "x"
    PROVE  Succeeds(SetByOption(a, o), b)
  <1>1. /\ DOMAIN a = Fields
        /\ "daemon" \in Fields /\ "log_stderr" \in Fields /\ "restart_orig_pid" \in Fields
    BY DEF Alike, IsConfig, Fields
  <1> DEFINE aa == [a EXCEPT !.restart_orig_pid = 1]
  <1>2. SetByOption(a, o) = aa
    BY DEF SetByOption
  <1>3. /\ aa = [f \in Fields |-> aa[f]]
        /\ \A f \in Fields : aa[f] = IF f = "restart_orig_pid" THEN 1 ELSE a[f]
    BY <1>1
  <1> HIDE DEF aa
  <1>4. aa.daemon = a.daemon /\ aa.log_stderr = a.log_stderr /\ aa.restart_orig_pid = 1
    BY <1>1, <1>3
  <1>5. IsConfig(aa)
    BY <1>3, <1>4 DEF IsConfig, Alike
  <1> QED
    BY <1>2, <1>3, <1>4, <1>5 DEF Alike, Own, Succeeds

-----------------------------------------------------------------------------
\* g[k] is the configuration after k options of r, h[n] the state after n
\* lines of f.
Parsed(g, r) ==
    /\ g[0] = config_init
    /\ \A k \in 0 .. (Len(r) - 1) : g[k + 1] = SetByOption(g[k], r[k + 1])
Followed(h, f, n, c) ==
    /\ h[0] = State("read", c, NoBlock)
    /\ \A k \in 0 .. (n - 1) : h[k + 1] = Taken(h[k], f[k + 1])

\* What append_x_restartargv appends.
Mark == [c |-> "x", optarg |-> "pid"]
Options == OptionType \cup {Mark}

\* Types, and how far the file has been read.
SequencesInv ==
    /\ text \subseteq LineType
    /\ file \in Seq(LineType) /\ at \in 0 .. Len(file)
    /\ argv \in Seq(Options) /\ left \in Seq(Options) /\ restartargv \in Seq(Options)
    /\ generation \in {1, 2}
    /\ pc \in {"commandline", "read", "server", "ruleset", "eof", "running", "exited"}
    /\ pc \notin {"server", "ruleset", "exited"} => block = NoBlock
    /\ pc = "commandline" => at = 0
    /\ generation = 1 => at = Len(file)

\* The first process, and what the second one will do.
FirstCommandLine ==
    (generation = 1 /\ pc # "exited") =>
        /\ \A i \in 1 .. Len(restartargv) : restartargv[i].c \in HandedOn
        /\ pc = "commandline" =>
             \E g : /\ Parsed(g, restartargv)
                    /\ Alike(g[Len(restartargv)], config)
                    /\ g[Len(restartargv)].daemon = -1

\* The same, over the lines of the file.
FirstFile ==
    (generation = 1 /\ pc \notin {"commandline", "exited"}) =>
        \E g, h :
          /\ Parsed(g, Append(restartargv, Mark))
          /\ Followed(h, file, Len(file), g[Len(restartargv) + 1])
          /\ pc \in Reading => Matches(h[at], Here)
          /\ pc = "eof" => Succeeds(Ended(h[at]), config)
          /\ pc = "running" => Succeeds(Final(h[at]), config)

\* The second process retraces the runs made for it.
Second ==
    generation = 2 =>
        \E g, h :
          /\ Parsed(g, argv)
          /\ Followed(h, file, Len(file), g[Len(argv)])
          /\ Succeeds(Final(h[Len(file)]), former)
          /\ pc = "commandline" =>
               /\ Len(left) <= Len(argv)
               /\ \A i \in 1 .. Len(left) : left[i] = argv[(Len(argv) - Len(left)) + i]
               /\ config = g[Len(argv) - Len(left)]
          /\ pc \in Reading => Here = h[at]
          /\ pc = "eof" => at = Len(file) /\ config = Ended(h[at])
          /\ pc = "running" => at = Len(file) /\ config = Final(h[at])

RestartInv == SequencesInv /\ FirstCommandLine /\ FirstFile /\ Second

\* The invariant gives the property.
LEMMA RestartInvImplies == RestartInv => RestartKeepsConfiguration
  <1> SUFFICES ASSUME RestartInv, generation = 2, pc = "running"
               PROVE  RestartKeepsConfiguration!2
    BY DEF RestartKeepsConfiguration
  <1>1. Succeeds(config, former)
    BY DEF RestartInv, Second
  <1>2. /\ DOMAIN config = Fields /\ DOMAIN former = Fields
        /\ config = [f \in Fields |-> config[f]] /\ former = [f \in Fields |-> former[f]]
        /\ \A f \in Fields \ Own : config[f] = former[f]
        /\ config.daemon \in {-1, 0, 1} /\ config.log_stderr \in {0, 1}
        /\ former.daemon # 0 => config.daemon = former.daemon
        /\ config.restart_orig_pid = 1
    BY <1>1 DEF Succeeds, Alike, IsConfig
  <1> DEFINE a == [config EXCEPT !.restart_orig_pid = former.restart_orig_pid]
             b == [former EXCEPT !.daemon = config.daemon, !.log_stderr = config.log_stderr]
  <1>3. /\ a = [f \in Fields |-> a[f]] /\ b = [f \in Fields |-> b[f]]
        /\ \A f \in Fields : a[f] = IF f = "restart_orig_pid" THEN former.restart_orig_pid ELSE config[f]
        /\ \A f \in Fields : b[f] = IF f = "log_stderr" THEN config.log_stderr
                                    ELSE IF f = "daemon" THEN config.daemon ELSE former[f]
    BY <1>2
  <1>4. ASSUME NEW f \in Fields PROVE a[f] = b[f]
    BY <1>2, <1>3 DEF Own
  <1>5. a = b
    BY <1>3, <1>4
  <1> HIDE DEF a, b
  <1> QED
    BY <1>2, <1>5 DEF a, b

\* A run over the options goes on with one more option.
LEMMA ExtendParsed ==
    ASSUME NEW S, NEW g, NEW r \in Seq(S), NEW o \in S, Parsed(g, r)
    PROVE  \E gg : /\ Parsed(gg, Append(r, o)) /\ gg[Len(r)] = g[Len(r)]
                   /\ gg[Len(r) + 1] = SetByOption(g[Len(r)], o)
  <1> DEFINE n == Len(r)
             c == SetByOption(g[n], o)
             gg == [k \in Nat |-> IF k = n + 1 THEN c ELSE g[k]]
             ro == Append(r, o)
  <1>1. n \in Nat /\ Len(ro) = n + 1 /\ ro[n + 1] = o /\ \A k \in 1 .. n : ro[k] = r[k]
    OBVIOUS
  <1>2. \A k \in 0 .. (n - 1) : g[k + 1] = SetByOption(g[k], r[k + 1])
    BY DEF Parsed
  <1>3. g[0] = config_init
    BY DEF Parsed
  <1> HIDE DEF n, c, ro
  <1>4. \A k \in Nat : gg[k] = IF k = n + 1 THEN c ELSE g[k]
    OBVIOUS
  <1> HIDE DEF gg
  <1>5. gg[0] = g[0] /\ gg[n] = g[n] /\ gg[n + 1] = c
    BY <1>1, <1>4
  <1>6. ASSUME NEW k \in 0 .. n PROVE gg[k + 1] = SetByOption(gg[k], ro[k + 1])
    <2>1. CASE k = n
      BY <2>1, <1>1, <1>5 DEF c
    <2>2. CASE k # n
      <3>1. k \in 0 .. (n - 1) /\ k \in Nat /\ k + 1 \in Nat /\ k + 1 \in 1 .. n /\ k # n + 1 /\ k + 1 # n + 1
        BY <2>2, <1>1
      <3> QED
        BY <3>1, <1>1, <1>2, <1>4
    <2> QED
      BY <2>1, <2>2
  <1>7. 0 .. (Len(ro) - 1) = 0 .. n
    BY <1>1
  <1>8. Parsed(gg, ro)
    BY <1>3, <1>5, <1>6, <1>7 DEF Parsed
  <1> QED
    BY <1>5, <1>8 DEF n, c, ro

\* A run over the lines goes on with one more line.
LEMMA ExtendFollowed ==
    ASSUME NEW S, NEW h, NEW f \in Seq(S), NEW l \in S, NEW c, Followed(h, f, Len(f), c)
    PROVE  \E hh : /\ Followed(hh, Append(f, l), Len(f) + 1, c)
                   /\ hh[Len(f) + 1] = Taken(h[Len(f)], l)
  <1> DEFINE n == Len(f)
             s == Taken(h[n], l)
             hh == [k \in Nat |-> IF k = n + 1 THEN s ELSE h[k]]
             fl == Append(f, l)
  <1>1. n \in Nat /\ fl[n + 1] = l /\ \A k \in 1 .. n : fl[k] = f[k]
    OBVIOUS
  <1>2. \A k \in 0 .. (n - 1) : h[k + 1] = Taken(h[k], f[k + 1])
    BY DEF Followed
  <1>3. h[0] = State("read", c, NoBlock)
    BY DEF Followed
  <1> HIDE DEF n, s, fl
  <1>4. \A k \in Nat : hh[k] = IF k = n + 1 THEN s ELSE h[k]
    OBVIOUS
  <1> HIDE DEF hh
  <1>5. hh[0] = h[0] /\ hh[n] = h[n] /\ hh[n + 1] = s
    BY <1>1, <1>4
  <1>6. ASSUME NEW k \in 0 .. n PROVE hh[k + 1] = Taken(hh[k], fl[k + 1])
    <2>1. CASE k = n
      BY <2>1, <1>1, <1>5 DEF s
    <2>2. CASE k # n
      <3>1. k \in 0 .. (n - 1) /\ k \in Nat /\ k + 1 \in Nat /\ k + 1 \in 1 .. n /\ k # n + 1 /\ k + 1 # n + 1
        BY <2>2, <1>1
      <3> QED
        BY <3>1, <1>1, <1>2, <1>4
    <2> QED
      BY <2>1, <2>2
  <1>7. 0 .. ((n + 1) - 1) = 0 .. n
    BY <1>1
  <1>8. Followed(hh, fl, n + 1, c)
    BY <1>3, <1>5, <1>6, <1>7 DEF Followed
  <1> QED
    BY <1>5, <1>8 DEF n, s, fl

-----------------------------------------------------------------------------

\* The invariant holds at the start.
LEMMA RestartInvInit == Init => RestartInv
  <1> SUFFICES ASSUME Init PROVE RestartInv
    OBVIOUS
  <1>1. SequencesInv
    <2>1. argv \in Seq(OptionType) /\ text \subseteq LineType
      BY StartsAssumption DEF Init
    <2>2. argv \in Seq(Options)
      BY <2>1 DEF Options
    <2> QED
      BY <2>1, <2>2 DEF Init, SequencesInv
  <1>2. FirstCommandLine
    <2> DEFINE g == [k \in Nat |-> config_init]
    <2>1. restartargv = <<>> /\ Len(restartargv) = 0 /\ config = config_init
      BY DEF Init
    <2>2. g[0] = config_init
      OBVIOUS
    <2> HIDE DEF g
    <2>3. Parsed(g, restartargv)
      BY <2>1, <2>2 DEF Parsed
    <2>4. Alike(g[0], config)
      BY <2>1, <2>2, InitialConfig DEF Alike
    <2> QED
      BY <2>1, <2>2, <2>3, <2>4, InitialConfig DEF FirstCommandLine
  <1> QED
    BY <1>1, <1>2 DEF Init, RestartInv, FirstFile, Second

\* An option: the run that the successor will make goes on, or nothing that
\* matters to it has changed; in the successor, the run made for it is retraced.
LEMMA ParseOptionKeeps == RestartInv /\ ParseOption => RestartInv'
  <1> SUFFICES ASSUME RestartInv, ParseOption PROVE RestartInv'
    OBVIOUS
  <1> DEFINE o == Head(left)
  <1>1. /\ pc = "commandline" /\ left # <<>>
        /\ UNCHANGED <<argv, text, file, at, block, generation, former>>
    BY DEF ParseOption
  <1>2. o \in Options /\ Tail(left) \in Seq(Options) /\ Len(Tail(left)) = Len(left) - 1
        /\ Len(left) \in Nat \ {0} /\ left[1] = o /\ \A i \in 1 .. (Len(left) - 1) : Tail(left)[i] = left[i + 1]
    BY <1>1 DEF RestartInv, SequencesInv
  <1>3. CASE o.c \notin TakesArgument \cup {"f", "s"}
    <2>1. pc' = "exited" /\ UNCHANGED <<config, restartargv, left>>
      BY <1>3 DEF ParseOption
    <2>2. SequencesInv'
      BY <1>1, <2>1 DEF RestartInv, SequencesInv
    <2> QED
      BY <1>1, <2>1, <2>2 DEF RestartInv, FirstCommandLine, FirstFile, Second, Reading
  <1>4. CASE o.c \in TakesArgument \cup {"f", "s"}
    <2>1. /\ config' = SetByOption(config, o)
          /\ restartargv' = IF o.c \in SkipOnRestart THEN restartargv ELSE Append(restartargv, o)
          /\ left' = Tail(left)
          /\ UNCHANGED pc
      BY <1>4 DEF ParseOption
    <2> HIDE DEF o
    <2>2. SequencesInv'
      <3>1. restartargv' \in Seq(Options)
        BY <1>2, <2>1 DEF RestartInv, SequencesInv
      <3> QED
        BY <1>1, <1>2, <2>1, <3>1 DEF RestartInv, SequencesInv
    <2>3. ASSUME generation = 1 PROVE FirstCommandLine'
      <3>1. PICK g : /\ Parsed(g, restartargv)
                     /\ Alike(g[Len(restartargv)], config)
                     /\ g[Len(restartargv)].daemon = -1
        BY <1>1, <2>3 DEF RestartInv, FirstCommandLine
      <3>2. \A i \in 1 .. Len(restartargv) : restartargv[i].c \in HandedOn
        BY <1>1, <2>3 DEF RestartInv, FirstCommandLine
      <3>3. CASE o.c \in SkipOnRestart
        <4>1. restartargv' = restartargv
          BY <3>3, <2>1
        <4>2. Alike(g[Len(restartargv)], config')
          BY <3>1, <3>3, <2>1, AlikeSkipped
        <4> QED
          BY <3>1, <3>2, <4>1, <4>2 DEF FirstCommandLine
      <3>4. CASE o.c \notin SkipOnRestart
        <4>0. o.c \in HandedOn
          BY <1>4, <3>4 DEF HandedOn
        <4>1. restartargv' = Append(restartargv, o) /\ restartargv \in Seq(Options)
          BY <3>4, <2>1 DEF RestartInv, SequencesInv
        <4>2. PICK gg : /\ Parsed(gg, Append(restartargv, o))
                        /\ gg[Len(restartargv) + 1] = SetByOption(g[Len(restartargv)], o)
          BY <1>2, <3>1, <4>1, ExtendParsed
        <4>3. /\ Alike(gg[Len(restartargv) + 1], config')
              /\ gg[Len(restartargv) + 1].daemon = -1
          BY <2>1, <3>1, <4>0, <4>2, AlikeOption
        <4>4. /\ Len(restartargv') = Len(restartargv) + 1
              /\ \A i \in 1 .. Len(restartargv') : restartargv'[i].c \in HandedOn
          BY <4>0, <4>1, <3>2
        <4> QED
          BY <4>1, <4>2, <4>3, <4>4 DEF FirstCommandLine
      <3> QED
        BY <3>3, <3>4
    <2>4. ASSUME generation = 2 PROVE Second'
      <3> DEFINE n == Len(argv)
                 m == Len(left)
      <3>1. PICK g, h :
              /\ Parsed(g, argv)
              /\ Followed(h, file, Len(file), g[n])
              /\ Succeeds(Final(h[Len(file)]), former)
              /\ m <= n
              /\ \A i \in 1 .. m : left[i] = argv[(n - m) + i]
              /\ config = g[n - m]
        BY <1>1, <2>4 DEF RestartInv, Second
      <3>2. n \in Nat /\ m \in Nat /\ m > 0
        BY <1>2 DEF RestartInv, SequencesInv
      <3>3. Len(left') = m - 1 /\ \A i \in 1 .. (m - 1) : left'[i] = left[i + 1]
        BY <1>2, <2>1
      <3>4. o = argv[(n - m) + 1]
        BY <1>2, <3>1, <3>2
      <3>5. \A k \in 0 .. (n - 1) : g[k + 1] = SetByOption(g[k], argv[k + 1])
        BY <3>1 DEF Parsed
      <3> HIDE DEF n, m
      <3>6. n - m \in 0 .. (n - 1) /\ n - (m - 1) = (n - m) + 1
        BY <3>1, <3>2
      <3>7. config' = g[n - (m - 1)]
        BY <2>1, <3>1, <3>4, <3>5, <3>6
      <3>8. \A i \in 1 .. (m - 1) : left'[i] = argv[(n - (m - 1)) + i]
        <4> SUFFICES ASSUME NEW i \in 1 .. (m - 1) PROVE left'[i] = argv[(n - (m - 1)) + i]
          OBVIOUS
        <4>1. i + 1 \in 1 .. m /\ (n - m) + (i + 1) = (n - (m - 1)) + i
          BY <3>2
        <4> QED
          BY <4>1, <3>1, <3>3
      <3>9. m - 1 <= n
        BY <3>1, <3>2
      <3>10. /\ argv' = argv /\ file' = file /\ former' = former /\ pc' = "commandline"
             /\ Len(argv') = n
        BY <1>1, <2>1 DEF n
      <3> QED
        BY <3>1, <3>3, <3>7, <3>8, <3>9, <3>10 DEF Second, Reading
    <2>5. /\ generation' = 1 => FirstCommandLine' /\ FirstFile'
          /\ generation' = 2 => Second'
      BY <1>1, <2>1, <2>3, <2>4 DEF FirstFile
    <2> QED
      BY <2>2, <2>5 DEF RestartInv, SequencesInv, FirstCommandLine, FirstFile, Second
  <1> QED
    BY <1>3, <1>4

\* The end of the options: the successor will see -x, too.
LEMMA CommandLineEndsKeeps == RestartInv /\ CommandLineEnds => RestartInv'
  <1> SUFFICES ASSUME RestartInv, CommandLineEnds PROVE RestartInv'
    OBVIOUS
  <1>1. /\ pc = "commandline" /\ left = <<>> /\ pc' = "read"
        /\ UNCHANGED <<argv, left, restartargv, text, file, at, config, block, generation, former>>
    BY DEF CommandLineEnds
  <1>2. SequencesInv'
    BY <1>1 DEF RestartInv, SequencesInv
  <1>3. at = 0 /\ at' = 0 /\ Here' = State("read", config, NoBlock)
    BY <1>1 DEF RestartInv, SequencesInv, Here
  <1>4. ASSUME generation = 1 PROVE FirstCommandLine' /\ FirstFile'
    <2>1. PICK g : /\ Parsed(g, restartargv)
                   /\ Alike(g[Len(restartargv)], config)
      BY <1>1, <1>4 DEF RestartInv, FirstCommandLine
    <2>2. \A i \in 1 .. Len(restartargv) : restartargv[i].c \in HandedOn
      BY <1>1, <1>4 DEF RestartInv, FirstCommandLine
    <2>3. restartargv \in Seq(Options) /\ Mark \in Options /\ Mark.c = "x"
      BY DEF RestartInv, SequencesInv, Mark, Options
    <2>4. PICK gg : /\ Parsed(gg, Append(restartargv, Mark))
                    /\ gg[Len(restartargv) + 1] = SetByOption(g[Len(restartargv)], Mark)
      BY <2>1, <2>3, ExtendParsed
    <2> DEFINE c == gg[Len(restartargv) + 1]
               h == [k \in {0} |-> State("read", c, NoBlock)]
    <2>5. Succeeds(c, config)
      BY <2>1, <2>3, <2>4, SucceedsMark
    <2>6. Len(file) = 0
      BY <1>1, <1>4 DEF RestartInv, SequencesInv
    <2>7. h[0] = State("read", c, NoBlock)
      OBVIOUS
    <2> HIDE DEF c, h
    <2>8. Followed(h, file, Len(file), c)
      BY <2>6, <2>7 DEF Followed
    <2>9. Matches(h[at'], Here')
      BY <1>3, <2>5, <2>7, MatchesState
    <2>10. FirstFile'
      BY <1>1, <2>4, <2>8, <2>9 DEF FirstFile, c
    <2> QED
      BY <1>1, <2>2, <2>10 DEF FirstCommandLine
  <1>5. ASSUME generation = 2 PROVE Second'
    <2>1. PICK g, h :
            /\ Parsed(g, argv)
            /\ Followed(h, file, Len(file), g[Len(argv)])
            /\ Succeeds(Final(h[Len(file)]), former)
            /\ config = g[Len(argv) - Len(left)]
      BY <1>1, <1>5 DEF RestartInv, Second
    <2>2. Len(argv) - Len(left) = Len(argv)
      BY <1>1 DEF RestartInv, SequencesInv
    <2>3. Here' = h[at']
      BY <1>3, <2>1, <2>2 DEF Followed
    <2> QED
      BY <1>1, <2>1, <2>3 DEF Second
  <1> QED
    BY <1>1, <1>2, <1>4, <1>5 DEF RestartInv, SequencesInv, FirstCommandLine, FirstFile, Second

\* A line: the first process extends the run, the second one retraces it.
LEMMA ReadsLineKeeps == RestartInv /\ ReadsLine => RestartInv'
  <1> SUFFICES ASSUME RestartInv, ReadsLine PROVE RestartInv'
    OBVIOUS
  <1>1. PICK l \in text : /\ Reads(l)
                          /\ pc \in Reading
                          /\ Here' = Taken(Here, l)
                          /\ UNCHANGED <<argv, left, restartargv, text, generation, former>>
    BY DEF ReadsLine
  <1>2. pc' \in Reading \cup {"exited"} /\ (pc' = "read" => block' = NoBlock)
    <2>1. /\ Here.pc = pc /\ Here.block = block /\ Here'.pc = pc' /\ Here'.block = block'
      BY StateParts DEF Here
    <2>2. pc = "read" => block = NoBlock
      BY DEF RestartInv, SequencesInv
    <2>3. CASE pc = "read"
      <3>1. Here' = TopLine(Here, l)
        BY <1>1, <2>1, <2>3 DEF Taken
      <3>2. AfterOption(l) \in {"read", "exited"}
        BY DEF AfterOption
      <3> QED
        BY <2>1, <2>2, <2>3, <3>1, <3>2, StateParts DEF TopLine, Reading
    <2>4. CASE pc = "server"
      <3>1. Here' = ServerLine(Here, l)
        BY <1>1, <2>1, <2>4 DEF Taken
      <3> QED
        BY <2>1, <2>4, <3>1, StateParts DEF ServerLine, Reading
    <2>5. CASE pc = "ruleset"
      <3>1. Here' = RuleLine(Here, l)
        BY <1>1, <2>1, <2>5 DEF Taken
      <3> QED
        BY <2>1, <2>5, <3>1, StateParts DEF RuleLine, Reading
    <2> QED
      BY <1>1, <2>3, <2>4, <2>5 DEF Reading
  <1>3. l \in LineType /\ file \in Seq(LineType) /\ at \in 0 .. Len(file)
    BY <1>1 DEF RestartInv, SequencesInv
  <1>4. CASE generation = 1
    <2>1. at = Len(file) /\ at' = at + 1 /\ file' = Append(file, l)
      BY <1>1, <1>4 DEF Reads, RestartInv, SequencesInv
    <2>2. file' \in Seq(LineType) /\ Len(file') = Len(file) + 1 /\ at' \in 0 .. Len(file')
      BY <1>3, <2>1
    <2>3. SequencesInv'
      BY <1>1, <1>2, <1>4, <2>1, <2>2 DEF RestartInv, SequencesInv, Reading
    <2>4. FirstCommandLine'
      BY <1>1, <1>2, <1>4 DEF RestartInv, FirstCommandLine, Reading
    <2>5. FirstFile'
      <3>1. PICK g, h :
              /\ Parsed(g, Append(restartargv, Mark))
              /\ Followed(h, file, Len(file), g[Len(restartargv) + 1])
              /\ Matches(h[at], Here)
        BY <1>1, <1>4 DEF RestartInv, FirstFile, Reading
      <3>2. PICK hh :
              /\ Followed(hh, Append(file, l), Len(file) + 1, g[Len(restartargv) + 1])
              /\ hh[Len(file) + 1] = Taken(h[Len(file)], l)
        BY <1>3, <3>1, ExtendFollowed
      <3>3. Matches(hh[at'], Here')
        BY <1>1, <2>1, <3>1, <3>2, MatchingLines
      <3> QED
        BY <1>1, <1>2, <2>1, <2>2, <3>1, <3>2, <3>3 DEF FirstFile, Reading
    <2> QED
      BY <1>1, <1>4, <2>3, <2>4, <2>5 DEF RestartInv, Second
  <1>5. CASE generation = 2
    <2>1. at < Len(file) /\ l = file[at + 1] /\ at' = at + 1 /\ UNCHANGED file
      BY <1>1, <1>5 DEF Reads
    <2>2. SequencesInv'
      <3>1. at' \in 0 .. Len(file')
        BY <1>3, <2>1
      <3> QED
        BY <1>1, <1>2, <1>5, <2>1, <3>1 DEF RestartInv, SequencesInv, Reading
    <2>3. Second'
      <3>1. PICK g, h :
              /\ Parsed(g, argv)
              /\ Followed(h, file, Len(file), g[Len(argv)])
              /\ Succeeds(Final(h[Len(file)]), former)
              /\ Here = h[at]
        BY <1>1, <1>5 DEF RestartInv, Second
      <3>2. at \in 0 .. (Len(file) - 1)
        BY <1>3, <2>1
      <3>3. h[at + 1] = Taken(h[at], file[at + 1])
        BY <3>1, <3>2 DEF Followed
      <3>4. Here' = h[at']
        BY <1>1, <2>1, <3>1, <3>3
      <3> QED
        BY <1>1, <1>2, <2>1, <3>1, <3>4 DEF Second, Reading
    <2> QED
      BY <1>1, <1>5, <2>2, <2>3 DEF RestartInv, FirstCommandLine, FirstFile
  <1> QED
    BY <1>4, <1>5 DEF RestartInv, SequencesInv

\* A block that the file ends.
LEMMA BlockEndsKeeps == RestartInv /\ BlockEnds => RestartInv'
  <1> SUFFICES ASSUME RestartInv, BlockEnds PROVE RestartInv'
    OBVIOUS
  <1>1. /\ pc \in Reading /\ EndOfFile
        /\ pc' = "eof" /\ config' = Ended(Here) /\ block' = NoBlock
        /\ UNCHANGED <<argv, left, restartargv, text, file, at, generation, former>>
    BY DEF BlockEnds, Reading
  <1>2. SequencesInv'
    BY <1>1 DEF RestartInv, SequencesInv
  <1>3. FirstCommandLine'
    BY <1>1 DEF RestartInv, FirstCommandLine, Reading
  <1>4. FirstFile'
    <2> SUFFICES ASSUME generation = 1 PROVE FirstFile'
      BY <1>1 DEF FirstFile
    <2>1. PICK g, h :
            /\ Parsed(g, Append(restartargv, Mark))
            /\ Followed(h, file, Len(file), g[Len(restartargv) + 1])
            /\ Matches(h[at], Here)
      BY <1>1 DEF RestartInv, FirstFile, Reading
    <2>2. Succeeds(Ended(h[at]), config')
      BY <1>1, <2>1, MatchingEnds
    <2> QED
      BY <1>1, <2>1, <2>2 DEF FirstFile, Reading
  <1>5. Second'
    <2> SUFFICES ASSUME generation = 2 PROVE Second'
      BY <1>1 DEF Second
    <2>1. PICK g, h :
            /\ Parsed(g, argv)
            /\ Followed(h, file, Len(file), g[Len(argv)])
            /\ Succeeds(Final(h[Len(file)]), former)
            /\ Here = h[at]
      BY <1>1 DEF RestartInv, Second
    <2>2. at = Len(file)
      BY <1>1 DEF EndOfFile
    <2> QED
      BY <1>1, <2>1, <2>2 DEF Second, Reading
  <1> QED
    BY <1>2, <1>3, <1>4, <1>5 DEF RestartInv

\* The end of config_read, and config_validate.
LEMMA FileEndsKeeps == RestartInv /\ FileEnds => RestartInv'
  <1> SUFFICES ASSUME RestartInv, FileEnds PROVE RestartInv'
    OBVIOUS
  <1>1. /\ pc = "eof" \/ (pc = "read" /\ EndOfFile)
        /\ UNCHANGED <<argv, left, restartargv, text, file, at, block, generation, former>>
    BY DEF FileEnds
  <1>2. CASE pc' = "exited"
    <2>1. SequencesInv'
      BY <1>1, <1>2 DEF RestartInv, SequencesInv
    <2> QED
      BY <1>1, <1>2, <2>1 DEF RestartInv, FirstCommandLine, FirstFile, Second, Reading
  <1>3. CASE pc' = "running" /\ config' = WithPopular(config)
    <2>1. SequencesInv'
      BY <1>1, <1>3 DEF RestartInv, SequencesInv
    <2>2. FirstCommandLine'
      BY <1>1, <1>3 DEF RestartInv, FirstCommandLine
    <2>3. pc = "read" => Ended(Here) = config
      BY StateParts DEF Ended, Here
    <2>4. FirstFile'
      <3> SUFFICES ASSUME generation = 1 PROVE FirstFile'
        BY <1>1 DEF FirstFile
      <3>1. PICK g, h :
              /\ Parsed(g, Append(restartargv, Mark))
              /\ Followed(h, file, Len(file), g[Len(restartargv) + 1])
              /\ pc \in Reading => Matches(h[at], Here)
              /\ pc = "eof" => Succeeds(Ended(h[at]), config)
        BY <1>1 DEF RestartInv, FirstFile
      <3>2. Succeeds(Ended(h[at]), config)
        BY <1>1, <2>3, <3>1, MatchingEnds DEF Reading
      <3>3. Succeeds(Final(h[at]), config')
        BY <1>3, <3>2, MatchingValidation DEF Final
      <3> QED
        BY <1>1, <1>3, <3>1, <3>3 DEF FirstFile, Reading
    <2>5. Second'
      <3> SUFFICES ASSUME generation = 2 PROVE Second'
        BY <1>1 DEF Second
      <3>1. PICK g, h :
              /\ Parsed(g, argv)
              /\ Followed(h, file, Len(file), g[Len(argv)])
              /\ Succeeds(Final(h[Len(file)]), former)
              /\ pc \in Reading => Here = h[at]
              /\ pc = "eof" => at = Len(file) /\ config = Ended(h[at])
        BY DEF RestartInv, Second
      <3>2. at = Len(file) /\ config = Ended(h[at])
        BY <1>1, <2>3, <3>1 DEF EndOfFile, Reading
      <3> QED
        BY <1>1, <1>3, <3>1, <3>2 DEF Second, Reading, Final
    <2> QED
      BY <2>1, <2>2, <2>4, <2>5 DEF RestartInv
  <1> QED
    BY <1>2, <1>3 DEF FileEnds

\* The restart: the run made for the successor is now the one it retraces.
LEMMA ReexecuteKeeps == RestartInv /\ Reexecute => RestartInv'
  <1> SUFFICES ASSUME RestartInv, Reexecute PROVE RestartInv'
    OBVIOUS
  <1>1. /\ pc = "running" /\ generation = 1 /\ generation' = 2 /\ former' = config
        /\ argv' = Append(restartargv, Mark) /\ left' = argv' /\ restartargv' = <<>>
        /\ config' = config_init /\ at' = 0 /\ pc' = "commandline"
        /\ UNCHANGED <<text, file, block>>
    BY DEF Reexecute, Mark
  <1>2. Mark \in Options
    BY DEF Options
  <1>3. restartargv \in Seq(Options)
    BY DEF RestartInv, SequencesInv
  <1>4. argv' \in Seq(Options) /\ Len(argv') = Len(restartargv) + 1 /\ Len(argv') \in Nat
    BY <1>1, <1>2, <1>3
  <1>5. SequencesInv'
    BY <1>1, <1>4 DEF RestartInv, SequencesInv
  <1>6. Second'
    <2>1. PICK g, h :
            /\ Parsed(g, Append(restartargv, Mark))
            /\ Followed(h, file, Len(file), g[Len(restartargv) + 1])
            /\ Succeeds(Final(h[at]), config)
      BY <1>1 DEF RestartInv, FirstFile, Reading
    <2>2. at = Len(file)
      BY <1>1 DEF RestartInv, SequencesInv
    <2>3. g[0] = config_init
      BY <2>1 DEF Parsed
    <2>4. /\ Len(left') <= Len(argv') /\ Len(argv') - Len(left') = 0
          /\ \A i \in 1 .. Len(left') : left'[i] = argv'[(Len(argv') - Len(left')) + i]
      BY <1>1, <1>4
    <2> QED
      BY <1>1, <1>4, <2>1, <2>2, <2>3, <2>4 DEF Second, Reading
  <1> QED
    BY <1>1, <1>5, <1>6 DEF RestartInv, FirstCommandLine, FirstFile

-----------------------------------------------------------------------------
(* Blocks of a file f.                                                     *)

\* The blocks open before line i, and the one line i is in.
OpenIn(f, i) ==
    {j \in 1 .. (i - 1) : Opens(f[j]) /\ \A k \in (j + 1) .. (i - 1) : ~Closes(f[k])}
InBlock(f, i) == IF OpenIn(f, i) = {} \/ Opens(f[i]) THEN 0 ELSE LastOf(OpenIn(f, i))
\* The lines of the top level that give an option a value.
Takes(kw, l) == l.kw = kw /\ l.arg # <<>> /\ (kw \in NumberOptions => Value(l) \in Numerals)
TopIn(f, n, kw) == {i \in 1 .. n : InBlock(f, i) = 0 /\ Takes(kw, f[i])}
TopOptions == StringOptions \cup NumberOptions
Given(f, n, j, o) == {i \in 1 .. n : InBlock(f, i) = j /\ f[i].kw = o /\ ~Closes(f[i])}
\* The value an option of a server has, and the server of block j.
OptionIn(f, n, j, o) ==
    IF Given(f, n, j, o) = {} THEN ServerDefaults[o]
    ELSE ServerValue(f[LastOf(Given(f, n, j, o))])
ServerIn(f, n, j) == [o \in DOMAIN ServerDefaults |-> OptionIn(f, n, j, o)]
HostedIn(f, n) ==
    {j \in 1 .. n : /\ f[j].kw = "authserver" /\ f[j].arg # <<>>
                    /\ OptionIn(f, n, j, "hostname") # Unset}
RecognisedIn(f, i) ==
    LET l == f[i]  j == InBlock(f, i) IN
    \/ l.kw = "#" \/ Empty(l) \/ (j # 0 /\ Closes(l))
    \/ j = 0 /\ (l.arg = <<>> \/ Opens(l) \/ (l.kw \in PlainOptions /\ ~BreaksOff(l))
                  \/ (l.kw \in StrictFlags /\ parse_boolean_value(Value(l)) # -1))
    \/ j # 0 /\ f[j].kw = "authserver"
             /\ (l.kw \in ServerStrings \cup ServerNumbers \/ (l.kw = "sslavailable" /\ Flag(l) # -1))
    \/ j # 0 /\ f[j].kw = "firewallruleset" /\ l.kw = "firewallrule"

\* A non-empty set of lines has a last one.
LEMMA LastExists ==
    ASSUME NEW n \in Nat, NEW T, T \subseteq 1 .. n, T # {}
    PROVE  LastOf(T) \in T /\ \A j \in T : j <= LastOf(T)
  <1> DEFINE R == {ss \in Nat \X Nat : ss[1] < ss[2]}
             U == {m \in Nat : \A t \in T : t <= m}
  <1>0. IsWellFoundedOn(R, Nat)
    BY NatLessThanWellFounded DEF OpToRel
  <1>1. n \in U /\ U \subseteq Nat
    OBVIOUS
  <1> HIDE DEF R
  <1>2. PICK u \in U : \A y \in U : ~ (<<y, u>> \in R)
    BY <1>0, <1>1, WFMin
  <1>3. u \in T
    <2> SUFFICES ASSUME u \notin T PROVE FALSE
      OBVIOUS
    <2>1. u - 1 \in U
      <3>1. PICK t \in T : t \in 1 .. n
        OBVIOUS
      <3>2. \A x \in T : x \in Int /\ x <= u /\ x # u
        OBVIOUS
      <3>3. u - 1 \in Nat
        BY <3>1
      <3>4. \A x \in T : x <= u - 1
        BY <3>2
      <3> QED
        BY <3>3, <3>4
    <2>2. <<u - 1, u>> \in R
      BY <2>1 DEF R
    <2> QED
      BY <1>2, <2>1, <2>2
  <1>4. \A j \in T : j <= u
    OBVIOUS
  <1> QED
    BY <1>3, <1>4 DEF LastOf

\* A new line is the last one.
LEMMA LastAdded ==
    ASSUME NEW n \in Nat, NEW T, T \subseteq 1 .. n
    PROVE  LastOf(T \cup {n + 1}) = n + 1
  <1> DEFINE A == T \cup {n + 1}
  <1>1. A \subseteq 1 .. (n + 1) /\ A # {} /\ n + 1 \in A /\ n + 1 \in Nat
    OBVIOUS
  <1>2. LastOf(A) \in A /\ \A j \in A : j <= LastOf(A)
    BY <1>1, LastExists
  <1> HIDE DEF A
  <1>3. LastOf(A) \in 1 .. (n + 1) /\ n + 1 <= LastOf(A)
    BY <1>1, <1>2
  <1>4. LastOf(A) = n + 1
    BY <1>3
  <1> QED
    BY <1>4 DEF A

\* The block a line is in was opened before it.
LEMMA InBlockRange ==
    ASSUME NEW f, NEW i \in Nat \ {0}
    PROVE  /\ InBlock(f, i) \in 0 .. (i - 1)
           /\ InBlock(f, i) \in OpenIn(f, i) \cup {0}
  <1>1. OpenIn(f, i) \subseteq 1 .. (i - 1) /\ i - 1 \in Nat
    BY DEF OpenIn
  <1>2. CASE OpenIn(f, i) = {} \/ Opens(f[i])
    BY <1>2 DEF InBlock
  <1>3. CASE ~(OpenIn(f, i) = {} \/ Opens(f[i]))
    <2>1. InBlock(f, i) = LastOf(OpenIn(f, i))
      BY <1>3 DEF InBlock
    <2>2. LastOf(OpenIn(f, i)) \in OpenIn(f, i)
      BY <1>1, <1>3, LastExists
    <2> QED
      BY <1>1, <2>1, <2>2
  <1> QED
    BY <1>2, <1>3

\* The last of one line.
LEMMA LastSingle ==
    ASSUME NEW n \in Nat, NEW j \in 1 .. n
    PROVE  LastOf({j}) = j
  BY LastExists

\* The files agree up to line n.
Agree(f, g, n) == \A i \in 1 .. n : f[i] = g[i]

\* What is open before a line depends on the lines before it only,
LEMMA SameOpen ==
    ASSUME NEW f, NEW g, NEW n \in Nat, Agree(f, g, n), NEW i \in 1 .. (n + 1)
    PROVE  OpenIn(f, i) = OpenIn(g, i)
  <1>1. \A j \in 1 .. (i - 1) : f[j] = g[j]
    BY DEF Agree
  <1>2. \A j \in 1 .. (i - 1) : \A k \in (j + 1) .. (i - 1) : k \in 1 .. (i - 1)
    OBVIOUS
  <1> QED
    BY <1>1, <1>2 DEF OpenIn

\* and so does the block that a line is in.
LEMMA SameBlock ==
    ASSUME NEW f, NEW g, NEW n \in Nat, Agree(f, g, n), NEW i \in 1 .. n
    PROVE  InBlock(f, i) = InBlock(g, i)
  <1>1. OpenIn(f, i) = OpenIn(g, i) /\ f[i] = g[i]
    BY SameOpen DEF Agree
  <1> QED
    BY <1>1 DEF InBlock

\* The blocks that are open after one more line.
LEMMA OpenNext ==
    ASSUME NEW f, NEW n \in Nat
    PROVE  OpenIn(f, n + 2) = (IF Closes(f[n + 1]) THEN {} ELSE OpenIn(f, n + 1))
                              \cup (IF Opens(f[n + 1]) THEN {n + 1} ELSE {})
  <1>1. (n + 2) - 1 = n + 1 /\ (n + 1) - 1 = n
    OBVIOUS
  <1>2. OpenIn(f, n + 2) = {j \in 1 .. (n + 1) : Opens(f[j]) /\ \A k \in (j + 1) .. (n + 1) : ~Closes(f[k])}
    BY <1>1 DEF OpenIn
  <1>3. OpenIn(f, n + 1) = {j \in 1 .. n : Opens(f[j]) /\ \A k \in (j + 1) .. n : ~Closes(f[k])}
    BY <1>1 DEF OpenIn
  <1>4. ASSUME NEW j \in 1 .. n
        PROVE  (\A k \in (j + 1) .. (n + 1) : ~Closes(f[k]))
               <=> (\A k \in (j + 1) .. n : ~Closes(f[k])) /\ ~Closes(f[n + 1])
    <2>1. (j + 1) .. (n + 1) = ((j + 1) .. n) \cup {n + 1}
      OBVIOUS
    <2> QED
      BY <2>1
  <1>5. 1 .. (n + 1) = (1 .. n) \cup {n + 1}
    OBVIOUS
  <1>6. \A k \in ((n + 1) + 1) .. (n + 1) : ~Closes(f[k])
    OBVIOUS
  <1>7. ASSUME NEW j
        PROVE  j \in OpenIn(f, n + 2) <=>
                 j \in (IF Closes(f[n + 1]) THEN {} ELSE OpenIn(f, n + 1))
                              \cup (IF Opens(f[n + 1]) THEN {n + 1} ELSE {})
    <2>1. CASE j = n + 1
      <3>1. n + 1 \notin OpenIn(f, n + 1)
        BY <1>3
      <3> QED
        BY <2>1, <3>1, <1>2, <1>5, <1>6
    <2>2. CASE j # n + 1
      BY <2>2, <1>2, <1>3, <1>4, <1>5
    <2> QED
      BY <2>1, <2>2
  <1> QED
    BY <1>7

\* The lines of the top level with a keyword, after one more line.
LEMMA TopNext ==
    ASSUME NEW f, NEW g, NEW n \in Nat, Agree(f, g, n), NEW kw
    PROVE  TopIn(g, n + 1, kw) =
             TopIn(f, n, kw) \cup (IF InBlock(g, n + 1) = 0 /\ Takes(kw, g[n + 1])
                                   THEN {n + 1} ELSE {})
  <1>1. \A i \in 1 .. n : InBlock(f, i) = InBlock(g, i) /\ f[i] = g[i]
    BY SameBlock DEF Agree
  <1>2. 1 .. (n + 1) = (1 .. n) \cup {n + 1}
    OBVIOUS
  <1> QED
    BY <1>1, <1>2 DEF TopIn

\* The lines that give a block an option, after one more line.
LEMMA GivenNext ==
    ASSUME NEW f, NEW g, NEW n \in Nat, Agree(f, g, n), NEW j, NEW o
    PROVE  Given(g, n + 1, j, o) =
             Given(f, n, j, o) \cup (IF InBlock(g, n + 1) = j /\ g[n + 1].kw = o /\ ~Closes(g[n + 1])
                                     THEN {n + 1} ELSE {})
  <1>1. \A i \in 1 .. n : InBlock(f, i) = InBlock(g, i) /\ f[i] = g[i]
    BY SameBlock DEF Agree
  <1>2. 1 .. (n + 1) = (1 .. n) \cup {n + 1}
    OBVIOUS
  <1> QED
    BY <1>1, <1>2 DEF Given

\* A line that gives a block nothing leaves the options of that block.
LEMMA SameOption ==
    ASSUME NEW f, NEW g, NEW n \in Nat, Agree(f, g, n), NEW j, NEW o,
           ~(InBlock(g, n + 1) = j /\ g[n + 1].kw = o /\ ~Closes(g[n + 1]))
    PROVE  OptionIn(g, n + 1, j, o) = OptionIn(f, n, j, o)
  <1>1. Given(g, n + 1, j, o) = Given(f, n, j, o)
    BY GivenNext
  <1>2. Given(f, n, j, o) \subseteq 1 .. n
    BY DEF Given
  <1>3. Given(f, n, j, o) # {} => f[LastOf(Given(f, n, j, o))] = g[LastOf(Given(f, n, j, o))]
    BY <1>2, LastExists DEF Agree
  <1> QED
    BY <1>1, <1>3 DEF OptionIn

\* A line that gives a block an option decides it.
LEMMA NewOption ==
    ASSUME NEW f, NEW g, NEW n \in Nat, Agree(f, g, n), NEW j, NEW o,
           InBlock(g, n + 1) = j, g[n + 1].kw = o, ~Closes(g[n + 1])
    PROVE  OptionIn(g, n + 1, j, o) = ServerValue(g[n + 1])
  <1>1. Given(g, n + 1, j, o) = Given(f, n, j, o) \cup {n + 1}
    BY GivenNext
  <1>2. Given(f, n, j, o) \subseteq 1 .. n
    BY DEF Given
  <1>3. LastOf(Given(g, n + 1, j, o)) = n + 1
    BY <1>1, <1>2, LastAdded
  <1> QED
    BY <1>1, <1>3 DEF OptionIn

\* A line outside of a block leaves its server.
LEMMA SameServer ==
    ASSUME NEW f, NEW g, NEW n \in Nat, Agree(f, g, n), NEW j,
           InBlock(g, n + 1) # j \/ Closes(g[n + 1])
    PROVE  ServerIn(g, n + 1, j) = ServerIn(f, n, j)
  <1>1. \A o : OptionIn(g, n + 1, j, o) = OptionIn(f, n, j, o)
    BY SameOption
  <1> QED
    BY <1>1 DEF ServerIn

\* A line that was recognised stays so.
LEMMA SameRecognised ==
    ASSUME NEW f, NEW g, NEW n \in Nat, Agree(f, g, n), NEW i \in 1 .. n, RecognisedIn(f, i)
    PROVE  RecognisedIn(g, i)
  <1>1. InBlock(f, i) = InBlock(g, i) /\ f[i] = g[i]
    BY SameBlock DEF Agree
  <1>2. InBlock(f, i) # 0 => InBlock(f, i) \in 1 .. n
    BY InBlockRange
  <1>3. InBlock(f, i) # 0 => f[InBlock(f, i)] = g[InBlock(f, i)]
    BY <1>2 DEF Agree
  <1> QED
    BY <1>1, <1>3 DEF RecognisedIn

-----------------------------------------------------------------------------
(* What is read, against the file.                                         *)

\* A line as the instances have them.
GoodLine(l) == l \in LineType /\ ~(Opens(l) /\ Closes(l))

\* A value that a line gives is not NULL.
LEMMA ValueIsWord == ASSUME NEW l, GoodLine(l) PROVE Value(l) # NULL
  <1>1. l.arg \in Seq(STRING \ {NULL})
    BY DEF GoodLine, LineType
  <1>2. CASE l.arg = <<>>
    BY <1>2 DEF Value, NULL, Nothing
  <1>3. CASE l.arg # <<>>
    <2>1. Head(l.arg) \in STRING \ {NULL}
      BY <1>1, <1>3
    <2> QED
      BY <1>3, <2>1 DEF Value
  <1> QED
    BY <1>2, <1>3

\* A configuration with its options.
Fit(c) == DOMAIN c = Fields /\ DOMAIN c.options = StringOptions \cup NumberOptions

\* Options without a default that are needed.
Mandatories == {"gatewayinterface", "httpdpassword"}

\* The options are what the lines of the top level say last.
TopsFit(c, f, n) ==
    /\ \A o \in TopOptions : TopIn(f, n, o) # {} =>
         c.options[o] = Value(f[LastOf(TopIn(f, n, o))])
    /\ \A o \in Mandatories : TopIn(f, n, o) = {} => c.options[o] = NULL

\* L lists the servers of the blocks in H, in the order of the file.
Listed(L, f, n, H) ==
    /\ \E S : L \in Seq(S)
    /\ Len(L) = Cardinality(H)
    /\ \A j \in H : L[Cardinality({i \in H : i <= j})] = ServerIn(f, n, j)

\* The block being read is the open one, with what it has said so far.
Within(s, f, n) ==
    \/ s.pc = "read" /\ OpenIn(f, n + 1) = {} /\ s.block = NoBlock
    \/ \E j \in 1 .. n :
         /\ s.pc = "server" /\ OpenIn(f, n + 1) = {j} /\ f[j].kw = "authserver" /\ f[j].arg # <<>>
         /\ DOMAIN s.block = {"ruleset", "server"}
         /\ s.block.server = ServerIn(f, n, j)
    \/ \E j \in 1 .. n :
         s.pc = "ruleset" /\ OpenIn(f, n + 1) = {j} /\ f[j].kw = "firewallruleset"

\* s is what the first n lines of f lead to.
Read(s, f, n) ==
    /\ Fit(s.config)
    /\ \A i \in 1 .. n : RecognisedIn(f, i) /\ GoodLine(f[i])
    /\ TopsFit(s.config, f, n)
    /\ Within(s, f, n)
    /\ Listed(s.config.auth_servers, f, n, HostedIn(f, n) \ OpenIn(f, n + 1))

\* What a line of the top level does to a configuration.
LEMMA PutFit ==
    ASSUME NEW c, Fit(c), NEW x \in Fields \ {"options", "auth_servers"}, NEW v
    PROVE  Fit(Put(c, x, v)) /\ Put(c, x, v).options = c.options
           /\ Put(c, x, v).auth_servers = c.auth_servers
  <1>1. "options" \in Fields /\ "auth_servers" \in Fields
    BY DEF Fields
  <1>2. DOMAIN Put(c, x, v) = Fields /\ Put(c, x, v).options = c.options
        /\ Put(c, x, v).auth_servers = c.auth_servers
    BY <1>1 DEF Put, Fit
  <1> QED
    BY <1>2 DEF Fit

\* A line that sets an option.
LEMMA PutOptions ==
    ASSUME NEW c, Fit(c), NEW k \in TopOptions, NEW v, NEW d,
           d = Put(c, "options", Put(c.options, k, v))
    PROVE  /\ Fit(d) /\ d.auth_servers = c.auth_servers
           /\ \A o \in TopOptions : d.options[o] = IF k = o THEN v ELSE c.options[o]
  <1> DEFINE p == Put(c.options, k, v)
  <1>1. "options" \in Fields /\ "auth_servers" \in Fields
    BY DEF Fields
  <1>2. DOMAIN p = StringOptions \cup NumberOptions
    BY DEF Put, Fit, TopOptions
  <1>3. \A o \in TopOptions : p[o] = IF k = o THEN v ELSE c.options[o]
    BY DEF Put, Fit, TopOptions
  <1>a. d = Put(c, "options", p)
    OBVIOUS
  <1> HIDE DEF p
  <1>4. DOMAIN d = Fields /\ d.options = p /\ d.auth_servers = c.auth_servers
    BY <1>1, <1>a DEF Put, Fit
  <1>5. Fit(d)
    BY <1>2, <1>4 DEF Fit
  <1> QED
    BY <1>3, <1>4, <1>5

\* A line that says Daemon.
LEMMA DaemonFit ==
    ASSUME NEW c, Fit(c), NEW w
    PROVE  Fit(SetDaemon(c, w)) /\ SetDaemon(c, w).options = c.options
           /\ SetDaemon(c, w).auth_servers = c.auth_servers
  <1> DEFINE v == parse_boolean_value(w)
             d == [c EXCEPT !.daemon = v, !.log_stderr = 1 - v]
  <1>1. "options" \in Fields /\ "auth_servers" \in Fields
    BY DEF Fields
  <1>2. DOMAIN d = Fields /\ d.options = c.options /\ d.auth_servers = c.auth_servers
    <2> HIDE DEF v
    <2> QED
      BY <1>1 DEF Fit
  <1>3. SetDaemon(c, w) = c \/ SetDaemon(c, w) = d
    BY DEF SetDaemon
  <1> HIDE DEF d
  <1> QED
    BY <1>2, <1>3 DEF Fit

\* A line of the top level sets the option it names, and adds no server.
LEMMA LineEffects ==
    ASSUME NEW c, Fit(c), NEW l, l.kw \in PlainOptions \cup StrictFlags, l.arg # <<>>
    PROVE  /\ Fit(SetByLine(c, l)) /\ SetByLine(c, l).auth_servers = c.auth_servers
           /\ \A o \in TopOptions :
                SetByLine(c, l).options[o] = IF Takes(o, l) THEN Value(l) ELSE c.options[o]
  <1>0. /\ {"flags", "deltatraffic", "trustedmaclist", "popular_servers"}
             \subseteq Fields \ {"options", "auth_servers"}
    BY DEF Fields
  <1> DEFINE d == Put(c, "options", Put(c.options, l.kw, Value(l)))
  <1>a. ASSUME l.kw \in TopOptions
        PROVE  /\ Fit(d) /\ d.auth_servers = c.auth_servers
               /\ \A o \in TopOptions : d.options[o] = IF l.kw = o THEN Value(l) ELSE c.options[o]
    <2> DEFINE k == l.kw
               v == Value(l)
    <2>1. d = Put(c, "options", Put(c.options, k, v)) /\ k \in TopOptions
      BY <1>a
    <2> HIDE DEF d, k, v
    <2>2. /\ Fit(d) /\ d.auth_servers = c.auth_servers
          /\ \A o \in TopOptions : d.options[o] = IF k = o THEN v ELSE c.options[o]
      BY <2>1, PutOptions
    <2> QED
      BY <2>2 DEF k, v
  <1>b. \A o : Takes(o, l) => l.kw = o
    BY DEF Takes
  <1>1. CASE l.kw \in StringOptions
    <2>1. SetByLine(c, l) = d
      BY <1>1, LineKinds
    <2>2. \A o : Takes(o, l) <=> l.kw = o
      BY <1>1 DEF Takes, StringOptions, NumberOptions
    <2>3. l.kw \in TopOptions
      BY <1>1 DEF TopOptions
    <2> HIDE DEF d
    <2> QED
      BY <1>a, <2>1, <2>2, <2>3
  <1>2. CASE l.kw \in NumberOptions
    <2>1. l.kw \in TopOptions
      BY <1>2 DEF TopOptions
    <2>2. CASE Value(l) \in Numerals
      <3>1. SetByLine(c, l) = d
        BY <1>2, <2>2, LineKinds
      <3>2. \A o : Takes(o, l) <=> l.kw = o
        BY <2>2 DEF Takes
      <3> HIDE DEF d
      <3> QED
        BY <1>a, <2>1, <3>1, <3>2
    <2>3. CASE Value(l) \notin Numerals
      <3>1. SetByLine(c, l) = c
        BY <1>2, <2>3, LineKinds
      <3>2. \A o : ~Takes(o, l)
        BY <1>2, <2>3 DEF Takes
      <3> QED
        BY <3>1, <3>2
    <2> QED
      BY <2>2, <2>3
  <1>3. CASE l.kw \in StrictFlags
    <2>1. \A o \in TopOptions : l.kw # o
      BY <1>3 DEF TopOptions, StringOptions, NumberOptions, StrictFlags
    <2> QED
      BY <1>0, <1>3, <1>b, <2>1, LineKinds, PutFit
  <1>4. CASE l.kw \in {"deltatraffic", "daemon", "trustedmaclist", "popularservers"}
    <2>1. \A o \in TopOptions : l.kw # o
      BY <1>4 DEF TopOptions, StringOptions, NumberOptions
    <2>0. \A o \in TopOptions : ~Takes(o, l)
      BY <1>b, <2>1
    <2>2. CASE l.kw = "daemon"
      BY <2>0, <2>2, LineKinds, DaemonFit
    <2>3. CASE l.kw = "deltatraffic"
      BY <1>0, <2>0, <2>3, LineKinds, PutFit
    <2>4. CASE l.kw = "trustedmaclist"
      BY <1>0, <2>0, <2>4, LineKinds, PutFit
    <2>5. CASE l.kw = "popularservers"
      BY <1>0, <2>0, <2>5, LineKinds, PutFit
    <2> QED
      BY <1>4, <2>2, <2>3, <2>4, <2>5
  <1> QED
    BY <1>1, <1>2, <1>3, <1>4 DEF PlainOptions

\* The options, after a line that the top level took.
LEMMA TopsNext ==
    ASSUME NEW f, NEW g, NEW n \in Nat, Agree(f, g, n), NEW c, NEW d, TopsFit(c, f, n),
           \A o \in TopOptions :
             IF InBlock(g, n + 1) = 0 /\ Takes(o, g[n + 1])
             THEN d.options[o] = Value(g[n + 1]) ELSE d.options[o] = c.options[o]
    PROVE  TopsFit(d, g, n + 1)
  <1> DEFINE adds(o) == InBlock(g, n + 1) = 0 /\ Takes(o, g[n + 1])
  <1>1. \A o : TopIn(f, n, o) \subseteq 1 .. n
    BY DEF TopIn
  <1>2. ASSUME NEW o
        PROVE  /\ adds(o) => TopIn(g, n + 1, o) = TopIn(f, n, o) \cup {n + 1}
               /\ ~adds(o) => TopIn(g, n + 1, o) = TopIn(f, n, o)
    <2>1. TopIn(g, n + 1, o) = TopIn(f, n, o) \cup (IF adds(o) THEN {n + 1} ELSE {})
      BY TopNext
    <2> HIDE DEF adds
    <2> QED
      BY <2>1
  <1>3. \A o : adds(o) => LastOf(TopIn(g, n + 1, o)) = n + 1
    BY <1>1, <1>2, LastAdded
  <1>4. \A o \in TopOptions : adds(o) => d.options[o] = Value(g[n + 1])
    OBVIOUS
  <1>5. \A o \in TopOptions : ~adds(o) => d.options[o] = c.options[o]
    OBVIOUS
  <1> HIDE DEF adds
  <1>6. ASSUME NEW o \in TopOptions, TopIn(g, n + 1, o) # {}
        PROVE  d.options[o] = Value(g[LastOf(TopIn(g, n + 1, o))])
    <2>1. CASE adds(o)
      BY <1>3, <1>4, <2>1
    <2>2. CASE ~adds(o)
      <3>1. TopIn(g, n + 1, o) = TopIn(f, n, o) /\ d.options[o] = c.options[o]
        BY <1>2, <1>5, <2>2
      <3>2. LastOf(TopIn(f, n, o)) \in 1 .. n
        BY <1>1, <1>6, <3>1, LastExists
      <3>3. f[LastOf(TopIn(f, n, o))] = g[LastOf(TopIn(f, n, o))]
        BY <3>2 DEF Agree
      <3> QED
        BY <1>6, <3>1, <3>3 DEF TopsFit
    <2> QED
      BY <2>1, <2>2
  <1>7. ASSUME NEW o \in Mandatories, TopIn(g, n + 1, o) = {} PROVE d.options[o] = NULL
    <2>1. ~adds(o)
      BY <1>2, <1>7
    <2>2. TopIn(f, n, o) = {} /\ o \in TopOptions
      BY <1>2, <1>7, <2>1 DEF Mandatories, StringOptions, TopOptions
    <2> QED
      BY <1>5, <2>1, <2>2 DEF TopsFit
  <1> QED
    BY <1>6, <1>7 DEF TopsFit

\* The servers already listed, after a line outside of their blocks.
LEMMA ListedNext ==
    ASSUME NEW f, NEW g, NEW n \in Nat, Agree(f, g, n), NEW L, NEW H, Listed(L, f, n, H),
           \A j \in H : InBlock(g, n + 1) # j \/ Closes(g[n + 1])
    PROVE  Listed(L, g, n + 1, H)
  <1>1. \A j \in H : ServerIn(g, n + 1, j) = ServerIn(f, n, j)
    BY SameServer
  <1> QED
    BY <1>1 DEF Listed

\* L lists the values F[j] of the lines in H, in the order of the file.
Ranked(L, F, H) ==
    /\ \E S : L \in Seq(S)
    /\ Len(L) = Cardinality(H)
    /\ \A j \in H : L[Cardinality({i \in H : i <= j})] = F[j]

\* One more line.
LEMMA RankedAppend ==
    ASSUME NEW n \in Nat, NEW L, NEW F, NEW H, Ranked(L, F, H), H \subseteq 1 .. n,
           NEW j \in 1 .. n, \A i \in H : i < j
    PROVE  Ranked(Append(L, F[j]), F, H \cup {j})
  <1> DEFINE x == F[j]
             M == Append(L, x)
             K == H \cup {j}
  <1>1. PICK S : L \in Seq(S)
    BY DEF Ranked
  <1>2. L \in Seq(S \cup {x}) /\ x \in S \cup {x}
    BY <1>1
  <1>3. M \in Seq(S \cup {x}) /\ Len(M) = Len(L) + 1 /\ M[Len(L) + 1] = x
        /\ \A i \in 1 .. Len(L) : M[i] = L[i]
    <2> HIDE DEF x
    <2> QED
      BY <1>2
  <1>4. IsFiniteSet(1 .. n)
    BY FS_Interval
  <1>5. IsFiniteSet(H) /\ j \notin H
    <2>1. IsFiniteSet(H)
      BY <1>4, FS_Subset
    <2>2. j \in Int /\ ~(j < j)
      OBVIOUS
    <2> QED
      BY <2>1, <2>2
  <1>6. Cardinality(K) = Cardinality(H) + 1 /\ Cardinality(H) \in Nat
    BY <1>5, FS_AddElement, FS_CardinalityType
  <1>7. Len(M) = Cardinality(K)
    BY <1>3, <1>6 DEF Ranked
  <1>8. ASSUME NEW k \in K PROVE M[Cardinality({i \in K : i <= k})] = F[k]
    <2>1. CASE k = j
      <3>0. j \in Int /\ j <= j /\ \A i \in H : i \in Int /\ i <= j
        OBVIOUS
      <3>1. {i \in K : i <= k} = K
        BY <2>1, <3>0
      <3> QED
        BY <1>3, <1>6, <2>1, <3>1 DEF Ranked
    <2>2. CASE k # j
      <3> DEFINE T == {i \in H : i <= k}
      <3>1. k \in H /\ k < j
        BY <2>2
      <3>2. {i \in K : i <= k} = T
        BY <3>1
      <3>3. T \subseteq H /\ k \in T
        BY <3>1
      <3> HIDE DEF T
      <3>4. Cardinality(T) \in Nat /\ Cardinality(T) <= Cardinality(H) /\ Cardinality(T) # 0
        BY <1>5, <3>3, FS_Subset, FS_CardinalityType, FS_EmptySet
      <3>5. Cardinality(T) \in 1 .. Len(L)
        BY <1>6, <3>4 DEF Ranked
      <3>6. M[Cardinality(T)] = L[Cardinality(T)]
        BY <1>3, <3>5
      <3>7. L[Cardinality(T)] = F[k]
        BY <3>1 DEF Ranked, T
      <3> QED
        BY <3>2, <3>6, <3>7
    <2> QED
      BY <2>1, <2>2
  <1> HIDE DEF M, K
  <1>9. Ranked(M, F, K)
    BY <1>3, <1>7, <1>8 DEF Ranked
  <1> QED
    BY <1>9 DEF M, K

\* One more server.
LEMMA ListedAppend ==
    ASSUME NEW f, NEW n \in Nat, NEW L, NEW H, Listed(L, f, n, H), H \subseteq 1 .. n,
           NEW j \in 1 .. n, \A i \in H : i < j
    PROVE  Listed(Append(L, ServerIn(f, n, j)), f, n, H \cup {j})
  <1> DEFINE F == [k \in 1 .. n |-> ServerIn(f, n, k)]
             K == H \cup {j}
  <1>1. \A k \in 1 .. n : F[k] = ServerIn(f, n, k)
    OBVIOUS
  <1> HIDE DEF F
  <1>2. Ranked(L, F, H)
    BY <1>1 DEF Listed, Ranked
  <1>3. Ranked(Append(L, F[j]), F, K)
    BY <1>2, RankedAppend
  <1>4. K \subseteq 1 .. n
    OBVIOUS
  <1> HIDE DEF K
  <1>5. Listed(Append(L, F[j]), f, n, K)
    BY <1>1, <1>3, <1>4 DEF Listed, Ranked
  <1> QED
    BY <1>1, <1>5 DEF K

\* A new block is one with defaults, and without a host.
LEMMA Defaults ==
    /\ "hostname" \in DOMAIN ServerDefaults /\ ServerDefaults["hostname"] = Unset
    /\ ServerDefaults = [o \in DOMAIN ServerDefaults |-> ServerDefaults[o]]
    /\ DOMAIN ServerDefaults = ServerStrings \cup ServerNumbers \cup {"sslavailable"}
    /\ DOMAIN NoBlock = {"ruleset", "server"} /\ NoBlock.server = ServerDefaults
  <1>1. DOMAIN ServerDefaults = ServerStrings \cup ServerNumbers \cup {"sslavailable"}
    BY DEF ServerDefaults
  <1>2. ServerDefaults = [o \in DOMAIN ServerDefaults |-> ServerDefaults[o]]
    BY DEF ServerDefaults
  <1>3. "hostname" \in DOMAIN ServerDefaults /\ ServerDefaults["hostname"] = Unset
    <2>1. "hostname" \in ServerStrings
      BY DEF ServerStrings
    <2> DEFINE d == <<"default">>
               u == Unset
               h == "hostname"
               D(o) == CASE o = h -> u [] o = "sslavailable" -> 0
                         [] o \in ServerStrings \ {h} -> d
                         [] o \in ServerNumbers -> "default"
    <2>2. ServerDefaults = [o \in ServerStrings \cup ServerNumbers \cup {"sslavailable"} |-> D(o)]
      BY Zenon DEF ServerDefaults
    <2>3. h # "sslavailable" /\ h \notin ServerNumbers
      BY DEF ServerNumbers
    <2> HIDE DEF d, u, h
    <2>4. D(h) = u
      BY <2>3
    <2> HIDE DEF D
    <2>5. h \in DOMAIN ServerDefaults /\ ServerDefaults[h] = u
      BY <2>1, <2>2, <2>4 DEF h
    <2> QED
      BY <2>5 DEF h, u
  <1>4. DOMAIN NoBlock = {"ruleset", "server"} /\ NoBlock.server = ServerDefaults
    BY DEF NoBlock
  <1> QED
    BY <1>1, <1>2, <1>3, <1>4

\* The block that line n + 1 opens has said nothing yet.
LEMMA NotYet ==
    ASSUME NEW f, NEW n \in Nat, NEW o
    PROVE  OptionIn(f, n + 1, n + 1, o) = ServerDefaults[o]
  <1>1. \A i \in 1 .. (n + 1) : InBlock(f, i) # n + 1
    <2> SUFFICES ASSUME NEW i \in 1 .. (n + 1), InBlock(f, i) = n + 1 PROVE FALSE
      OBVIOUS
    <2>1. InBlock(f, i) \in 0 .. (i - 1)
      BY InBlockRange
    <2> QED
      BY <2>1
  <1>2. Given(f, n + 1, n + 1, o) = {}
    BY <1>1 DEF Given
  <1> QED
    BY <1>2 DEF OptionIn

\* Which blocks name a host, after a line that gives none an option.
LEMMA HostedNext ==
    ASSUME NEW f, NEW g, NEW n \in Nat, Agree(f, g, n)
    PROVE  /\ \A j \in 1 .. n : (InBlock(g, n + 1) # j \/ Closes(g[n + 1])) =>
                (j \in HostedIn(g, n + 1) <=> j \in HostedIn(f, n))
           /\ n + 1 \notin HostedIn(g, n + 1)
           /\ HostedIn(g, n + 1) \subseteq 1 .. n /\ HostedIn(f, n) \subseteq 1 .. n
  <1>1. n + 1 \notin HostedIn(g, n + 1)
    BY NotYet, Defaults DEF HostedIn
  <1>2. ASSUME NEW j \in 1 .. n, InBlock(g, n + 1) # j \/ Closes(g[n + 1])
        PROVE  j \in HostedIn(g, n + 1) <=> j \in HostedIn(f, n)
    <2>1. OptionIn(g, n + 1, j, "hostname") = OptionIn(f, n, j, "hostname")
      BY <1>2, SameOption
    <2>2. f[j] = g[j] /\ j \in 1 .. (n + 1)
      BY DEF Agree
    <2> QED
      BY <2>1, <2>2 DEF HostedIn
  <1>3. 1 .. (n + 1) = (1 .. n) \cup {n + 1}
    OBVIOUS
  <1>4. HostedIn(g, n + 1) \subseteq 1 .. n /\ HostedIn(f, n) \subseteq 1 .. n
    BY <1>1, <1>3 DEF HostedIn
  <1> QED
    BY <1>1, <1>2, <1>4

\* The open block is the last that was opened.
LEMMA OpenIsLast ==
    ASSUME NEW f, NEW n \in Nat, NEW j \in 1 .. n, OpenIn(f, n + 1) = {j},
           NEW i \in 1 .. n, Opens(f[i]), i # j
    PROVE  i < j
  <1> SUFFICES ASSUME j < i PROVE FALSE
    OBVIOUS
  <1>1. (n + 1) - 1 = n
    OBVIOUS
  <1>2. \A k \in (j + 1) .. n : ~Closes(f[k])
    BY <1>1 DEF OpenIn
  <1>3. \A k \in (i + 1) .. n : k \in (j + 1) .. n
    OBVIOUS
  <1>4. i \in OpenIn(f, n + 1)
    BY <1>1, <1>2, <1>3 DEF OpenIn
  <1> QED
    BY <1>4

\* The end of a server's block.
LEMMA ServerClosed ==
    ASSUME NEW s, NEW f, NEW n \in Nat, Read(s, f, n), s.pc = "server"
    PROVE  /\ Fit(WithServer(s)) /\ WithServer(s).options = s.config.options
           /\ Listed(WithServer(s).auth_servers, f, n, HostedIn(f, n))
  <1>1. PICK j \in 1 .. n : /\ OpenIn(f, n + 1) = {j} /\ f[j].kw = "authserver" /\ f[j].arg # <<>>
                            /\ s.block.server = ServerIn(f, n, j)
    BY DEF Read, Within
  <1> DEFINE c == s.config
             H == HostedIn(f, n) \ {j}
  <1>2. Fit(c) /\ Listed(c.auth_servers, f, n, H)
    BY <1>1 DEF Read
  <1>3. s.block.server["hostname"] = OptionIn(f, n, j, "hostname")
    BY <1>1, Defaults DEF ServerIn
  <1>4. j \in HostedIn(f, n) <=> OptionIn(f, n, j, "hostname") # Unset
    BY <1>1 DEF HostedIn
  <1>5. CASE s.block.server["hostname"] = Unset
    <2>1. WithServer(s) = c /\ HostedIn(f, n) = H
      BY <1>3, <1>4, <1>5 DEF WithServer
    <2> QED
      BY <1>2, <2>1
  <1>6. CASE s.block.server["hostname"] # Unset
    <2> DEFINE x == ServerIn(f, n, j)
    <2>1. WithServer(s) = [c EXCEPT !.auth_servers = Append(c.auth_servers, x)]
      BY <1>1, <1>6 DEF WithServer, AppendServer
    <2>2. "options" \in Fields /\ "auth_servers" \in Fields
      BY DEF Fields
    <2>3. /\ DOMAIN WithServer(s) = Fields /\ WithServer(s).options = c.options
          /\ WithServer(s).auth_servers = Append(c.auth_servers, x)
      <3> HIDE DEF x, c
      <3> QED
        BY <1>2, <2>1, <2>2 DEF Fit
    <2>4. Fit(WithServer(s))
      BY <1>2, <2>3 DEF Fit
    <2>5. H \subseteq 1 .. n /\ HostedIn(f, n) = H \cup {j}
      BY <1>3, <1>4, <1>6 DEF HostedIn
    <2>6. \A i \in H : i < j
      <3> SUFFICES ASSUME NEW i \in H PROVE i < j
        OBVIOUS
      <3>1. i \in 1 .. n /\ Opens(f[i]) /\ i # j
        BY DEF HostedIn, Opens
      <3> QED
        BY <1>1, <3>1, OpenIsLast
    <2>7. Listed(Append(c.auth_servers, x), f, n, H \cup {j})
      <3> HIDE DEF H, c
      <3> QED
        BY <1>2, <2>5, <2>6, ListedAppend
    <2> QED
      BY <2>3, <2>4, <2>5, <2>7
  <1> QED
    BY <1>5, <1>6

\* The first n lines are recognised.
Recognises(f, n) == \A i \in 1 .. n : RecognisedIn(f, i) /\ GoodLine(f[i])

\* One more line that is recognised.
LEMMA RecognisesNext ==
    ASSUME NEW f, NEW g, NEW n \in Nat, Agree(f, g, n), Recognises(f, n),
           RecognisedIn(g, n + 1), GoodLine(g[n + 1])
    PROVE  Recognises(g, n + 1)
  <1>1. 1 .. (n + 1) = (1 .. n) \cup {n + 1}
    OBVIOUS
  <1>2. \A i \in 1 .. n : RecognisedIn(g, i) /\ GoodLine(g[i])
    BY SameRecognised DEF Recognises, Agree
  <1> QED
    BY <1>1, <1>2 DEF Recognises

\* A line of the top level.
LEMMA ReadTopLine ==
    ASSUME NEW s, NEW f, NEW g, NEW n \in Nat, NEW l, Read(s, f, n), s.pc = "read",
           Agree(f, g, n), g[n + 1] = l, GoodLine(l), TopLine(s, l).pc # "exited"
    PROVE  Read(TopLine(s, l), g, n + 1)
  <1> DEFINE t == TopLine(s, l)
             plain == l.kw \in PlainOptions \/ (l.kw \in StrictFlags /\ parse_boolean_value(Value(l)) # -1)
             skip == l.arg = <<>> \/ l.kw = "#"
  <1>0. /\ Fit(s.config) /\ Recognises(f, n) /\ TopsFit(s.config, f, n)
        /\ Listed(s.config.auth_servers, f, n, HostedIn(f, n) \ OpenIn(f, n + 1))
    BY DEF Read, Recognises
  <1>1. OpenIn(f, n + 1) = {} /\ s.block = NoBlock
    BY DEF Read, Within
  <1>2. OpenIn(g, n + 1) = {} /\ InBlock(g, n + 1) = 0
    <2>1. n + 1 \in 1 .. (n + 1)
      OBVIOUS
    <2>2. OpenIn(g, n + 1) = {}
      BY <1>1, <2>1, SameOpen
    <2> QED
      BY <2>2 DEF InBlock
  <1>3. OpenIn(g, n + 2) = IF Opens(l) THEN {n + 1} ELSE {}
    BY <1>2, OpenNext
  <1>4. \/ skip /\ t = s
        \/ ~skip /\ plain /\ t = State("read", SetByLine(s.config, l), s.block) /\ ~BreaksOff(l)
        \/ ~skip /\ ~plain /\ l.kw = "authserver" /\ t = State("server", s.config, s.block)
        \/ ~skip /\ ~plain /\ l.kw = "firewallruleset"
           /\ t = State("ruleset", s.config, [s.block EXCEPT !.ruleset = Value(l)])
    <2>1. t = IF skip THEN s ELSE
              IF plain THEN State(AfterOption(l), SetByLine(s.config, l), s.block) ELSE
              IF l.kw = "authserver" THEN State("server", s.config, s.block) ELSE
              IF l.kw = "firewallruleset"
              THEN State("ruleset", s.config, [s.block EXCEPT !.ruleset = Value(l)])
              ELSE State("exited", s.config, s.block)
      BY Zenon DEF TopLine
    <2>2. t.pc # "exited" /\ State("exited", s.config, s.block).pc = "exited"
      BY StateParts
    <2>3. BreaksOff(l) => State(AfterOption(l), SetByLine(s.config, l), s.block).pc = "exited"
      BY StateParts DEF AfterOption
    <2>4. ~BreaksOff(l) => AfterOption(l) = "read"
      BY DEF AfterOption
    <2> HIDE DEF t, plain, skip
    <2> QED
      BY <2>1, <2>2, <2>3, <2>4
  <1>5. /\ plain => ~Opens(l)
        /\ skip => ~Opens(l)
        /\ plain => l.kw \in PlainOptions \cup StrictFlags
        /\ l.kw \in {"authserver", "firewallruleset"} /\ ~skip => Opens(l)
    BY DEF Opens, PlainOptions, StringOptions, NumberOptions, StrictFlags
  <1>6. \A o \in TopOptions : o \notin {"#", "authserver", "firewallruleset"}
    BY DEF TopOptions, StringOptions, NumberOptions
  <1>7. RecognisedIn(g, n + 1)
    <2>1. skip \/ (plain /\ ~BreaksOff(l)) \/ Opens(l)
      BY <1>4, <1>5
    <2> QED
      BY <1>2, <2>1 DEF RecognisedIn
  <1> HIDE DEF plain, t
  <1>8. /\ Fit(t.config) /\ t.config.auth_servers = s.config.auth_servers
        /\ \A o \in TopOptions :
             t.config.options[o] = IF Takes(o, l) THEN Value(l) ELSE s.config.options[o]
    <2>0. \A o \in TopOptions : skip \/ l.kw \in {"authserver", "firewallruleset"} => ~Takes(o, l)
      BY <1>6 DEF Takes
    <2>1. CASE skip /\ t = s
      BY <1>0, <2>0, <2>1
    <2>2. CASE ~skip /\ plain /\ t = State("read", SetByLine(s.config, l), s.block)
      <3>1. t.config = SetByLine(s.config, l)
        BY <2>2, StateParts
      <3> QED
        BY <1>0, <1>5, <2>2, <3>1, LineEffects
    <2>3. CASE ~skip /\ l.kw \in {"authserver", "firewallruleset"} /\ t.config = s.config
      BY <1>0, <2>0, <2>3
    <2> QED
      BY <1>4, <2>1, <2>2, <2>3, StateParts
  <1>9. TopsFit(t.config, g, n + 1)
    <2>1. \A o \in TopOptions :
            IF InBlock(g, n + 1) = 0 /\ Takes(o, g[n + 1])
            THEN t.config.options[o] = Value(g[n + 1])
            ELSE t.config.options[o] = s.config.options[o]
      BY <1>2, <1>8
    <2> QED
      BY <1>0, <2>1, TopsNext
  <1>10. Listed(t.config.auth_servers, g, n + 1, HostedIn(g, n + 1) \ OpenIn(g, (n + 1) + 1))
    <2>1. HostedIn(g, n + 1) = HostedIn(f, n)
      BY <1>2, HostedNext
    <2>2. HostedIn(g, n + 1) \ OpenIn(g, n + 2) = HostedIn(f, n)
      <3>1. n + 1 \notin HostedIn(g, n + 1)
        BY HostedNext
      <3> QED
        BY <1>3, <2>1, <3>1
    <2>3. Listed(s.config.auth_servers, f, n, HostedIn(f, n))
      <3>1. HostedIn(f, n) \ OpenIn(f, n + 1) = HostedIn(f, n)
        BY <1>1
      <3> QED
        BY <1>0, <3>1
    <2>4. \A j \in HostedIn(f, n) : InBlock(g, n + 1) # j
      BY <1>2 DEF HostedIn
    <2>5. Listed(s.config.auth_servers, g, n + 1, HostedIn(f, n))
      BY <2>3, <2>4, ListedNext
    <2>6. (n + 1) + 1 = n + 2
      OBVIOUS
    <2> QED
      BY <1>8, <2>2, <2>5, <2>6
  <1>11. Within(t, g, n + 1)
    <2>0. (n + 1) + 1 = n + 2 /\ n + 1 \in 1 .. (n + 1)
      OBVIOUS
    <2>1. CASE skip /\ t = s
      BY <1>1, <1>3, <1>5, <2>0, <2>1 DEF Within
    <2>2. CASE plain /\ t = State("read", SetByLine(s.config, l), s.block)
      <3>1. t.pc = "read" /\ t.block = NoBlock
        BY <1>1, <2>2, StateParts
      <3> QED
        BY <1>3, <1>5, <2>0, <2>2, <3>1 DEF Within
    <2>3. CASE ~skip /\ l.kw = "authserver" /\ t = State("server", s.config, s.block)
      <3>1. t.pc = "server" /\ t.block = NoBlock
        BY <1>1, <2>3, StateParts
      <3>2. OpenIn(g, (n + 1) + 1) = {n + 1}
        BY <1>3, <1>5, <2>0, <2>3
      <3>3. ServerIn(g, n + 1, n + 1) = ServerDefaults
        BY NotYet, Defaults DEF ServerIn
      <3> QED
        BY <2>0, <2>3, <3>1, <3>2, <3>3, Defaults DEF Within
    <2>4. CASE ~skip /\ l.kw = "firewallruleset"
               /\ t = State("ruleset", s.config, [s.block EXCEPT !.ruleset = Value(l)])
      <3>1. t.pc = "ruleset"
        BY <2>4, StateParts
      <3>2. OpenIn(g, (n + 1) + 1) = {n + 1}
        BY <1>3, <1>5, <2>0, <2>4
      <3> QED
        BY <2>0, <2>4, <3>1, <3>2 DEF Within
    <2> QED
      BY <1>4, <2>1, <2>2, <2>3, <2>4
  <1>12. Recognises(g, n + 1)
    BY <1>0, <1>7, RecognisesNext
  <1>13. Read(t, g, n + 1)
    BY <1>8, <1>9, <1>10, <1>11, <1>12 DEF Read, Recognises
  <1> QED
    BY <1>13 DEF t

\* A line of a server's block.
LEMMA ReadServerBlock ==
    ASSUME NEW s, NEW f, NEW g, NEW n \in Nat, NEW l, Read(s, f, n), s.pc = "server",
           Agree(f, g, n), g[n + 1] = l, GoodLine(l), ServerLine(s, l).pc # "exited"
    PROVE  Read(ServerLine(s, l), g, n + 1)
  <1> DEFINE t == ServerLine(s, l)
             H == HostedIn(f, n)
  <1>0. /\ Fit(s.config) /\ Recognises(f, n) /\ TopsFit(s.config, f, n)
        /\ Listed(s.config.auth_servers, f, n, HostedIn(f, n) \ OpenIn(f, n + 1))
    BY DEF Read, Recognises
  <1>1. PICK j \in 1 .. n : /\ OpenIn(f, n + 1) = {j} /\ f[j].kw = "authserver" /\ f[j].arg # <<>>
                            /\ DOMAIN s.block = {"ruleset", "server"}
                            /\ s.block.server = ServerIn(f, n, j)
    BY DEF Read, Within
  <1> DEFINE given == \/ l.kw \in ServerStrings \cup ServerNumbers
                      \/ l.kw = "sslavailable" /\ Flag(l) # -1
             skip == Empty(l) \/ l.kw = "#"
  <1>2. \/ Closes(l) /\ t = State("read", WithServer(s), NoBlock)
        \/ ~Closes(l) /\ skip /\ t = s
        \/ ~Closes(l) /\ ~skip /\ given /\ t = State("server", s.config, SetInServer(s.block, l))
    <2>1. t = IF Closes(l) THEN State("read", WithServer(s), NoBlock) ELSE
              IF skip THEN s ELSE
              IF given THEN State("server", s.config, SetInServer(s.block, l))
              ELSE State("exited", s.config, s.block)
      BY Zenon DEF ServerLine
    <2>2. t.pc # "exited" /\ State("exited", s.config, s.block).pc = "exited"
      BY StateParts
    <2> HIDE DEF t, given, skip
    <2> QED
      BY <2>1, <2>2
  <1>3. ~Opens(l)
    <2>1. skip => ~Opens(l)
      BY DEF Empty, Opens
    <2>2. given => ~Opens(l)
      BY DEF Opens, ServerStrings, ServerNumbers
    <2>3. Closes(l) => ~Opens(l)
      BY DEF GoodLine
    <2> QED
      BY <1>2, <2>1, <2>2, <2>3
  <1>4. InBlock(g, n + 1) = j /\ j # 0
    <2>1. n + 1 \in 1 .. (n + 1)
      OBVIOUS
    <2>2. OpenIn(g, n + 1) = {j}
      BY <1>1, <2>1, SameOpen
    <2>3. LastOf({j}) = j
      BY LastSingle
    <2> QED
      BY <1>3, <2>2, <2>3 DEF InBlock
  <1>5. OpenIn(g, (n + 1) + 1) = IF Closes(l) THEN {} ELSE {j}
    <2>1. n + 1 \in 1 .. (n + 1) /\ (n + 1) + 1 = n + 2
      OBVIOUS
    <2>2. OpenIn(g, n + 1) = {j}
      BY <1>1, <2>1, SameOpen
    <2> QED
      BY <1>3, <2>1, <2>2, OpenNext
  <1>6. g[j] = f[j]
    BY DEF Agree
  <1>7. Recognises(g, n + 1)
    <2>1. RecognisedIn(g, n + 1)
      BY <1>1, <1>2, <1>4, <1>6 DEF RecognisedIn
    <2> QED
      BY <1>0, <2>1, RecognisesNext
  <1> HIDE DEF t, given, skip
  <1>8. \A d : d.options = s.config.options => TopsFit(d, g, n + 1)
    BY <1>0, <1>4, TopsNext
  <1>9. CASE Closes(l)
    <2>1. t.pc = "read" /\ t.config = WithServer(s) /\ t.block = NoBlock
      BY <1>2, <1>9, StateParts
    <2>2. /\ Fit(t.config) /\ t.config.options = s.config.options
          /\ Listed(t.config.auth_servers, f, n, HostedIn(f, n))
      BY <2>1, ServerClosed
    <2>3. HostedIn(g, n + 1) = HostedIn(f, n)
      BY <1>9, HostedNext
    <2>4. Listed(t.config.auth_servers, g, n + 1, HostedIn(f, n))
      BY <1>9, <2>2, ListedNext
    <2>5. HostedIn(g, n + 1) \ OpenIn(g, (n + 1) + 1) = HostedIn(f, n)
      BY <1>5, <1>9, <2>3
    <2>6. Within(t, g, n + 1)
      BY <1>5, <1>9, <2>1 DEF Within
    <2>7. Read(t, g, n + 1)
      BY <1>7, <1>8, <2>2, <2>4, <2>5, <2>6 DEF Read, Recognises
    <2> QED
      BY <2>7 DEF t
  <1>10. CASE ~Closes(l)
    <2>1. t.pc = "server" /\ t.config = s.config /\ j \in 1 .. (n + 1)
      BY <1>2, <1>10, StateParts
    <2>2. HostedIn(g, n + 1) \ {j} = HostedIn(f, n) \ {j}
      BY <1>4, HostedNext
    <2>3. Listed(s.config.auth_servers, f, n, HostedIn(f, n) \ {j})
      BY <1>0, <1>1
    <2>4. Listed(t.config.auth_servers, g, n + 1, HostedIn(g, n + 1) \ OpenIn(g, (n + 1) + 1))
      <3>1. \A i \in HostedIn(f, n) \ {j} : InBlock(g, n + 1) # i
        BY <1>4
      <3>2. Listed(s.config.auth_servers, g, n + 1, HostedIn(f, n) \ {j})
        BY <2>3, <3>1, ListedNext
      <3> QED
        BY <1>5, <1>10, <2>1, <2>2, <3>2
    <2>5. DOMAIN t.block = {"ruleset", "server"} /\ t.block.server = ServerIn(g, n + 1, j)
      <3>1. ASSUME NEW o, l.kw # o PROVE OptionIn(g, n + 1, j, o) = OptionIn(f, n, j, o)
        BY <3>1, SameOption
      <3>2. CASE skip /\ t = s
        <4>1. \A o \in DOMAIN ServerDefaults : l.kw # o
          BY <3>2, Defaults DEF skip, Empty, Nothing, ServerStrings, ServerNumbers
        <4>2. ServerIn(g, n + 1, j) = ServerIn(f, n, j)
          BY <3>1, <4>1 DEF ServerIn
        <4> QED
          BY <1>1, <3>2, <4>2
      <3>3. CASE given /\ t = State("server", s.config, SetInServer(s.block, l))
        <4> DEFINE v == ServerValue(l)
        <4>1. t.block = SetInServer(s.block, l)
          BY <3>3, StateParts
        <4>2. SetInServer(s.block, l) = [s.block EXCEPT !.server[l.kw] = v]
          BY DEF SetInServer
        <4>3. OptionIn(g, n + 1, j, l.kw) = v
          BY <1>4, <1>10, NewOption
        <4> HIDE DEF v
        <4>4. /\ DOMAIN t.block = {"ruleset", "server"}
              /\ t.block.server = [s.block.server EXCEPT ![l.kw] = v]
          BY <1>1, <4>1, <4>2
        <4>5. s.block.server = [o \in DOMAIN ServerDefaults |-> OptionIn(f, n, j, o)]
          BY <1>1 DEF ServerIn
        <4>6. t.block.server = [o \in DOMAIN ServerDefaults |-> IF l.kw = o THEN v ELSE OptionIn(f, n, j, o)]
          BY <4>4, <4>5
        <4>7. \A o : OptionIn(g, n + 1, j, o) = IF l.kw = o THEN v ELSE OptionIn(f, n, j, o)
          BY <3>1, <4>3
        <4> QED
          BY <4>4, <4>6, <4>7 DEF ServerIn
      <3> QED
        BY <1>2, <1>10, <3>2, <3>3
    <2>6. Within(t, g, n + 1)
      BY <1>1, <1>5, <1>6, <1>10, <2>1, <2>5 DEF Within
    <2>7. Read(t, g, n + 1)
      BY <1>0, <1>7, <1>8, <2>1, <2>4, <2>6 DEF Read, Recognises
    <2> QED
      BY <2>7 DEF t
  <1> QED
    BY <1>9, <1>10

\* A line of a rule set.
LEMMA ReadRulesBlock ==
    ASSUME NEW s, NEW f, NEW g, NEW n \in Nat, NEW l, Read(s, f, n), s.pc = "ruleset",
           Agree(f, g, n), g[n + 1] = l, GoodLine(l), RuleLine(s, l).pc # "exited"
    PROVE  Read(RuleLine(s, l), g, n + 1)
  <1> DEFINE t == RuleLine(s, l)
             skip == Empty(l) \/ l.kw = "#"
             r == [s.config EXCEPT !.rulesets = _parse_firewall_rule(@, s.block.ruleset, l.arg)]
  <1>0. /\ Fit(s.config) /\ Recognises(f, n) /\ TopsFit(s.config, f, n)
        /\ Listed(s.config.auth_servers, f, n, HostedIn(f, n) \ OpenIn(f, n + 1))
    BY DEF Read, Recognises
  <1>1. PICK j \in 1 .. n : OpenIn(f, n + 1) = {j} /\ f[j].kw = "firewallruleset"
    BY DEF Read, Within
  <1>2. \/ Closes(l) /\ t = State("read", s.config, NoBlock)
        \/ ~Closes(l) /\ skip /\ t = s
        \/ ~Closes(l) /\ ~skip /\ l.kw = "firewallrule" /\ t = State("ruleset", r, s.block)
    <2>1. t = IF Closes(l) THEN State("read", s.config, NoBlock) ELSE
              IF skip THEN s ELSE
              IF l.kw = "firewallrule" THEN State("ruleset", r, s.block)
              ELSE State("exited", s.config, s.block)
      BY Zenon DEF RuleLine
    <2>2. t.pc # "exited" /\ State("exited", s.config, s.block).pc = "exited"
      BY StateParts
    <2> HIDE DEF t, r, skip
    <2> QED
      BY <2>1, <2>2
  <1>3. ~Opens(l)
    <2>1. skip => ~Opens(l)
      BY DEF Empty, Opens
    <2>2. Closes(l) => ~Opens(l)
      BY DEF GoodLine
    <2>3. l.kw = "firewallrule" => ~Opens(l)
      BY DEF Opens
    <2> QED
      BY <1>2, <2>1, <2>2, <2>3
  <1>4. InBlock(g, n + 1) = j /\ j # 0
    <2>1. n + 1 \in 1 .. (n + 1)
      OBVIOUS
    <2>2. OpenIn(g, n + 1) = {j}
      BY <1>1, <2>1, SameOpen
    <2>3. LastOf({j}) = j
      BY LastSingle
    <2> QED
      BY <1>3, <2>2, <2>3 DEF InBlock
  <1>5. OpenIn(g, (n + 1) + 1) = IF Closes(l) THEN {} ELSE {j}
    <2>1. n + 1 \in 1 .. (n + 1) /\ (n + 1) + 1 = n + 2
      OBVIOUS
    <2>2. OpenIn(g, n + 1) = {j}
      BY <1>1, <2>1, SameOpen
    <2> QED
      BY <1>3, <2>1, <2>2, OpenNext
  <1>6. g[j] = f[j]
    BY DEF Agree
  <1>7. Recognises(g, n + 1)
    <2>1. RecognisedIn(g, n + 1)
      BY <1>1, <1>2, <1>4, <1>6 DEF RecognisedIn
    <2> QED
      BY <1>0, <2>1, RecognisesNext
  <1>8. Fit(t.config) /\ t.config.options = s.config.options
        /\ t.config.auth_servers = s.config.auth_servers
    <2>1. Fit(r) /\ r.options = s.config.options /\ r.auth_servers = s.config.auth_servers
      <3>1. "rulesets" \in Fields \ {"options", "auth_servers"}
        BY DEF Fields
      <3>2. r = Put(s.config, "rulesets", _parse_firewall_rule(s.config.rulesets, s.block.ruleset, l.arg))
        BY DEF Put
      <3> QED
        BY <1>0, <3>1, <3>2, PutFit
    <2> HIDE DEF r, t, skip
    <2>2. t.config = s.config \/ t.config = r
      BY <1>2, StateParts
    <2> QED
      BY <1>0, <2>1, <2>2
  <1> HIDE DEF t, r, skip
  <1>9. TopsFit(t.config, g, n + 1)
    BY <1>0, <1>4, <1>8, TopsNext
  <1>10. Listed(t.config.auth_servers, g, n + 1, HostedIn(g, n + 1) \ OpenIn(g, (n + 1) + 1))
    <2>1. j \notin HostedIn(f, n) /\ j \notin HostedIn(g, n + 1)
      BY <1>1, <1>6 DEF HostedIn
    <2>2. HostedIn(g, n + 1) = HostedIn(f, n)
      BY <1>4, <2>1, HostedNext
    <2>3. HostedIn(f, n) \ OpenIn(f, n + 1) = HostedIn(f, n)
      BY <1>1, <2>1
    <2>4. HostedIn(g, n + 1) \ OpenIn(g, (n + 1) + 1) = HostedIn(f, n)
      BY <1>5, <2>1, <2>2
    <2>5. Listed(s.config.auth_servers, g, n + 1, HostedIn(f, n))
      <3>1. Listed(s.config.auth_servers, f, n, HostedIn(f, n))
        BY <1>0, <2>3
      <3> QED
        BY <1>4, <2>1, <3>1, ListedNext
    <2> QED
      BY <1>8, <2>4, <2>5
  <1>11. Within(t, g, n + 1)
    <2>1. CASE Closes(l)
      <3>1. t.pc = "read" /\ t.block = NoBlock
        BY <1>2, <2>1, StateParts
      <3> QED
        BY <1>5, <2>1, <3>1 DEF Within
    <2>2. CASE ~Closes(l)
      <3>1. t.pc = "ruleset" /\ j \in 1 .. (n + 1)
        BY <1>2, <2>2, StateParts
      <3> QED
        BY <1>1, <1>5, <1>6, <2>2, <3>1 DEF Within
    <2> QED
      BY <2>1, <2>2
  <1>12. Read(t, g, n + 1)
    BY <1>7, <1>8, <1>9, <1>10, <1>11 DEF Read, Recognises
  <1> QED
    BY <1>12 DEF t

\* Any line: what was read still is what the file says.
LEMMA ReadNextLine ==
    ASSUME NEW s, NEW f, NEW g, NEW n \in Nat, NEW l, Read(s, f, n),
           Agree(f, g, n), g[n + 1] = l, GoodLine(l), Taken(s, l).pc # "exited"
    PROVE  Read(Taken(s, l), g, n + 1)
  <1>1. s.pc \in Reading
    BY DEF Read, Within, Reading
  <1>2. CASE s.pc = "read"
    <2>1. Taken(s, l) = TopLine(s, l)
      BY <1>2 DEF Taken
    <2> QED
      BY <1>2, <2>1, ReadTopLine
  <1>3. CASE s.pc = "server"
    <2>1. Taken(s, l) = ServerLine(s, l)
      BY <1>3 DEF Taken
    <2> QED
      BY <1>3, <2>1, ReadServerBlock
  <1>4. CASE s.pc = "ruleset"
    <2>1. Taken(s, l) = RuleLine(s, l)
      BY <1>4 DEF Taken
    <2> QED
      BY <1>4, <2>1, ReadRulesBlock
  <1> QED
    BY <1>1, <1>2, <1>3, <1>4 DEF Reading

\* The whole file, as a configuration holds it.
Holds(c, f, n) ==
    /\ Fit(c) /\ Recognises(f, n) /\ TopsFit(c, f, n)
    /\ Listed(c.auth_servers, f, n, HostedIn(f, n))

\* What config_read leaves at the end of the file.
LEMMA ReadToTheEnd ==
    ASSUME NEW s, NEW f, NEW n \in Nat, Read(s, f, n)
    PROVE  Holds(Ended(s), f, n)
  <1>0. /\ Fit(s.config) /\ Recognises(f, n) /\ TopsFit(s.config, f, n)
        /\ Listed(s.config.auth_servers, f, n, HostedIn(f, n) \ OpenIn(f, n + 1))
        /\ Within(s, f, n)
    BY DEF Read, Recognises
  <1>1. CASE s.pc = "server"
    <2>1. /\ Fit(Ended(s)) /\ Ended(s).options = s.config.options
          /\ Listed(Ended(s).auth_servers, f, n, HostedIn(f, n))
      BY <1>1, ServerClosed DEF Ended
    <2>2. TopsFit(Ended(s), f, n)
      BY <1>0, <2>1 DEF TopsFit
    <2> QED
      BY <1>0, <2>1, <2>2 DEF Holds
  <1>2. CASE s.pc # "server"
    <2>1. Ended(s) = s.config
      BY <1>2 DEF Ended
    <2>2. HostedIn(f, n) \ OpenIn(f, n + 1) = HostedIn(f, n)
      BY <1>0, <1>2 DEF Within, HostedIn
    <2> QED
      BY <1>0, <2>1, <2>2 DEF Holds
  <1> QED
    BY <1>1, <1>2

\* config_validate leaves what the properties are about.
LEMMA ValidationKeeps ==
    ASSUME NEW c, NEW f, NEW n, Holds(c, f, n)
    PROVE  /\ Holds(WithPopular(c), f, n)
           /\ WithPopular(c).options = c.options /\ WithPopular(c).auth_servers = c.auth_servers
  <1>1. CASE WithPopular(c) = c
    BY <1>1
  <1>2. CASE WithPopular(c) = Put(c, "popular_servers", <<"www.yahoo.com", "www.google.com">>)
    <2>1. "popular_servers" \in Fields \ {"options", "auth_servers"}
      BY DEF Fields
    <2>2. /\ Fit(WithPopular(c)) /\ WithPopular(c).options = c.options
          /\ WithPopular(c).auth_servers = c.auth_servers
      BY <1>2, <2>1, PutFit DEF Holds
    <2> QED
      BY <2>2 DEF Holds, TopsFit
  <1> QED
    BY <1>1, <1>2 DEF WithPopular, Put

\* The command line sets none of the mandatory options and adds no server.
LEMMA OptionKeeps ==
    ASSUME NEW c, Fit(c), NEW o, o.c \in TakesArgument \cup {"f", "s"}
    PROVE  /\ Fit(SetByOption(c, o)) /\ SetByOption(c, o).auth_servers = c.auth_servers
           /\ \A x \in Mandatories : SetByOption(c, o).options[x] = c.options[x]
  <1>0. /\ "options" \in Fields /\ "auth_servers" \in Fields
        /\ {"log_syslog", "restart_orig_pid"} \subseteq Fields \ {"options", "auth_servers"}
        /\ \A x \in {"c", "d", "i", "a", "p"} : Field[x] \in Fields \ {"options", "auth_servers"}
    BY DEF Fields, Field
  <1>1. o.c \in {"c", "w", "d", "x", "i", "a", "p", "f", "s"}
    BY DEF TakesArgument
  <1>2. CASE o.c = "w"
    <2> DEFINE d == SetByOption(c, o)
               v == o.optarg
    <2>1. d = [c EXCEPT !.options["wdctlsocket"] = v]
      BY <1>2 DEF SetByOption
    <2> HIDE DEF v
    <2>2. d = Put(c, "options", Put(c.options, "wdctlsocket", v))
      BY <2>1 DEF Put
    <2>3. "wdctlsocket" \in TopOptions
      BY DEF StringOptions, TopOptions
    <2> HIDE DEF d
    <2>4. /\ Fit(d) /\ d.auth_servers = c.auth_servers
          /\ \A x \in TopOptions : d.options[x] = IF "wdctlsocket" = x THEN v ELSE c.options[x]
      BY <2>2, <2>3, PutOptions
    <2>5. \A x \in Mandatories : x \in TopOptions /\ "wdctlsocket" # x
      BY DEF Mandatories, StringOptions, TopOptions
    <2> QED
      BY <2>4, <2>5 DEF d
  <1>3. CASE o.c = "f"
    <2> DEFINE d == [c EXCEPT !.daemon = 0, !.log_stderr = 1]
    <2>1. SetByOption(c, o) = d
      BY <1>3 DEF SetByOption
    <2>2. DOMAIN d = Fields /\ d.options = c.options /\ d.auth_servers = c.auth_servers
      BY <1>0 DEF Fit
    <2> HIDE DEF d
    <2> QED
      BY <2>1, <2>2 DEF Fit
  <1>4. CASE o.c = "s"
    <2>1. SetByOption(c, o) = Put(c, "log_syslog", 1)
      BY <1>4 DEF SetByOption, Put
    <2> QED
      BY <1>0, <2>1, PutFit
  <1>5. CASE o.c = "x"
    <2>1. SetByOption(c, o) = Put(c, "restart_orig_pid", 1)
      BY <1>5 DEF SetByOption, Put
    <2> QED
      BY <1>0, <2>1, PutFit
  <1>6. CASE o.c \in {"c", "d", "i", "a", "p"}
    <2>1. SetByOption(c, o) = Put(c, Field[o.c], o.optarg)
      BY <1>6 DEF SetByOption, Put
    <2> QED
      BY <1>0, <1>6, <2>1, PutFit
  <1> QED
    BY <1>1, <1>2, <1>3, <1>4, <1>5, <1>6

\* Neither does config_init.
LEMMA InitialFits ==
    /\ Fit(config_init) /\ config_init.auth_servers = <<>>
    /\ \A o \in Mandatories : config_init.options[o] = NULL
  <1>1. DOMAIN config_init = Fields /\ config_init.auth_servers = <<>>
    BY DEF config_init, Fields
  <1>2. config_init.options = [o \in StringOptions \cup NumberOptions |-> DefaultOf(o)]
    BY DEF config_init
  <1>3. \A o \in Mandatories : o \in StringOptions /\ DefaultOf(o) = NULL
    BY DEF Mandatories, StringOptions, DefaultOf
  <1> QED
    BY <1>1, <1>2, <1>3 DEF Fit

-----------------------------------------------------------------------------

\* What has been read is what the file says.
FileInv ==
    /\ \A l \in text : GoodLine(l)
    /\ pc = "commandline" => /\ Fit(config) /\ config.auth_servers = <<>>
                             /\ \A o \in Mandatories : config.options[o] = NULL
    /\ pc \in Reading => Read(Here, file, at)
    /\ pc \in {"eof", "running"} => Holds(config, file, at)
    /\ pc = "running" => HasPassword(config) /\ Complete(config)

\* The invariant holds at the start.
LEMMA FileInvInit == Init => FileInv
  <1> SUFFICES ASSUME Init PROVE FileInv
    OBVIOUS
  <1>1. \A l \in text : GoodLine(l)
    BY StartsAssumption DEF Init, GoodLine
  <1> QED
    BY <1>1, InitialFits DEF Init, FileInv, Reading

\* Before the first line.
LEMMA NothingRead ==
    ASSUME NEW c, NEW f, Fit(c), c.auth_servers = <<>>, \A o \in Mandatories : c.options[o] = NULL
    PROVE  Read(State("read", c, NoBlock), f, 0)
  <1> DEFINE s == State("read", c, NoBlock)
  <1>1. s.pc = "read" /\ s.config = c /\ s.block = NoBlock
    BY StateParts
  <1> HIDE DEF s
  <1>2. OpenIn(f, 0 + 1) = {}
    BY DEF OpenIn
  <1>3. HostedIn(f, 0) = {} /\ \A o : TopIn(f, 0, o) = {}
    BY DEF HostedIn, TopIn
  <1>4. TopsFit(c, f, 0)
    BY <1>3 DEF TopsFit
  <1>5. Listed(<<>>, f, 0, {})
    <2>1. <<>> \in Seq({}) /\ Len(<<>>) = 0 /\ Cardinality({}) = 0
      BY FS_EmptySet
    <2> QED
      BY <2>1 DEF Listed
  <1>6. HostedIn(f, 0) \ OpenIn(f, 0 + 1) = {}
    BY <1>3
  <1>7. Within(s, f, 0)
    BY <1>1, <1>2 DEF Within
  <1>8. Read(s, f, 0)
    <2>1. Listed(s.config.auth_servers, f, 0, HostedIn(f, 0) \ OpenIn(f, 0 + 1))
      BY <1>1, <1>5, <1>6
    <2>2. \A i \in 1 .. 0 : FALSE
      OBVIOUS
    <2> QED
      BY <1>1, <1>4, <1>7, <2>1, <2>2 DEF Read
  <1> QED
    BY <1>8 DEF s

\* Every step keeps it; what a step reads is a line of the text.
LEMMA FileInvNext == RestartInv /\ FileInv /\ Next => FileInv'
  <1> SUFFICES ASSUME RestartInv, FileInv, Next PROVE FileInv'
    OBVIOUS
  <1>0. SequencesInv
    BY DEF RestartInv
  <1>1. CASE ParseOption
    <2>1. pc = "commandline" /\ UNCHANGED text
      BY <1>1 DEF ParseOption
    <2>2. CASE pc' = "exited"
      BY <2>1, <2>2 DEF FileInv, Reading
    <2>3. CASE /\ Head(left).c \in TakesArgument \cup {"f", "s"}
               /\ config' = SetByOption(config, Head(left)) /\ UNCHANGED pc
      <3>1. Fit(config)
        BY <2>1 DEF FileInv
      <3> DEFINE o == Head(left)
      <3>2. o.c \in TakesArgument \cup {"f", "s"} /\ config' = SetByOption(config, o)
        BY <2>3
      <3> HIDE DEF o
      <3>3. /\ Fit(config') /\ config'.auth_servers = config.auth_servers
            /\ \A x \in Mandatories : config'.options[x] = config.options[x]
        BY <3>1, <3>2, OptionKeeps
      <3> QED
        BY <2>1, <2>3, <3>3 DEF FileInv, Reading
    <2> QED
      BY <1>1, <2>2, <2>3 DEF ParseOption
  <1>2. CASE CommandLineEnds
    <2>1. pc = "commandline" /\ pc' = "read" /\ UNCHANGED <<text, file, at, config, block>>
      BY <1>2 DEF CommandLineEnds
    <2>2. at' = 0 /\ Here' = State("read", config, NoBlock)
      BY <1>0, <2>1 DEF SequencesInv, Here
    <2>3. Read(State("read", config, NoBlock), file', 0)
      BY <2>1, NothingRead DEF FileInv
    <2> QED
      BY <2>1, <2>2, <2>3 DEF FileInv
  <1>3. CASE ReadsLine
    <2>1. PICK l \in text : /\ Reads(l)
                            /\ pc \in Reading
                            /\ Here' = Taken(Here, l)
                            /\ UNCHANGED text
      BY <1>3 DEF ReadsLine
    <2>2. at \in Nat /\ file \in Seq(LineType) /\ at \in 0 .. Len(file) /\ l \in LineType
      BY <1>0, <2>1 DEF SequencesInv
    <2>3. at' = at + 1 /\ file'[at + 1] = l /\ Agree(file, file', at)
      <3>1. CASE generation = 1
        <4>1. at' = at + 1 /\ file' = Append(file, l) /\ at = Len(file)
          BY <1>0, <2>1, <3>1 DEF Reads, SequencesInv
        <4> QED
          BY <2>2, <4>1 DEF Agree
      <3>2. CASE generation = 2
        BY <2>1, <3>2 DEF Reads, Agree
      <3> QED
        BY <1>0, <3>1, <3>2 DEF SequencesInv
    <2>4. Here'.pc = pc'
      BY StateParts DEF Here
    <2>5. pc' # "exited" => Read(Here', file', at')
      <3>1. Read(Here, file, at) /\ GoodLine(l)
        BY <2>1 DEF FileInv
      <3> DEFINE h == Here
                 t == Here'
                 g == file'
      <3>2. Read(h, file, at) /\ t = Taken(h, l) /\ g[at + 1] = l /\ Agree(file, g, at)
        BY <2>1, <2>3, <3>1
      <3> HIDE DEF h, t, g
      <3>3. Taken(h, l).pc # "exited" => Read(Taken(h, l), g, at + 1)
        BY <2>2, <3>1, <3>2, ReadNextLine
      <3> QED
        BY <2>3, <2>4, <3>2, <3>3 DEF t, g
    <2>6. pc' \in Reading \cup {"exited"}
      <3>1. pc' = "exited" \/ Here'.pc \in Reading
        BY <2>5 DEF Read, Within, Reading
      <3> QED
        BY <2>4, <3>1
    <2> QED
      BY <2>1, <2>5, <2>6 DEF FileInv, Reading
  <1>4. CASE BlockEnds
    <2>1. /\ pc \in Reading /\ pc' = "eof" /\ config' = Ended(Here)
          /\ UNCHANGED <<text, file, at>>
      BY <1>4 DEF BlockEnds, Reading
    <2>2. Read(Here, file, at) /\ at \in Nat
      BY <1>0, <2>1 DEF FileInv, SequencesInv
    <2>3. Holds(config', file, at)
      BY <2>1, <2>2, ReadToTheEnd
    <2> QED
      BY <2>1, <2>3 DEF FileInv, Reading
  <1>5. CASE FileEnds
    <2>1. pc \in {"eof", "read"} /\ UNCHANGED <<text, file, at>>
      BY <1>5 DEF FileEnds
    <2>2. Holds(config, file, at)
      <3>1. CASE pc = "eof"
        BY <3>1 DEF FileInv
      <3>2. CASE pc = "read"
        <4>1. Ended(Here) = config
          BY <3>2, StateParts DEF Ended, Here
        <4>2. Read(Here, file, at) /\ at \in Nat
          BY <1>0, <3>2 DEF FileInv, SequencesInv, Reading
        <4> QED
          BY <4>1, <4>2, ReadToTheEnd
      <3> QED
        BY <2>1, <3>1, <3>2
    <2>3. CASE pc' = "exited"
      BY <2>1, <2>3 DEF FileInv, Reading
    <2>4. CASE /\ HasPassword(config) /\ Complete(config)
               /\ config' = WithPopular(config) /\ pc' = "running"
      <3>1. /\ Holds(config', file, at) /\ config'.options = config.options
            /\ config'.auth_servers = config.auth_servers
        BY <2>2, <2>4, ValidationKeeps
      <3>2. HasPassword(config') /\ Complete(config')
        BY <2>4, <3>1 DEF HasPassword, Complete
      <3> QED
        BY <2>1, <2>4, <3>1, <3>2 DEF FileInv, Reading
    <2> QED
      BY <1>5, <2>3, <2>4 DEF FileEnds
  <1>6. CASE Reexecute
    BY <1>6, InitialFits DEF Reexecute, FileInv, Reading
  <1> QED
    BY <1>1, <1>2, <1>3, <1>4, <1>5, <1>6, Steps

\* What the properties say of the file, in the terms of this module.
LEMMA AsInFile ==
    /\ \A i \in Lines : BlockOf(i) = InBlock(file, i) /\ (RecognisedIn(file, i) => Recognised(i))
    /\ \A kw : kw \notin NumberOptions => TopLines(kw) = TopIn(file, at, kw)
    /\ \A o : Effective(o) = TopIn(file, at, o)
    /\ \A j, o : ServerOption(j, o) = OptionIn(file, at, j, o)
    /\ \A j : Server(j) = ServerIn(file, at, j)
    /\ Hosted = HostedIn(file, at)
  <1>1. \A i : BlockOf(i) = InBlock(file, i)
    BY DEF BlockOf, InBlock, OpenIn, LastOf
  <1>2. \A i : RecognisedIn(file, i) => Recognised(i)
    BY <1>1 DEF RecognisedIn, Recognised
  <1>3. \A o : Effective(o) = TopIn(file, at, o)
    BY <1>1 DEF Effective, TopLines, TopIn, Takes, Lines
  <1>7. \A kw : kw \notin NumberOptions => TopLines(kw) = TopIn(file, at, kw)
    BY <1>1 DEF TopLines, TopIn, Takes, Lines
  <1>4. ASSUME NEW j, NEW o PROVE ServerOption(j, o) = OptionIn(file, at, j, o)
    <2> DEFINE G == {i \in Lines : BlockOf(i) = j /\ file[i].kw = o /\ ~Closes(file[i])}
               C(T) == IF T = {} THEN ServerDefaults[o] ELSE ServerValue(file[LastOf(T)])
    <2>1. G = Given(file, at, j, o)
      BY <1>1 DEF Given, Lines
    <2>2. ServerOption(j, o) = C(G)
      BY Zenon DEF ServerOption
    <2>3. OptionIn(file, at, j, o) = C(Given(file, at, j, o))
      BY Zenon DEF OptionIn
    <2> HIDE DEF C, G
    <2> QED
      BY <2>1, <2>2, <2>3
  <1>5. \A j : Server(j) = ServerIn(file, at, j)
    BY <1>4 DEF Server, ServerIn
  <1>6. Hosted = HostedIn(file, at)
    BY <1>4 DEF Hosted, HostedIn, Lines
  <1> QED
    BY <1>1, <1>2, <1>3, <1>4, <1>5, <1>6, <1>7

\* The invariant gives the servers,
LEMMA FileInvServers == RestartInv /\ FileInv => ServersAsWritten
  <1> SUFFICES ASSUME RestartInv, FileInv, Settled PROVE ServersAsWritten!2
    BY DEF ServersAsWritten
  <1>1. Listed(config.auth_servers, file, at, HostedIn(file, at))
    <2>1. CASE pc = "read"
      <3>1. Ended(Here) = config
        BY <2>1, StateParts DEF Ended, Here
      <3>2. Read(Here, file, at) /\ at \in Nat
        BY <2>1 DEF FileInv, RestartInv, SequencesInv, Reading
      <3> QED
        BY <3>1, <3>2, ReadToTheEnd DEF Holds
    <2>2. CASE pc \in {"eof", "running"}
      BY <2>2 DEF FileInv, Holds
    <2> QED
      BY <2>1, <2>2 DEF Settled
  <1> QED
    BY <1>1, AsInFile DEF Listed

\* and what a start takes.
LEMMA FileInvComplete == RestartInv /\ FileInv => StartsComplete
  <1> SUFFICES ASSUME RestartInv, FileInv, pc = "running" PROVE StartsComplete!2
    BY DEF StartsComplete
  <1>1. /\ Recognises(file, at) /\ TopsFit(config, file, at)
        /\ Listed(config.auth_servers, file, at, HostedIn(file, at))
        /\ HasPassword(config) /\ Complete(config)
    BY DEF FileInv, Holds
  <1>2. \A i \in Lines : Recognised(i)
    BY <1>1, AsInFile DEF Recognises, Lines
  <1>3. \A o \in TopOptions : Effective(o) # {} => config.options[o] = Value(file[LastOf(Effective(o))])
    BY <1>1, AsInFile DEF TopsFit
  <1>a. \A o \in Mandatories \cup {"httpdusername"} : TopLines(o) = Effective(o) /\ o \in TopOptions
    BY DEF Mandatories, Effective, TopOptions, StringOptions, NumberOptions
  <1>b. \A o \in Mandatories : Effective(o) = {} => config.options[o] = NULL
    BY <1>1, AsInFile DEF TopsFit
  <1>4. TopLines("gatewayinterface") # {}
    BY <1>1, <1>a, <1>b DEF Mandatories, Complete
  <1>5. TopLines("httpdusername") # {} => TopLines("httpdpassword") # {}
    <2> SUFFICES ASSUME TopLines("httpdusername") # {} PROVE TopLines("httpdpassword") # {}
      OBVIOUS
    <2> DEFINE T == TopLines("httpdusername")
    <2>1. T \subseteq 1 .. at /\ at \in Nat
      BY DEF TopLines, Lines, RestartInv, SequencesInv
    <2>2. LastOf(T) \in 1 .. at
      BY <2>1, LastExists
    <2>3. Value(file[LastOf(T)]) # NULL
      BY <1>1, <2>2, ValueIsWord DEF Recognises
    <2>4. config.options["httpdusername"] # NULL
      BY <1>3, <1>a, <2>3
    <2>5. config.options["httpdpassword"] # NULL
      BY <1>1, <2>4 DEF HasPassword
    <2> QED
      BY <1>a, <1>b, <2>5 DEF Mandatories
  <1>6. \E i \in TopLines("authserver") : ServerOption(i, "hostname") # Unset
    <2>1. PICK S : config.auth_servers \in Seq(S)
      BY <1>1 DEF Listed
    <2>2. Len(config.auth_servers) # 0
      BY <1>1, <2>1, EmptySeq DEF Complete
    <2>3. HostedIn(file, at) # {}
      BY <1>1, <2>2, FS_EmptySet DEF Listed
    <2>4. PICK i \in HostedIn(file, at) : TRUE
      BY <2>3
    <2>5. i \in Lines /\ Opens(file[i]) /\ file[i].kw = "authserver" /\ file[i].arg # <<>>
          /\ OptionIn(file, at, i, "hostname") # Unset
      BY DEF HostedIn, Lines, Opens
    <2>6. BlockOf(i) = 0
      BY <2>5 DEF BlockOf
    <2> QED
      BY <2>5, <2>6, AsInFile DEF TopLines
  <1> QED
    BY <1>2, <1>3, <1>4, <1>5, <1>6 DEF TopOptions

\* The invariants.
LEMMA BothInvariants == Spec => [](RestartInv /\ FileInv)
  <1>1. RestartInv /\ FileInv /\ [Next]_vars => (RestartInv /\ FileInv)'
    <2> SUFFICES ASSUME RestartInv, FileInv, [Next]_vars PROVE (RestartInv /\ FileInv)'
      OBVIOUS
    <2>1. CASE UNCHANGED vars
      <3>1. RestartInv'
        BY <2>1 DEF vars, RestartInv, SequencesInv, FirstCommandLine, FirstFile, Second, Here
      <3>2. FileInv'
        BY <2>1 DEF vars, FileInv, Here
      <3> QED
        BY <3>1, <3>2
    <2>2. CASE Next
      <3>1. RestartInv'
        BY <2>2, Steps, ParseOptionKeeps, CommandLineEndsKeeps, ReadsLineKeeps, BlockEndsKeeps,
           FileEndsKeeps, ReexecuteKeeps
      <3> QED
        BY <2>2, <3>1, FileInvNext
    <2> QED
      BY <2>1, <2>2
  <1> QED
    BY <1>1, RestartInvInit, FileInvInit, PTL DEF Spec

-----------------------------------------------------------------------------
(* The trusted MACs, against the file.  Two facts about natural numbers,   *)
(* then what one entry, one line and all lines do to the list.             *)

\* Induction, for a set of numbers.
LEMMA AllNaturals ==
    ASSUME NEW P, 0 \in P, \A k \in Nat : k \in P => k + 1 \in P
    PROVE  \A k \in Nat : k \in P
  <1> DEFINE R == {ss \in Nat \X Nat : ss[1] < ss[2]}
             U == {m \in Nat : m \notin P}
  <1>0. IsWellFoundedOn(R, Nat)
    BY NatLessThanWellFounded DEF OpToRel
  <1> SUFFICES ASSUME NEW k \in Nat, k \notin P PROVE FALSE
    OBVIOUS
  <1>1. k \in U /\ U \subseteq Nat
    OBVIOUS
  <1> HIDE DEF R
  <1>2. PICK u \in U : \A y \in U : ~ (<<y, u>> \in R)
    BY <1>0, <1>1, WFMin
  <1>3. u # 0 /\ u \in Nat
    OBVIOUS
  <1>4. u - 1 \in Nat /\ (u - 1) + 1 = u
    BY <1>3
  <1>5. u - 1 \in U
    BY <1>4
  <1>6. <<u - 1, u>> \in R
    BY <1>3, <1>4 DEF R
  <1> QED
    BY <1>2, <1>5, <1>6

\* The first of some numbers.
LEMMA FirstExists ==
    ASSUME NEW T, T \subseteq Nat, T # {}
    PROVE  Min(T) \in T /\ \A j \in T : Min(T) <= j
  <1> DEFINE R == {ss \in Nat \X Nat : ss[1] < ss[2]}
  <1>0. IsWellFoundedOn(R, Nat)
    BY NatLessThanWellFounded DEF OpToRel
  <1> HIDE DEF R
  <1>2. PICK u \in T : \A y \in T : ~ (<<y, u>> \in R)
    BY <1>0, WFMin
  <1>3. ASSUME NEW y \in T PROVE u <= y
    <2>1. ~(<<y, u>> \in R) /\ y \in Nat /\ u \in Nat
      BY <1>2
    <2>2. ~(y < u)
      BY <2>1 DEF R
    <2> QED
      BY <2>1, <2>2
  <1> QED
    BY <1>3 DEF Min

\* Words of a list up to the first that is no MAC.
LEMMA Prefix ==
    ASSUME NEW S, Nothing \in S, NEW arg \in Seq(S)
    PROVE  LET K == BeforeInvalid(UpToBlank(arg)) IN
           /\ K \in Seq(S) /\ Len(K) <= Len(arg)
           /\ \A p \in 1 .. Len(K) : K[p] = arg[p] /\ arg[p] \in ValidMacs
           /\ Len(K) < Len(arg) => arg[Len(K) + 1] \notin ValidMacs
  <1> DEFINE B == {i \in 1 .. Len(arg) : arg[i] = Blank}
             U == UpToBlank(arg)
             I == {i \in 1 .. Len(U) : U[i] \notin ValidMacs}
             K == BeforeInvalid(U)
  <1>1. U = IF B # {} THEN SubSeq(arg, 1, Min(B) - 1) \o <<Nothing>> ELSE arg
    BY Zenon DEF UpToBlank, SelectInSeq, Contains
  <1>2. B # {} => Min(B) \in B /\ \A i \in B : Min(B) <= i
    <2>1. B \subseteq Nat
      OBVIOUS
    <2> HIDE DEF B
    <2> QED
      BY <2>1, FirstExists
  <1>3. I # {} => Min(I) \in I /\ \A i \in I : Min(I) <= i
    <2>1. I \subseteq Nat
      OBVIOUS
    <2> HIDE DEF I
    <2> QED
      BY <2>1, FirstExists
  <1>4. K = IF I # {} THEN SubSeq(U, 1, Min(I) - 1) ELSE U
    <2> DEFINE m == Min(I)
    <2>1. K = LET i == IF I # {} THEN m ELSE 0
              IN  IF i = 0 THEN U ELSE SubSeq(U, 1, i - 1)
      BY DEF BeforeInvalid, SelectInSeq
    <2>2. I # {} => m # 0
      BY <1>3
    <2> HIDE DEF m, U, I, K
    <2>3. K = IF I # {} THEN SubSeq(U, 1, m - 1) ELSE U
      BY <2>1, <2>2
    <2> QED
      BY <2>3 DEF m
  <1>5. Nothing \notin ValidMacs /\ Blank \notin ValidMacs
    BY DEF ValidMacs, Blank, Nothing
  \* The text cut at a blank, word by word.
  <1>6. /\ U \in Seq(S) /\ Len(U) <= Len(arg)
        /\ \A p \in 1 .. Len(U) : U[p] = arg[p] \/ (U[p] = Nothing /\ arg[p] = Blank)
        /\ Len(U) # Len(arg) => \E p \in 1 .. Len(U) : U[p] = Nothing
    <2>1. CASE B = {}
      <3>1. U = arg
        BY <1>1, <2>1
      <3> QED
        BY <3>1
    <2>2. CASE B # {}
      <3> DEFINE b == Min(B)
                 A == SubSeq(arg, 1, b - 1)
      <3>1. b \in 1 .. Len(arg) /\ arg[b] = Blank
        BY <1>2, <2>2
      <3> HIDE DEF b
      <3>2. A \in Seq(S) /\ Len(A) = b - 1 /\ \A p \in 1 .. (b - 1) : A[p] = arg[p]
        <4>1. b - 1 \in 0 .. Len(arg)
          BY <3>1
        <4> QED
          BY <3>1, <4>1, SubSeqProperties
      <3>3. U = A \o <<Nothing>>
        BY <1>1, <2>2 DEF b
      <3> HIDE DEF A, U
      <3>4. A \in Seq(S) /\ <<Nothing>> \in Seq(S) /\ Len(<<Nothing>>) = 1
        BY <3>2
      <3>5. U \in Seq(S) /\ Len(U) = b
            /\ \A p \in 1 .. b : U[p] = IF p <= b - 1 THEN A[p] ELSE <<Nothing>>[p - (b - 1)]
        BY <3>1, <3>2, <3>3, <3>4, ConcatProperties
      <3>6. U[b] = Nothing
        BY <3>1, <3>5
      <3>7. \A p \in 1 .. (b - 1) : U[p] = arg[p]
        BY <3>1, <3>2, <3>5
      <3> QED
        BY <3>1, <3>5, <3>6, <3>7
    <2> QED
      BY <2>1, <2>2
  <1> HIDE DEF B, U
  <1>7. CASE I = {}
    <2>1. K = U /\ \A p \in 1 .. Len(U) : U[p] \in ValidMacs
      BY <1>4, <1>7
    <2>2. Len(U) = Len(arg) /\ \A p \in 1 .. Len(U) : U[p] = arg[p]
      BY <1>5, <1>6, <2>1
    <2>3. U = arg
      BY <1>6, <2>2, SeqEqual, Zenon
    <2> QED
      BY <2>1, <2>3 DEF U
  <1>8. CASE I # {}
    <2> DEFINE m == Min(I)
    <2>1. m \in 1 .. Len(U) /\ U[m] \notin ValidMacs /\ \A i \in 1 .. Len(U) : i < m => U[i] \in ValidMacs
      <3>1. m \in I /\ \A i \in I : m <= i
        BY <1>3, <1>8
      <3> HIDE DEF m
      <3>2. m \in 1 .. Len(U) /\ U[m] \notin ValidMacs
        BY <3>1
      <3>3. ASSUME NEW i \in 1 .. Len(U), i < m PROVE U[i] \in ValidMacs
        BY <1>6, <3>1, <3>2, <3>3
      <3> QED
        BY <3>2, <3>3
    <2>2. K = SubSeq(U, 1, m - 1)
      BY <1>4, <1>8
    <2> HIDE DEF m, I, K
    <2>3. Len(K) = m - 1 /\ \A p \in 1 .. (m - 1) : K[p] = U[p]
      <3>1. m - 1 \in 0 .. Len(U)
        BY <1>6, <2>1
      <3> QED
        BY <1>6, <2>1, <2>2, <3>1, SubSeqProperties
    <2>4. \A p \in 1 .. (m - 1) : K[p] = arg[p] /\ arg[p] \in ValidMacs
      BY <1>5, <1>6, <2>1, <2>3
    <2>5. arg[m] \notin ValidMacs /\ m <= Len(arg) /\ m \in Nat /\ Len(K) + 1 = m
      BY <1>5, <1>6, <2>1, <2>3
    <2>6. K \in Seq(S)
      <3>1. m - 1 \in Nat /\ m - 1 <= Len(arg)
        BY <2>1, <2>5
      <3>2. \A p \in 1 .. (m - 1) : K[p] \in S
        BY <2>4, <3>1
      <3>3. K \in Seq(S)
        BY <1>6, <2>1, <2>2, SubSeqProperties
      <3> QED
        BY <2>3, <3>2, <3>3
    <2>7. Len(K) <= Len(arg)
      BY <2>5
    <2> QED
      BY <2>3, <2>4, <2>5, <2>6, <2>7 DEF K, U
  <1> QED
    BY <1>7, <1>8

\* AddAll adds the entries one by one.
LEMMA AddAllSteps ==
    ASSUME NEW list, NEW macs, Len(macs) \in Nat
    PROVE  \E a : /\ a[0] = list
                  /\ \A k \in 1 .. Len(macs) : a[k] = AddTrusted(a[k - 1], macs[k])
                  /\ AddAll(list, macs) = a[Len(macs)]
  <1> DEFINE Step(g, k) == IF k = 0 THEN list ELSE AddTrusted(g[k - 1], macs[k])
             P == {n \in Nat : \E g : g = [k \in 0 .. n |-> Step(g, k)]}
  <1>1. 0 \in P
    <2> DEFINE g == [k \in 0 .. 0 |-> list]
    <2>1. g = [k \in 0 .. 0 |-> Step(g, k)]
      OBVIOUS
    <2> HIDE DEF g
    <2> QED
      BY <2>1
  <1>2. ASSUME NEW n \in Nat, n \in P PROVE n + 1 \in P
    <2>1. PICK g : g = [k \in 0 .. n |-> Step(g, k)]
      BY <1>2
    <2> DEFINE h == [k \in 0 .. (n + 1) |-> IF k = n + 1 THEN Step(g, n + 1) ELSE g[k]]
    <2>2. \A k \in 0 .. n : h[k] = g[k] /\ g[k] = Step(g, k)
      BY <2>1
    <2>3. h[n + 1] = Step(g, n + 1)
      OBVIOUS
    <2>4. ASSUME NEW k \in 0 .. (n + 1) PROVE h[k] = Step(h, k)
      <3>1. CASE k = 0
        <4>1. 0 \in 0 .. n /\ Step(g, 0) = list /\ Step(h, 0) = list
          OBVIOUS
        <4>2. h[0] = Step(g, 0)
          <5> HIDE DEF h, Step
          <5> QED
            BY <2>2, <4>1
        <4> QED
          BY <3>1, <4>1, <4>2
      <3>2. CASE k # 0
        <4>1. k - 1 \in 0 .. n /\ h[k - 1] = g[k - 1]
          BY <2>2, <3>2
        <4>2. Step(h, k) = Step(g, k)
          BY <3>2, <4>1
        <4>3. h[k] = Step(g, k)
          <5> HIDE DEF h, Step
          <5>1. k \in 0 .. n \/ k = n + 1
            OBVIOUS
          <5> QED
            BY <2>2, <2>3, <5>1
        <4> QED
          BY <4>2, <4>3
      <3> QED
        BY <3>1, <3>2
    <2>5. h = [k \in 0 .. (n + 1) |-> h[k]]
      OBVIOUS
    <2> HIDE DEF h, Step
    <2>6. h = [k \in 0 .. (n + 1) |-> Step(h, k)]
      BY <2>4, <2>5
    <2>7. \E x : x = [k \in 0 .. (n + 1) |-> Step(x, k)]
      BY <2>6
    <2> QED
      BY <2>7
  <1>3. Len(macs) \in P
    <2> HIDE DEF P
    <2> QED
      BY <1>1, <1>2, AllNaturals
  <1> DEFINE a == CHOOSE g : g = [k \in 0 .. Len(macs) |-> Step(g, k)]
  <1>4. a = [k \in 0 .. Len(macs) |-> Step(a, k)]
    BY <1>3
  <1>5. AddAll(list, macs) = a[Len(macs)]
    BY DEF AddAll
  <1> HIDE DEF a
  <1>6. a[0] = list
    BY <1>4
  <1>7. \A k \in 1 .. Len(macs) : a[k] = AddTrusted(a[k - 1], macs[k])
    BY <1>4
  <1> QED
    BY <1>5, <1>6, <1>7

\* Entry x[2] of line x[1]; N are the entries that are added so far.  L holds them,
\* in the order they are first named.
EntryIn(f, x) == f[x[1]].arg[x[2]]
FirstNamed(f, N, u, v) ==
    \E x \in N : EntryIn(f, x) = u /\ \A y \in N : EntryIn(f, y) = v => Precedes(x, y)
InOrder(L, f, N) ==
    /\ \E T : L \in Seq(T)
    /\ \A m \in 1 .. Len(L) : \E x \in N : EntryIn(f, x) = L[m]
    /\ \A x \in N : \E m \in 1 .. Len(L) : L[m] = EntryIn(f, x)
    /\ \A m \in 1 .. Len(L) : \A k \in 1 .. Len(L) :
         m < k => (L[m] = L[k] /\ k = m + 1) \/ FirstNamed(f, N, L[m], L[k])

\* One more entry.
LEMMA AddOne ==
    ASSUME NEW f, NEW N, NEW L, InOrder(L, f, N), NEW z, \A x \in N : Precedes(x, z)
    PROVE  InOrder(AddTrusted(L, EntryIn(f, z)), f, N \cup {z})
  <1> DEFINE mac == EntryIn(f, z)
             M == AddTrusted(L, mac)
             O == N \cup {z}
             found == \E i \in 1 .. Len(L) : L[i] = mac /\ (i = 1 \/ i < Len(L))
  <1>1. PICK T : L \in Seq(T)
    BY DEF InOrder
  <1>2. DOMAIN L = 1 .. Len(L) /\ Len(L) \in Nat
    BY <1>1
  <1>3. M = IF found THEN L ELSE Append(L, mac)
    BY <1>2 DEF AddTrusted
  \* What was ordered stays so: z comes after everything.
  <1>4. \A u, v : FirstNamed(f, N, u, v) => FirstNamed(f, O, u, v)
    BY DEF FirstNamed
  <1>5. CASE found
    <2>1. \A x \in O : \E m \in 1 .. Len(L) : L[m] = EntryIn(f, x)
      BY <1>5 DEF InOrder
    <2> HIDE DEF mac, O, found
    <2>2. InOrder(L, f, O)
      BY <1>1, <1>4, <2>1 DEF InOrder, O
    <2> QED
      BY <1>3, <1>5, <2>2 DEF mac, O
  <1>6. CASE ~found
    <2>1. mac \in T \cup {mac} /\ L \in Seq(T \cup {mac})
      BY <1>1
    <2> HIDE DEF mac
    <2>2. /\ M \in Seq(T \cup {mac}) /\ Len(M) = Len(L) + 1 /\ M[Len(L) + 1] = mac
          /\ \A i \in 1 .. Len(L) : M[i] = L[i]
      <3>1. M = Append(L, mac)
        BY <1>3, <1>6
      <3> HIDE DEF M
      <3> QED
        BY <2>1, <3>1
    <2> HIDE DEF M
    <2> DEFINE n == Len(L)
    <2>3. n \in Nat /\ 1 .. (n + 1) = (1 .. n) \cup {n + 1}
      BY <1>2
    <2>4. \A m \in 1 .. n : M[m] = L[m] /\ m \in Nat /\ m <= n
      BY <2>2, <2>3
    <2>5. M[n + 1] = mac /\ Len(M) = n + 1
      BY <2>2
    <2>6. ~found
      BY <1>6
    <2> HIDE DEF n
    <2>7. \A m \in 1 .. (n + 1) : \E x \in O : EntryIn(f, x) = M[m]
      <3>1. \A m \in 1 .. n : \E x \in N : EntryIn(f, x) = L[m]
        BY DEF InOrder, n
      <3>2. z \in O /\ EntryIn(f, z) = M[n + 1]
        BY <2>5 DEF mac
      <3> QED
        BY <2>3, <2>4, <3>1, <3>2
    <2>8. \A x \in O : \E m \in 1 .. (n + 1) : M[m] = EntryIn(f, x)
      <3>1. \A x \in N : \E m \in 1 .. n : L[m] = EntryIn(f, x)
        BY DEF InOrder, n
      <3>2. n + 1 \in 1 .. (n + 1) /\ M[n + 1] = EntryIn(f, z)
        BY <2>3, <2>5 DEF mac
      <3> QED
        BY <2>3, <2>4, <3>1, <3>2
    <2>9. ASSUME NEW m \in 1 .. (n + 1), NEW k \in 1 .. (n + 1), m < k
          PROVE  (M[m] = M[k] /\ k = m + 1) \/ FirstNamed(f, O, M[m], M[k])
      <3>1. m \in 1 .. n
        BY <2>3, <2>9
      <3>2. CASE k \in 1 .. n
        <4>1. (L[m] = L[k] /\ k = m + 1) \/ FirstNamed(f, N, L[m], L[k])
          BY <2>9, <3>1, <3>2 DEF InOrder, n
        <4> QED
          BY <1>4, <2>4, <3>1, <3>2, <4>1
      <3>3. CASE k = n + 1
        \* The last entry named again,
        <4>1. CASE \E i \in 1 .. n : L[i] = mac
          <5>1. \A i \in 1 .. n : L[i] = mac => i = n
            BY <2>3, <2>6 DEF n
          <5>2. n \in 1 .. n /\ L[n] = mac
            BY <4>1, <5>1
          <5>3. CASE m = n
            BY <2>4, <2>5, <3>1, <3>3, <5>2, <5>3
          <5>4. CASE m # n
            <6>1. m < n /\ L[m] # mac
              BY <2>3, <2>4, <3>1, <5>1, <5>4
            <6>2. FirstNamed(f, N, L[m], L[n])
              BY <3>1, <5>2, <6>1 DEF InOrder, n
            <6> QED
              BY <1>4, <2>4, <2>5, <3>1, <3>3, <5>2, <6>2
          <5> QED
            BY <5>3, <5>4
        \* or one that is new.
        <4>2. CASE ~\E i \in 1 .. n : L[i] = mac
          <5>1. \A y \in N : EntryIn(f, y) # mac
            BY <4>2 DEF InOrder, n
          <5>2. PICK x \in N : EntryIn(f, x) = L[m]
            BY <3>1 DEF InOrder, n
          <5>3. \A y \in O : EntryIn(f, y) = mac => Precedes(x, y)
            BY <5>1, <5>2
          <5> QED
            BY <2>4, <2>5, <3>1, <3>3, <5>2, <5>3 DEF FirstNamed
        <4> QED
          BY <4>1, <4>2
      <3> QED
        BY <2>3, <3>2, <3>3
    <2>10. InOrder(M, f, O)
      BY <2>2, <2>5, <2>7, <2>8, <2>9 DEF InOrder
    <2> QED
      BY <2>10 DEF M, mac
  <1> QED
    BY <1>5, <1>6

\* The entries of line i up to the first that is no MAC, and those of the first n lines.
NamedOn(f, i) ==
    {<<i, p>> : p \in {p \in DOMAIN f[i].arg : \A q \in 1 .. p : f[i].arg[q] \in ValidMacs}}
NamedIn(f, n) == UNION {NamedOn(f, i) : i \in TopIn(f, n, "trustedmaclist")}

\* What was named stays as it was.
LEMMA SameNames ==
    ASSUME NEW f, NEW g, NEW n \in Nat, Agree(f, g, n)
    PROVE  /\ \A x \in NamedIn(f, n) : x[1] \in 1 .. n /\ EntryIn(g, x) = EntryIn(f, x)
           /\ \A i \in 1 .. n : NamedOn(g, i) = NamedOn(f, i)
  <1>1. \A i \in 1 .. n : f[i] = g[i]
    BY DEF Agree
  <1>2. TopIn(f, n, "trustedmaclist") \subseteq 1 .. n
    BY DEF TopIn
  <1>3. ASSUME NEW x \in NamedIn(f, n) PROVE x[1] \in 1 .. n /\ EntryIn(g, x) = EntryIn(f, x)
    <2>1. PICK i \in 1 .. n : x \in NamedOn(f, i)
      BY <1>2 DEF NamedIn
    <2>2. x[1] = i
      BY <2>1 DEF NamedOn
    <2> QED
      BY <1>1, <2>2 DEF EntryIn
  <1>4. \A i \in 1 .. n : NamedOn(g, i) = NamedOn(f, i)
    BY <1>1 DEF NamedOn
  <1> QED
    BY <1>3, <1>4

\* A list in the order of one file is in that of another with the same lines.
LEMMA SameOrder ==
    ASSUME NEW f, NEW g, NEW n \in Nat, Agree(f, g, n), NEW L, InOrder(L, f, NamedIn(f, n))
    PROVE  InOrder(L, g, NamedIn(f, n))
  <1> DEFINE N == NamedIn(f, n)
  <1>1. \A x \in N : EntryIn(g, x) = EntryIn(f, x)
    BY SameNames
  <1> HIDE DEF N
  <1>2. \A u, v : FirstNamed(f, N, u, v) => FirstNamed(g, N, u, v)
    BY <1>1 DEF FirstNamed
  <1>3. InOrder(L, f, N)
    BY DEF N
  <1>4. InOrder(L, g, N)
    BY <1>1, <1>2, <1>3 DEF InOrder
  <1> QED
    BY <1>4 DEF N

\* A line that is no list of MACs at the top level.
LEMMA NoNewNames ==
    ASSUME NEW f, NEW g, NEW n \in Nat, Agree(f, g, n), NEW L, InOrder(L, f, NamedIn(f, n)),
           TopIn(g, n + 1, "trustedmaclist") = TopIn(f, n, "trustedmaclist")
    PROVE  InOrder(L, g, NamedIn(g, n + 1))
  <1>1. TopIn(f, n, "trustedmaclist") \subseteq 1 .. n
    BY DEF TopIn
  <1>2. NamedIn(g, n + 1) = NamedIn(f, n)
    BY <1>1, SameNames DEF NamedIn
  <1> QED
    BY <1>2, SameOrder

\* A list of MACs at the top level.
LEMMA NewNames ==
    ASSUME NEW f, NEW g, NEW n \in Nat, Agree(f, g, n), NEW L, InOrder(L, f, NamedIn(f, n)),
           TopIn(g, n + 1, "trustedmaclist") = TopIn(f, n, "trustedmaclist") \cup {n + 1},
           NEW S, Nothing \in S, g[n + 1].arg \in Seq(S)
    PROVE  InOrder(parse_trusted_mac_list(L, g[n + 1].arg), g, NamedIn(g, n + 1))
  <1> DEFINE arg == g[n + 1].arg
             K == BeforeInvalid(UpToBlank(arg))
             After(k) == NamedIn(f, n) \cup {<<n + 1, p>> : p \in 1 .. k}
  <1>1. arg \in Seq(S)
    OBVIOUS
  <1> HIDE DEF arg
  <1>2. /\ K \in Seq(S) /\ Len(K) <= Len(arg)
        /\ \A p \in 1 .. Len(K) : K[p] = arg[p] /\ arg[p] \in ValidMacs
        /\ Len(K) < Len(arg) => arg[Len(K) + 1] \notin ValidMacs
    BY <1>1, Prefix
  <1>3. Len(K) \in Nat /\ Len(arg) \in Nat /\ DOMAIN arg = 1 .. Len(arg)
    BY <1>1, <1>2
  <1> HIDE DEF K
  <1>4. PICK a : /\ a[0] = L
                 /\ \A k \in 1 .. Len(K) : a[k] = AddTrusted(a[k - 1], K[k])
                 /\ AddAll(L, K) = a[Len(K)]
    BY <1>3, AddAllSteps
  <1> DEFINE P == {k \in Nat : k <= Len(K) => InOrder(a[k], g, After(k))}
  <1>5. 0 \in P
    <2>1. After(0) = NamedIn(f, n)
      OBVIOUS
    <2>2. InOrder(L, g, NamedIn(f, n))
      BY SameOrder
    <2> QED
      BY <1>4, <2>1, <2>2
  <1>6. ASSUME NEW k \in Nat, k \in P PROVE k + 1 \in P
    <2> SUFFICES ASSUME k + 1 <= Len(K) PROVE InOrder(a[k + 1], g, After(k + 1))
      OBVIOUS
    <2> DEFINE z == <<n + 1, k + 1>>
    <2>1. InOrder(a[k], g, After(k))
      BY <1>3, <1>6
    <2>2. k + 1 \in 1 .. Len(K) /\ (k + 1) - 1 = k
      BY <1>3
    <2>3. EntryIn(g, z) = K[k + 1]
      BY <1>2, <2>2 DEF EntryIn, arg
    <2>4. a[k + 1] = AddTrusted(a[k], EntryIn(g, z))
      BY <1>4, <2>2, <2>3
    <2>5. ASSUME NEW x \in After(k) PROVE Precedes(x, z)
      <3>1. CASE x \in NamedIn(f, n)
        <4>1. x[1] \in 1 .. n
          BY <3>1, SameNames
        <4> QED
          BY <4>1 DEF Precedes
      <3>2. CASE x \in {<<n + 1, p>> : p \in 1 .. k}
        BY <3>2 DEF Precedes
      <3> QED
        BY <3>1, <3>2
    <2>6. After(k + 1) = After(k) \cup {z}
      <3>1. 1 .. (k + 1) = (1 .. k) \cup {k + 1}
        OBVIOUS
      <3> QED
        BY <3>1
    <2> HIDE DEF After, z
    <2> QED
      BY <2>1, <2>4, <2>5, <2>6, AddOne
  <1>7. InOrder(a[Len(K)], g, After(Len(K)))
    <2>1. Len(K) \in P
      <3> HIDE DEF P
      <3> QED
        BY <1>3, <1>5, <1>6, AllNaturals
    <2> QED
      BY <1>3, <2>1
  <1>8. NamedOn(g, n + 1) = {<<n + 1, p>> : p \in 1 .. Len(K)}
    <2>1. NamedOn(g, n + 1) = {<<n + 1, p>> : p \in {p \in 1 .. Len(arg) : \A q \in 1 .. p : arg[q] \in ValidMacs}}
      BY <1>3 DEF NamedOn, arg
    <2>2. ASSUME NEW p \in 1 .. Len(arg)
          PROVE  (\A q \in 1 .. p : arg[q] \in ValidMacs) <=> p \in 1 .. Len(K)
      <3>1. CASE p <= Len(K)
        BY <1>2, <1>3, <3>1
      <3>2. CASE ~(p <= Len(K))
        <4>1. Len(K) + 1 \in 1 .. p /\ Len(K) < Len(arg)
          BY <1>3, <3>2
        <4> QED
          BY <1>2, <1>3, <3>2, <4>1
      <3> QED
        BY <3>1, <3>2
    <2>3. {p \in 1 .. Len(arg) : \A q \in 1 .. p : arg[q] \in ValidMacs} = 1 .. Len(K)
      <3>1. 1 .. Len(K) \subseteq 1 .. Len(arg)
        BY <1>2, <1>3
      <3> QED
        BY <2>2, <3>1
    <2> QED
      BY <2>1, <2>3
  <1>9. NamedIn(g, n + 1) = After(Len(K))
    <2>1. TopIn(f, n, "trustedmaclist") \subseteq 1 .. n
      BY DEF TopIn
    <2>2. \A i \in TopIn(f, n, "trustedmaclist") : NamedOn(g, i) = NamedOn(f, i)
      BY <2>1, SameNames
    <2> QED
      BY <1>8, <2>2 DEF NamedIn
  <1>10. parse_trusted_mac_list(L, arg) = a[Len(K)]
    BY <1>4 DEF parse_trusted_mac_list, K
  <1> QED
    BY <1>7, <1>9, <1>10 DEF arg

-----------------------------------------------------------------------------
(* What _parse_firewall_rule makes of a rule in the grammar.               *)

\* The steps of _parse_firewall_rule: the target, and the positions of the words.
Target(w) == IF WordAt(w, 1) = "block" \/ Ends(w, 1) THEN "REJECT"
             ELSE IF WordAt(w, 1) \in DOMAIN TargetOf THEN TargetOf[WordAt(w, 1)] ELSE "invalid"
ProtocolAt(w) == NextWord(w, 1)
HasProto(w) == WordAt(w, ProtocolAt(w)) \in Protocols
AfterProto(w) == IF HasProto(w) THEN NextWord(w, ProtocolAt(w)) ELSE ProtocolAt(w)
HasPort(w) == WordAt(w, AfterProto(w)) \in {"port", "port-range"}
PortAt(w) == NextWord(w, AfterProto(w))
AfterPort(w) == IF HasPort(w) THEN NextWord(w, PortAt(w)) ELSE AfterProto(w)
HasMask(w) == ~Ends(w, AfterPort(w) - 1) /\ ~Ends(w, AfterPort(w))

LEMMA RuleParts ==
    ASSUME NEW w
    PROVE  ParseRule(w) =
             [target |-> IF HasPort(w) /\ WordAt(w, PortAt(w)) \notin Ports THEN "invalid" ELSE Target(w),
              protocol |-> IF HasProto(w) THEN WordAt(w, ProtocolAt(w)) ELSE NULL,
              port |-> IF HasPort(w) THEN WordAt(w, PortAt(w)) ELSE NULL,
              mask |-> IF HasMask(w) THEN WordAt(w, NextWord(w, AfterPort(w))) ELSE "0.0.0.0/0",
              mask_is_ipset |-> HasMask(w) /\ WordAt(w, AfterPort(w)) = "to-ipset"]
  BY Zenon DEF ParseRule, Target, ProtocolAt, HasProto, AfterProto, HasPort, PortAt, AfterPort, HasMask

LEMMA SentenceParts ==
    ASSUME NEW t, NEW p, NEW h, NEW q, NEW k, NEW m
    PROVE  LET w == Sentence(t, p, h, q, k, m)
               a == IF p = NULL THEN 0 ELSE 1
               b == IF q = NULL THEN 0 ELSE 2
               c == IF m = NULL THEN 0 ELSE 2 
           IN  /\ Len(w) = 1 + a + b + c
               /\ w[1] = t
               /\ p # NULL => w[2] = p
               /\ q # NULL => w[2 + a] = h /\ w[3 + a] = q
               /\ m # NULL => w[2 + a + b] = k /\ w[3 + a + b] = m
  <1> DEFINE S == {t, p, h, q, k, m}
             A == <<t>>
             P == IF p = NULL THEN <<>> ELSE <<p>>
             Q == IF q = NULL THEN <<>> ELSE <<h, q>>
             M == IF m = NULL THEN <<>> ELSE <<k, m>>
             a == IF p = NULL THEN 0 ELSE 1
             b == IF q = NULL THEN 0 ELSE 2
             c == IF m = NULL THEN 0 ELSE 2
             w == Sentence(t, p, h, q, k, m)
  <1>1. A \in Seq(S) /\ Len(A) = 1 /\ A[1] = t
    OBVIOUS
  <1>2. P \in Seq(S) /\ Len(P) = a /\ (p # NULL => P[1] = p)
    <2>1. CASE p = NULL
      BY <2>1
    <2>2. CASE p # NULL
      <3>1. <<p>> \in Seq(S)
        OBVIOUS
      <3> QED
        BY <2>2, <3>1
    <2> QED
      BY <2>1, <2>2
  <1>3. Q \in Seq(S) /\ Len(Q) = b /\ (q # NULL => Q[1] = h /\ Q[2] = q)
    <2>1. CASE q = NULL
      BY <2>1
    <2>2. CASE q # NULL
      <3>1. <<h, q>> \in Seq(S)
        OBVIOUS
      <3> QED
        BY <2>2, <3>1
    <2> QED
      BY <2>1, <2>2
  <1>4. M \in Seq(S) /\ Len(M) = c /\ (m # NULL => M[1] = k /\ M[2] = m)
    <2>1. CASE m = NULL
      BY <2>1
    <2>2. CASE m # NULL
      <3>1. <<k, m>> \in Seq(S)
        OBVIOUS
      <3> QED
        BY <2>2, <3>1
    <2> QED
      BY <2>1, <2>2
  <1>5. w = ((A \o P) \o Q) \o M
    BY Zenon DEF Sentence
  <1>6. a \in {0, 1} /\ b \in {0, 2} /\ c \in {0, 2}
        /\ (p # NULL => a = 1) /\ (q # NULL => b = 2) /\ (m # NULL => c = 2)
    OBVIOUS
  <1> HIDE DEF A, P, Q, M, S, w, a, b, c
  <1> DEFINE B == A \o P
             C == B \o Q
  <1>7. B \in Seq(S) /\ Len(B) = 1 + a /\ B[1] = t /\ (p # NULL => B[2] = p)
    BY <1>1, <1>2, <1>6, ConcatProperties
  <1> HIDE DEF B
  <1>8. /\ C \in Seq(S) /\ Len(C) = 1 + a + b /\ \A i \in 1 .. (1 + a) : C[i] = B[i]
        /\ q # NULL => C[2 + a] = h /\ C[3 + a] = q
    BY <1>3, <1>6, <1>7, ConcatProperties
  <1> HIDE DEF C
  <1>9. /\ Len(w) = 1 + a + b + c /\ \A i \in 1 .. (1 + a + b) : w[i] = C[i]
        /\ m # NULL => w[2 + a + b] = k /\ w[3 + a + b] = m
    <2>1. w = C \o M
      BY <1>5 DEF B, C
    <2> QED
      BY <1>4, <1>6, <1>8, <2>1, ConcatProperties
  <1>10. w[1] = t /\ (p # NULL => w[2] = p)
    BY <1>6, <1>7, <1>8, <1>9
  <1>11. q # NULL => w[2 + a] = h /\ w[3 + a] = q
    BY <1>6, <1>8, <1>9
  <1> QED
    BY <1>9, <1>10, <1>11 DEF w, a, b, c

\* A rule in the grammar means what the documentation says.
LEMMA RuleMeans ==
    ASSUME NEW w, InGrammar(w)
    PROVE  (Len(w) > 1 => Means(w, ParseRule(w))) /\ ParseRule(w).target # "invalid"
  <1>1. PICK t \in DOMAIN TargetOf, p \in Protocols \cup {NULL}, h \in {"port", "port-range"},
             q \in (Ports \ {Nothing}) \cup {NULL}, k \in {"to", "to-ipset"}, m \in Words(w) :
                w = Sentence(t, p, h, q, k, m)
    BY DEF InGrammar
  <1> DEFINE a == IF p = NULL THEN 0 ELSE 1
             b == IF q = NULL THEN 0 ELSE 2
             c == IF m = NULL THEN 0 ELSE 2
             r == ParseRule(w)
  <1>2. /\ Len(w) = 1 + a + b + c
        /\ w[1] = t
        /\ p # NULL => w[2] = p
        /\ q # NULL => w[2 + a] = h /\ w[3 + a] = q
        /\ m # NULL => w[2 + a + b] = k /\ w[3 + a + b] = m
    BY <1>1, SentenceParts
  <1>3. /\ a = IF p = NULL THEN 0 ELSE 1
        /\ b = IF q = NULL THEN 0 ELSE 2
        /\ c = IF m = NULL THEN 0 ELSE 2
    OBVIOUS
  <1>4. /\ k \notin Protocols /\ h \notin Protocols /\ Nothing \notin Protocols /\ NULL \notin Protocols
        /\ k \notin {"port", "port-range"} /\ Nothing \notin {"port", "port-range"}
        /\ NULL \notin Ports
    BY DEF Protocols, Nothing, NULL, Ports, Numerals
  <1> HIDE DEF a, b, c
  <1>5. ProtocolAt(w) = 2
    BY <1>2, <1>3 DEF ProtocolAt, NextWord
  <1>6. WordAt(w, 2) = IF p # NULL THEN p ELSE IF q # NULL THEN h ELSE IF m # NULL THEN k ELSE Nothing
    BY <1>2, <1>3 DEF WordAt
  <1>7. (HasProto(w) <=> p # NULL) /\ (p # NULL => WordAt(w, 2) = p)
    BY <1>4, <1>5, <1>6 DEF HasProto
  <1>8. AfterProto(w) = 2 + a
    BY <1>2, <1>3, <1>5, <1>7 DEF AfterProto, NextWord
  <1>9. WordAt(w, 2 + a) = IF q # NULL THEN h ELSE IF m # NULL THEN k ELSE Nothing
    BY <1>2, <1>3 DEF WordAt
  <1>10. HasPort(w) <=> q # NULL
    BY <1>4, <1>8, <1>9 DEF HasPort
  <1>11. q # NULL => PortAt(w) = 3 + a /\ WordAt(w, 3 + a) = q
    BY <1>2, <1>3, <1>8 DEF PortAt, NextWord, WordAt
  <1>12. AfterPort(w) = 2 + a + b
    BY <1>2, <1>3, <1>8, <1>10, <1>11 DEF AfterPort, NextWord
  <1>13. HasMask(w) <=> m # NULL
    BY <1>2, <1>3, <1>12 DEF HasMask, Ends
  <1>14. m # NULL => /\ WordAt(w, AfterPort(w)) = k
                    /\ WordAt(w, NextWord(w, AfterPort(w))) = m
    BY <1>2, <1>3, <1>12 DEF WordAt, NextWord
  <1>15. Target(w) = IF Len(w) = 1 THEN "REJECT" ELSE TargetOf[t]
    <2>1. WordAt(w, 1) = t
      BY <1>2, <1>3 DEF WordAt
    <2>2. Ends(w, 1) <=> Len(w) = 1
      BY <1>2, <1>3 DEF Ends
    <2>3. t = "block" => TargetOf[t] = "REJECT"
      BY DEF TargetOf
    <2> QED
      BY <2>1, <2>2, <2>3 DEF Target
  <1>16. r.protocol = p
    BY <1>5, <1>7, RuleParts
  <1>17. r.port = q
    BY <1>10, <1>11, RuleParts
  <1>18. r.mask = IF m = NULL THEN "0.0.0.0/0" ELSE m
    BY <1>13, <1>14, RuleParts
  <1>19. r.mask_is_ipset = (m # NULL /\ k = "to-ipset")
    BY <1>13, <1>14, RuleParts
  <1>20. r.target = IF Len(w) = 1 THEN "REJECT" ELSE TargetOf[t]
    <2>1. HasPort(w) => WordAt(w, PortAt(w)) \in Ports
      BY <1>10, <1>11
    <2> QED
      BY <1>15, <2>1, RuleParts
  <1>21. r.target # "invalid"
    <2>1. TargetOf[t] # "invalid"
      BY DEF TargetOf
    <2> QED
      BY <1>20, <2>1
  <1> HIDE DEF r
  <1>22. Len(w) > 1 => Means(w, r)
    <2> SUFFICES ASSUME Len(w) > 1 PROVE Means(w, r)
      OBVIOUS
    <2>1. r.target = TargetOf[t]
      <3>1. Len(w) # 1
        BY <1>2, <1>3
      <3> QED
        BY <1>20, <3>1
    <2>2. w = Sentence(t, r.protocol, h, r.port, k, m)
      BY <1>1, <1>16, <1>17
    <2> QED
      BY <1>18, <1>19, <2>1, <2>2 DEF Means
  <1> QED
    BY <1>21, <1>22 DEF r

-----------------------------------------------------------------------------
(* The rule sets, against the file.                                        *)

\* The rules of the lines of a file, the lines that add a rule to the rule set of a
\* name, and the rule sets that they make.
RuleOf(f, n) == [i \in 1 .. n |-> ParseRule(f[i].arg)]
AddsRule(f, i, name) ==
    /\ InBlock(f, i) # 0 /\ OpensRuleset(f[InBlock(f, i)]) /\ Value(f[InBlock(f, i)]) = name
    /\ f[i].kw = "firewallrule" /\ ~Closes(f[i]) /\ Accepted(f[i].arg)
RulesOf(f, n, name) == {i \in 1 .. n : AddsRule(f, i, name)}
IsSet(s, f, n) ==
    DOMAIN s = {"name", "rules"} /\ Ranked(s.rules, RuleOf(f, n), RulesOf(f, n, s.name))
    /\ RulesOf(f, n, s.name) # {}
RulesIn(R, f, n) ==
    /\ \E S : R \in Seq(S)
    /\ \A i \in 1 .. Len(R) : IsSet(R[i], f, n)
    /\ \A i \in 1 .. Len(R) : \A j \in 1 .. Len(R) : R[i].name = R[j].name => i = j
    /\ \A name : RulesOf(f, n, name) # {} => \E i \in 1 .. Len(R) : R[i].name = name

\* One more line.
LEMMA RulesNext ==
    ASSUME NEW f, NEW g, NEW n \in Nat, Agree(f, g, n), NEW name
    PROVE  /\ RulesOf(g, n + 1, name) = RulesOf(f, n, name)
                                        \cup (IF AddsRule(g, n + 1, name) THEN {n + 1} ELSE {})
           /\ RulesOf(f, n, name) \subseteq 1 .. n
           /\ \A i \in 1 .. n : RuleOf(g, n + 1)[i] = RuleOf(f, n)[i]
  <1>1. ASSUME NEW i \in 1 .. n PROVE AddsRule(g, i, name) <=> AddsRule(f, i, name)
    <2>1. InBlock(f, i) = InBlock(g, i) /\ f[i] = g[i]
      BY SameBlock DEF Agree
    <2>2. InBlock(f, i) # 0 => InBlock(f, i) \in 1 .. n
      BY InBlockRange
    <2>3. InBlock(f, i) # 0 => f[InBlock(f, i)] = g[InBlock(f, i)]
      BY <2>2 DEF Agree
    <2> QED
      BY <2>1, <2>3 DEF AddsRule
  <1>2. 1 .. (n + 1) = (1 .. n) \cup {n + 1}
    OBVIOUS
  <1>3. \A i \in 1 .. n : f[i] = g[i]
    BY DEF Agree
  <1> QED
    BY <1>1, <1>2, <1>3 DEF RulesOf, RuleOf

\* A rule set that gets no rule.
LEMMA SameSet ==
    ASSUME NEW f, NEW g, NEW n \in Nat, Agree(f, g, n), NEW s, IsSet(s, f, n),
           ~AddsRule(g, n + 1, s.name)
    PROVE  IsSet(s, g, n + 1)
  <1> DEFINE H == RulesOf(f, n, s.name)
             F == RuleOf(f, n)
             G == RuleOf(g, n + 1)
  <1>1. RulesOf(g, n + 1, s.name) = H /\ H \subseteq 1 .. n /\ \A i \in 1 .. n : G[i] = F[i]
    BY RulesNext
  <1>2. Ranked(s.rules, F, H) /\ H # {} /\ DOMAIN s = {"name", "rules"}
    BY DEF IsSet
  <1> HIDE DEF H, F, G
  <1>3. Ranked(s.rules, G, H)
    BY <1>1, <1>2 DEF Ranked
  <1> QED
    BY <1>1, <1>2, <1>3 DEF IsSet, G

\* A line that adds no rule.
LEMMA NoRule ==
    ASSUME NEW f, NEW g, NEW n \in Nat, Agree(f, g, n), NEW R, RulesIn(R, f, n),
           \A name : ~AddsRule(g, n + 1, name)
    PROVE  RulesIn(R, g, n + 1)
  <1>1. \A name : RulesOf(g, n + 1, name) = RulesOf(f, n, name)
    BY RulesNext
  <1>2. \A i \in 1 .. Len(R) : IsSet(R[i], g, n + 1)
    BY SameSet DEF RulesIn
  <1> QED
    BY <1>1, <1>2 DEF RulesIn

\* A line that adds a rule.
LEMMA NewRule ==
    ASSUME NEW f, NEW g, NEW n \in Nat, Agree(f, g, n), NEW R, RulesIn(R, f, n),
           NEW name, AddsRule(g, n + 1, name), NEW w, w = g[n + 1].arg,
           ParseRule(w).target # "invalid"
    PROVE  RulesIn(_parse_firewall_rule(R, name, w), g, n + 1)
  <1> DEFINE rule == ParseRule(w)
             I == {k \in 1 .. Len(R) : R[k].name = name}
             i == Min(I)
             G == RuleOf(g, n + 1)
             H == RulesOf(f, n, name)
             x == [name |-> name, rules |-> <<rule>>]
             y == [R[i] EXCEPT !.rules = Append(R[i].rules, rule)]
             Q == _parse_firewall_rule(R, name, w)
  <1>1. PICK T : R \in Seq(T)
    BY DEF RulesIn
  <1>2. Len(R) \in Nat /\ DOMAIN R = 1 .. Len(R)
    BY <1>1
  <1>3. I # {} => i \in I
    <2>1. I \subseteq Nat
      BY <1>2
    <2> HIDE DEF I
    <2> QED
      BY <2>1, FirstExists
  <1>4. Q = IF I = {} THEN Append(R, x) ELSE [R EXCEPT ![i] = y]
    <2>1. Q = LET m == IF I # {} THEN i ELSE 0
              IN  IF rule.target = "invalid" THEN R
                  ELSE IF m = 0 THEN Append(R, x)
                  ELSE [R EXCEPT ![m].rules = Append(@, rule)]
      BY Zenon DEF _parse_firewall_rule, SelectInSeq
    <2>2. I # {} => i # 0
      BY <1>3
    <2>3. rule.target # "invalid"
      OBVIOUS
    <2> HIDE DEF Q, rule, i, I, x
    <2>4. Q = IF I = {} THEN Append(R, x) ELSE [R EXCEPT ![i].rules = Append(@, rule)]
      BY <2>1, <2>2, <2>3
    <2>5. [R EXCEPT ![i].rules = Append(@, rule)] = [R EXCEPT ![i] = y]
      OBVIOUS
    <2> HIDE DEF y
    <2> QED
      BY <2>4, <2>5
  <1>5. \A other : AddsRule(g, n + 1, other) <=> other = name
    BY DEF AddsRule
  <1>6. /\ RulesOf(g, n + 1, name) = H \cup {n + 1} /\ H \subseteq 1 .. n
        /\ \A other : other # name => RulesOf(g, n + 1, other) = RulesOf(f, n, other)
        /\ \A k \in 1 .. n : G[k] = RuleOf(f, n)[k]
    BY <1>5, RulesNext
  <1>7. G[n + 1] = rule /\ n + 1 \in Nat /\ n + 1 \in 1 .. (n + 1)
    BY DEF RuleOf
  <1>8. \A s : IsSet(s, f, n) /\ s.name # name => IsSet(s, g, n + 1)
    BY <1>5, SameSet
  \* A list of H gets the rule at its end.
  <1>9. ASSUME NEW L, Ranked(L, G, H) PROVE Ranked(Append(L, rule), G, H \cup {n + 1})
    <2>1. H \subseteq 1 .. (n + 1) /\ \A k \in H : k < n + 1
      BY <1>6
    <2> HIDE DEF H, G
    <2> QED
      BY <1>7, <1>9, <2>1, RankedAppend
  <1> DEFINE Others == \A k \in 1 .. Len(R) : R[k].name # name => IsSet(R[k], g, n + 1)
  <1>10. Others
    BY <1>8 DEF RulesIn
  <1>11. CASE I = {}
    <2>1. H = {}
      BY <1>11 DEF RulesIn
    <2>2. Ranked(<<>>, G, H)
      <3>1. <<>> \in Seq({}) /\ Len(<<>>) = 0 /\ Cardinality({}) = 0
        BY FS_EmptySet
      <3> QED
        BY <2>1, <3>1 DEF Ranked
    <2>3. Append(<<>>, rule) = <<rule>>
      OBVIOUS
    <2> HIDE DEF rule, G, H
    <2>4. DOMAIN x = {"name", "rules"} /\ x.name = name /\ x.rules = <<rule>>
      OBVIOUS
    <2> HIDE DEF x
    <2>5. IsSet(x, g, n + 1)
      BY <1>6, <1>9, <2>2, <2>3, <2>4 DEF IsSet, G
    <2>6. R \in Seq(T \cup {x}) /\ x \in T \cup {x}
      BY <1>1
    <2>7. Q = Append(R, x)
      BY <1>4, <1>11
    <2> HIDE DEF Q
    <2>8. /\ Q \in Seq(T \cup {x}) /\ Len(Q) = Len(R) + 1 /\ Q[Len(R) + 1] = x
          /\ \A k \in 1 .. Len(R) : Q[k] = R[k]
      BY <2>6, <2>7
    <2>9. 1 .. (Len(R) + 1) = (1 .. Len(R)) \cup {Len(R) + 1}
      BY <1>2
    <2>10. \A k \in 1 .. Len(R) : R[k].name # name
      BY <1>11
    <2>11. \A k \in 1 .. Len(Q) : IsSet(Q[k], g, n + 1)
      BY <1>10, <2>5, <2>8, <2>9, <2>10
    <2>12. ASSUME NEW k \in 1 .. Len(Q), NEW m \in 1 .. Len(Q), Q[k].name = Q[m].name PROVE k = m
      <3>1. CASE k \in 1 .. Len(R) /\ m \in 1 .. Len(R)
        BY <2>8, <2>12, <3>1 DEF RulesIn
      <3>2. CASE k = Len(R) + 1 /\ m \in 1 .. Len(R)
        BY <2>4, <2>8, <2>10, <2>12, <3>2
      <3>3. CASE k \in 1 .. Len(R) /\ m = Len(R) + 1
        BY <2>4, <2>8, <2>10, <2>12, <3>3
      <3> QED
        BY <2>8, <2>9, <3>1, <3>2, <3>3
    <2>13. ASSUME NEW other, RulesOf(g, n + 1, other) # {}
           PROVE  \E k \in 1 .. Len(Q) : Q[k].name = other
      <3>1. CASE other = name
        BY <2>4, <2>8, <2>9, <3>1
      <3>2. CASE other # name
        <4>1. PICK k \in 1 .. Len(R) : R[k].name = other
          BY <1>6, <2>13, <3>2 DEF RulesIn
        <4> QED
          BY <2>8, <2>9, <4>1
      <3> QED
        BY <3>1, <3>2
    <2>14. RulesIn(Q, g, n + 1)
      BY <2>8, <2>11, <2>12, <2>13 DEF RulesIn
    <2> QED
      BY <2>14 DEF Q
  <1>12. CASE I # {}
    <2>1. i \in 1 .. Len(R) /\ R[i].name = name
      BY <1>3, <1>12
    <2> HIDE DEF i, I, rule
    <2>2. DOMAIN R[i] = {"name", "rules"} /\ Ranked(R[i].rules, RuleOf(f, n), H)
      BY <2>1 DEF RulesIn, IsSet
    <2>3. Ranked(R[i].rules, G, H)
      <3> HIDE DEF G, H
      <3> QED
        BY <1>6, <2>2 DEF Ranked
    <2>4. DOMAIN y = {"name", "rules"} /\ y.name = name /\ y.rules = Append(R[i].rules, rule)
      BY <2>1, <2>2
    <2> HIDE DEF y, G, H
    <2>5. IsSet(y, g, n + 1)
      BY <1>6, <1>9, <2>3, <2>4 DEF IsSet, G
    <2>6. R \in Seq(T \cup {y}) /\ y \in T \cup {y}
      BY <1>1
    <2>7. Q = [R EXCEPT ![i] = y]
      BY <1>4, <1>12
    <2> HIDE DEF Q
    <2>8. /\ Q \in Seq(T \cup {y}) /\ Len(Q) = Len(R)
          /\ \A k \in 1 .. Len(R) : Q[k] = IF k = i THEN y ELSE R[k]
      BY <2>1, <2>6, <2>7, ExceptSeq
    <2>9. \A k \in 1 .. Len(R) : Q[k].name = R[k].name
      BY <2>1, <2>4, <2>8
    <2>10. \A k \in 1 .. Len(R) : k # i => R[k].name # name
      BY <2>1 DEF RulesIn
    <2>11. \A k \in 1 .. Len(Q) : IsSet(Q[k], g, n + 1)
      BY <1>10, <2>5, <2>8, <2>10
    <2>12. \A k \in 1 .. Len(Q) : \A m \in 1 .. Len(Q) : Q[k].name = Q[m].name => k = m
      BY <2>8, <2>9 DEF RulesIn
    <2>13. ASSUME NEW other, RulesOf(g, n + 1, other) # {}
           PROVE  \E k \in 1 .. Len(Q) : Q[k].name = other
      <3>1. CASE other = name
        BY <2>1, <2>8, <2>9, <3>1
      <3>2. CASE other # name
        <4>1. PICK k \in 1 .. Len(R) : R[k].name = other
          BY <1>6, <2>13, <3>2 DEF RulesIn
        <4> QED
          BY <2>8, <2>9, <4>1
      <3> QED
        BY <3>1, <3>2
    <2>14. RulesIn(Q, g, n + 1)
      BY <2>8, <2>11, <2>12, <2>13 DEF RulesIn
    <2> QED
      BY <2>14 DEF Q
  <1> QED
    BY <1>11, <1>12

-----------------------------------------------------------------------------
(* Both lists line by line, up to one that ends the program.               *)

\* The lists of two configurations are the same.
SameLists(c, d) == d.rulesets = c.rulesets /\ d.trustedmaclist = c.trustedmaclist

\* A field that is put leaves the others.
LEMMA PutKeeps ==
    ASSUME NEW c, DOMAIN c = Fields, NEW x \in Fields, NEW v
    PROVE  /\ DOMAIN Put(c, x, v) = Fields /\ Put(c, x, v)[x] = v
           /\ \A y \in Fields : y # x => Put(c, x, v)[y] = c[y]
           /\ x \notin {"rulesets", "trustedmaclist"} => SameLists(c, Put(c, x, v))
  <1>1. /\ DOMAIN Put(c, x, v) = Fields /\ Put(c, x, v)[x] = v
        /\ \A y \in Fields : y # x => Put(c, x, v)[y] = c[y]
    BY DEF Put
  <1>2. "rulesets" \in Fields /\ "trustedmaclist" \in Fields
    BY DEF Fields
  <1> QED
    BY <1>1, <1>2 DEF SameLists

\* Of the lines of the top level, TrustedMACList adds to the trusted MACs; none adds a rule.
LEMMA LineLists ==
    ASSUME NEW c, Fit(c), NEW l, l.kw \in PlainOptions \cup StrictFlags
    PROVE  /\ SetByLine(c, l).rulesets = c.rulesets
           /\ SetByLine(c, l).trustedmaclist =
                IF l.kw = "trustedmaclist" THEN parse_trusted_mac_list(c.trustedmaclist, l.arg)
                ELSE c.trustedmaclist
  <1>0. /\ {"options", "flags", "deltatraffic", "trustedmaclist", "popular_servers", "rulesets"}
             \subseteq Fields
        /\ DOMAIN c = Fields
    BY DEF Fields, Fit
  <1>1. CASE l.kw \in StringOptions \cup NumberOptions
    <2> DEFINE v == Put(c.options, l.kw, Value(l))
    <2>1. l.kw # "trustedmaclist"
      BY <1>1 DEF StringOptions, NumberOptions
    <2>2. SetByLine(c, l) = c \/ SetByLine(c, l) = Put(c, "options", v)
      BY <1>1, LineKinds
    <2> HIDE DEF v
    <2>3. SameLists(c, Put(c, "options", v))
      BY <1>0, PutKeeps
    <2> QED
      BY <2>1, <2>2, <2>3 DEF SameLists
  <1>2. CASE l.kw \in StrictFlags
    <2> DEFINE v == Put(c.flags, l.kw, parse_boolean_value(Value(l)))
    <2>1. l.kw # "trustedmaclist"
      BY <1>2 DEF StrictFlags
    <2>2. SetByLine(c, l) = Put(c, "flags", v)
      BY <1>2, LineKinds
    <2> HIDE DEF v
    <2>3. SameLists(c, Put(c, "flags", v))
      BY <1>0, PutKeeps
    <2> QED
      BY <2>1, <2>2, <2>3 DEF SameLists
  <1>3. CASE l.kw = "deltatraffic"
    <2>1. SetByLine(c, l) = Put(c, "deltatraffic", parse_boolean_value(Value(l)))
      BY <1>3, LineKinds
    <2>2. SameLists(c, Put(c, "deltatraffic", parse_boolean_value(Value(l))))
      BY <1>0, PutKeeps
    <2> QED
      BY <1>3, <2>1, <2>2 DEF SameLists
  <1>4. CASE l.kw = "daemon"
    <2> DEFINE v == parse_boolean_value(Value(l))
               d == [c EXCEPT !.daemon = v, !.log_stderr = 1 - v]
    <2>1. SetByLine(c, l) = SetDaemon(c, Value(l))
      BY <1>4, LineKinds
    <2>2. SetDaemon(c, Value(l)) = c \/ SetDaemon(c, Value(l)) = d
      BY DEF SetDaemon
    <2>3. SameLists(c, d)
      <3> HIDE DEF v
      <3> QED
        BY <1>0 DEF SameLists
    <2> HIDE DEF d
    <2> QED
      BY <1>4, <2>1, <2>2, <2>3 DEF SameLists
  <1>5. CASE l.kw = "trustedmaclist"
    <2> DEFINE v == parse_trusted_mac_list(c.trustedmaclist, l.arg)
    <2>1. SetByLine(c, l) = Put(c, "trustedmaclist", v)
      BY <1>5, LineKinds
    <2> HIDE DEF v
    <2>2. /\ Put(c, "trustedmaclist", v).trustedmaclist = v
          /\ Put(c, "trustedmaclist", v).rulesets = c.rulesets
      BY <1>0, PutKeeps
    <2> QED
      BY <1>5, <2>1, <2>2 DEF v
  <1>6. CASE l.kw = "popularservers"
    <2> DEFINE v == parse_popular_servers(c.popular_servers, l.arg)
    <2>1. SetByLine(c, l) = Put(c, "popular_servers", v)
      BY <1>6, LineKinds
    <2> HIDE DEF v
    <2>2. SameLists(c, Put(c, "popular_servers", v))
      BY <1>0, PutKeeps
    <2> QED
      BY <1>6, <2>1, <2>2 DEF SameLists
  <1> QED
    BY <1>1, <1>2, <1>3, <1>4, <1>5, <1>6 DEF PlainOptions

\* Neither the end of a server's block, nor config_validate, nor the command line touches them.
LEMMA OthersKeepLists ==
    ASSUME NEW c, Fit(c)
    PROVE  /\ SameLists(c, WithPopular(c))
           /\ \A b : SameLists(c, AppendServer(c, b))
           /\ \A o : o.c \in TakesArgument \cup {"f", "s"} => SameLists(c, SetByOption(c, o))
  <1>0. /\ {"options", "auth_servers", "popular_servers", "log_syslog", "restart_orig_pid",
            "rulesets", "trustedmaclist", "daemon", "log_stderr"} \subseteq Fields
        /\ \A x \in {"c", "d", "i", "a", "p"} : Field[x] \in Fields \ {"rulesets", "trustedmaclist"}
        /\ DOMAIN c = Fields
    BY DEF Fields, Fit, Field
  <1>1. SameLists(c, c)
    BY DEF SameLists
  <1>2. SameLists(c, WithPopular(c))
    <2> DEFINE v == <<"www.yahoo.com", "www.google.com">>
    <2>1. WithPopular(c) = c \/ WithPopular(c) = Put(c, "popular_servers", v)
      BY DEF WithPopular, Put
    <2> HIDE DEF v
    <2> QED
      BY <1>0, <1>1, <2>1, PutKeeps
  <1>3. ASSUME NEW b PROVE SameLists(c, AppendServer(c, b))
    <2> DEFINE v == Append(c.auth_servers, b.server)
    <2>1. AppendServer(c, b) = Put(c, "auth_servers", v)
      BY DEF AppendServer, Put
    <2> HIDE DEF v
    <2> QED
      BY <1>0, <2>1, PutKeeps
  <1>4. ASSUME NEW o, o.c \in TakesArgument \cup {"f", "s"} PROVE SameLists(c, SetByOption(c, o))
    <2>1. o.c \in {"c", "w", "d", "x", "i", "a", "p", "f", "s"}
      BY <1>4 DEF TakesArgument
    <2>2. CASE o.c = "w"
      <3> DEFINE v == Put(c.options, "wdctlsocket", o.optarg)
      <3>1. SetByOption(c, o) = Put(c, "options", v)
        BY <2>2 DEF SetByOption, Put
      <3> HIDE DEF v
      <3> QED
        BY <1>0, <3>1, PutKeeps
    <2>3. CASE o.c = "f"
      <3> DEFINE d == [c EXCEPT !.daemon = 0, !.log_stderr = 1]
      <3>1. SetByOption(c, o) = d
        BY <2>3 DEF SetByOption
      <3>2. SameLists(c, d)
        BY <1>0 DEF SameLists
      <3> QED
        BY <3>1, <3>2
    <2>4. CASE o.c = "s"
      <3>1. SetByOption(c, o) = Put(c, "log_syslog", 1)
        BY <2>4 DEF SetByOption, Put
      <3> QED
        BY <1>0, <3>1, PutKeeps
    <2>5. CASE o.c = "x"
      <3>1. SetByOption(c, o) = Put(c, "restart_orig_pid", 1)
        BY <2>5 DEF SetByOption, Put
      <3> QED
        BY <1>0, <3>1, PutKeeps
    <2>6. CASE o.c \in {"c", "d", "i", "a", "p"}
      <3> DEFINE x == Field[o.c]
      <3>1. SetByOption(c, o) = Put(c, x, o.optarg)
        BY <2>6 DEF SetByOption, Put
      <3>2. x \in Fields \ {"rulesets", "trustedmaclist"}
        BY <1>0, <2>6
      <3> HIDE DEF x
      <3> QED
        BY <1>0, <3>1, <3>2, PutKeeps
    <2> QED
      BY <2>1, <2>2, <2>3, <2>4, <2>5, <2>6
  <1> QED
    BY <1>2, <1>3, <1>4

\* The lists are what the lines so far say, and a rule set is read under its own name.
Lists(s, f, n) ==
    /\ RulesIn(s.config.rulesets, f, n)
    /\ InOrder(s.config.trustedmaclist, f, NamedIn(f, n))
    /\ s.pc = "ruleset" => \A j \in OpenIn(f, n + 1) :
                             OpensRuleset(f[j]) /\ s.block.ruleset = Value(f[j])

\* A line of the top level.
LEMMA ListsTop ==
    ASSUME NEW s, NEW f, NEW g, NEW n \in Nat, NEW l, Read(s, f, n), Lists(s, f, n), s.pc = "read",
           Agree(f, g, n), g[n + 1] = l, GoodLine(l)
    PROVE  Lists(TopLine(s, l), g, n + 1)
  <1> DEFINE t == TopLine(s, l)
             plain == l.kw \in PlainOptions \/ (l.kw \in StrictFlags /\ parse_boolean_value(Value(l)) # -1)
             skip == l.arg = <<>> \/ l.kw = "#"
             c == s.config
             d == SetByLine(c, l)
             N == NamedIn(g, n + 1)
  <1>0. Fit(c) /\ RulesIn(c.rulesets, f, n) /\ InOrder(c.trustedmaclist, f, NamedIn(f, n))
    BY DEF Read, Lists
  <1>1. OpenIn(f, n + 1) = {} /\ s.block = NoBlock
    BY DEF Read, Within
  <1>2. OpenIn(g, n + 1) = {} /\ InBlock(g, n + 1) = 0
    <2>1. n + 1 \in 1 .. (n + 1)
      OBVIOUS
    <2>2. OpenIn(g, n + 1) = {}
      BY <1>1, <2>1, SameOpen
    <2> QED
      BY <2>2 DEF InBlock
  <1>3. OpenIn(g, n + 2) = IF Opens(l) THEN {n + 1} ELSE {}
    BY <1>2, OpenNext
  <1>4. \/ skip /\ t = s
        \/ ~skip /\ plain /\ t = State(AfterOption(l), d, s.block)
        \/ ~skip /\ ~plain /\ l.kw = "authserver" /\ t = State("server", c, s.block)
        \/ ~skip /\ ~plain /\ l.kw = "firewallruleset"
           /\ t = State("ruleset", c, [s.block EXCEPT !.ruleset = Value(l)])
        \/ ~skip /\ ~plain /\ t = State("exited", c, s.block)
    <2>1. t = IF skip THEN s ELSE
              IF plain THEN State(AfterOption(l), d, s.block) ELSE
              IF l.kw = "authserver" THEN State("server", c, s.block) ELSE
              IF l.kw = "firewallruleset"
              THEN State("ruleset", c, [s.block EXCEPT !.ruleset = Value(l)])
              ELSE State("exited", c, s.block)
      BY Zenon DEF TopLine
    <2> HIDE DEF t, plain, skip, c, d
    <2> QED
      BY <2>1
  <1>5. \A name : ~AddsRule(g, n + 1, name)
    BY <1>2 DEF AddsRule
  <1>6. RulesIn(c.rulesets, g, n + 1)
    BY <1>0, <1>5, NoRule
  <1> DEFINE K == TopIn(g, n + 1, "trustedmaclist")
             J == TopIn(f, n, "trustedmaclist")
  <1>7. K = J \cup (IF l.kw = "trustedmaclist" /\ ~skip THEN {n + 1} ELSE {})
    <2>1. K = J \cup (IF InBlock(g, n + 1) = 0 /\ Takes("trustedmaclist", l) THEN {n + 1} ELSE {})
      BY TopNext
    <2>3. Takes("trustedmaclist", l) <=> l.kw = "trustedmaclist" /\ l.arg # <<>>
      BY DEF Takes, NumberOptions
    <2>2. l.kw = "trustedmaclist" => l.kw # "#"
      OBVIOUS
    <2> QED
      BY <1>2, <2>1, <2>2, <2>3
  <1>8. ~(l.kw = "trustedmaclist" /\ ~skip) => InOrder(c.trustedmaclist, g, N)
    BY <1>0, <1>7, NoNewNames
  <1>9. l.kw = "trustedmaclist" /\ ~skip => InOrder(parse_trusted_mac_list(c.trustedmaclist, l.arg), g, N)
    <2> DEFINE S == (STRING \ {NULL}) \cup {Nothing}
    <2>1. l.arg \in Seq(STRING \ {NULL})
      BY DEF GoodLine, LineType
    <2>2. l.arg \in Seq(S) /\ Nothing \in S
      BY <2>1
    <2> HIDE DEF S
    <2> SUFFICES ASSUME l.kw = "trustedmaclist" /\ ~skip
                 PROVE  InOrder(parse_trusted_mac_list(c.trustedmaclist, l.arg), g, N)
      OBVIOUS
    <2>3. K = J \cup {n + 1}
      BY <1>7
    <2> QED
      BY <1>0, <2>2, <2>3, NewNames
  <1>10. plain => d.rulesets = c.rulesets
                  /\ d.trustedmaclist = IF l.kw = "trustedmaclist"
                                        THEN parse_trusted_mac_list(c.trustedmaclist, l.arg)
                                        ELSE c.trustedmaclist
    BY <1>0, LineLists
  <1>11. l.kw = "trustedmaclist" => plain /\ l.kw # "authserver" /\ l.kw # "firewallruleset"
    BY DEF PlainOptions
  <1>12. t.pc = "ruleset" => l.kw = "firewallruleset" /\ ~skip
                             /\ t.block = [s.block EXCEPT !.ruleset = Value(l)]
    <2>1. AfterOption(l) # "ruleset"
      BY DEF AfterOption
    <2> HIDE DEF t, plain, skip, c, d
    <2> QED
      BY <1>4, <2>1, StateParts
  <1>13. t.config = c \/ (plain /\ ~skip /\ t.config = d)
    <2> HIDE DEF t, plain, skip, d
    <2> QED
      BY <1>4, StateParts DEF c
  <1>14. l.kw = "trustedmaclist" /\ ~skip => t.config = d
    <2> HIDE DEF t, plain, skip, c, d
    <2> QED
      BY <1>4, <1>11, StateParts
  <1>15. t.pc = "ruleset" => \A j \in OpenIn(g, (n + 1) + 1) :
                               OpensRuleset(g[j]) /\ t.block.ruleset = Value(g[j])
    <2> SUFFICES ASSUME t.pc = "ruleset", NEW j \in OpenIn(g, (n + 1) + 1)
                 PROVE  OpensRuleset(g[j]) /\ t.block.ruleset = Value(g[j])
      OBVIOUS
    <2>1. (n + 1) + 1 = n + 2
      OBVIOUS
    <2>2. j = n + 1
      BY <1>3, <2>1
    <2> DEFINE v == Value(l)
    <2>3. t.block = [NoBlock EXCEPT !.ruleset = v] /\ l.kw = "firewallruleset" /\ l.arg # <<>>
      BY <1>1, <1>12
    <2> HIDE DEF v
    <2>4. [NoBlock EXCEPT !.ruleset = v].ruleset = v
      BY Defaults
    <2> QED
      BY <2>2, <2>3, <2>4 DEF OpensRuleset, v
  <1> HIDE DEF t, plain, skip, c, d, N
  <1>16. RulesIn(t.config.rulesets, g, n + 1)
    BY <1>6, <1>10, <1>13
  <1>17. InOrder(t.config.trustedmaclist, g, N)
    <2>1. CASE l.kw = "trustedmaclist" /\ ~skip
      BY <1>9, <1>10, <1>11, <1>14, <2>1
    <2>2. CASE ~(l.kw = "trustedmaclist" /\ ~skip)
      BY <1>8, <1>10, <1>13, <2>2
    <2> QED
      BY <2>1, <2>2
  <1>18. Lists(t, g, n + 1)
    BY <1>15, <1>16, <1>17 DEF Lists, N
  <1> QED
    BY <1>18 DEF t

\* A line inside a block: the lists of the top level are left alone.
LEMMA ListsInside ==
    ASSUME NEW f, NEW g, NEW n \in Nat, NEW l, Agree(f, g, n), g[n + 1] = l,
           NEW j \in 1 .. n, OpenIn(f, n + 1) = {j}
    PROVE  /\ ~Opens(l) => InBlock(g, n + 1) = j
           /\ Opens(l) => InBlock(g, n + 1) = 0
           /\ j # 0 /\ g[j] = f[j] /\ OpenIn(g, n + 1) = {j}
           /\ \A L : InOrder(L, f, NamedIn(f, n)) => InOrder(L, g, NamedIn(g, n + 1))
  <1>1. n + 1 \in 1 .. (n + 1) /\ j # 0
    OBVIOUS
  <1>2. OpenIn(g, n + 1) = {j}
    BY <1>1, SameOpen
  <1>3. LastOf({j}) = j
    BY LastSingle
  <1>4. ~Opens(l) => InBlock(g, n + 1) = j
    BY <1>2, <1>3 DEF InBlock
  <1>5. Opens(l) => InBlock(g, n + 1) = 0
    BY DEF InBlock
  <1>6. g[j] = f[j]
    BY DEF Agree
  <1>7. TopIn(g, n + 1, "trustedmaclist") = TopIn(f, n, "trustedmaclist")
    <2>1. ~(InBlock(g, n + 1) = 0 /\ Takes("trustedmaclist", l))
      BY <1>1, <1>4, <1>5 DEF Opens, Takes
    <2>2. TopIn(g, n + 1, "trustedmaclist") = TopIn(f, n, "trustedmaclist")
             \cup (IF InBlock(g, n + 1) = 0 /\ Takes("trustedmaclist", l) THEN {n + 1} ELSE {})
      BY TopNext
    <2> QED
      BY <2>1, <2>2
  <1>8. \A L : InOrder(L, f, NamedIn(f, n)) => InOrder(L, g, NamedIn(g, n + 1))
    BY <1>7, NoNewNames
  <1> QED
    BY <1>1, <1>2, <1>4, <1>5, <1>6, <1>8

\* A line of a server's block.
LEMMA ListsServer ==
    ASSUME NEW s, NEW f, NEW g, NEW n \in Nat, NEW l, Read(s, f, n), Lists(s, f, n), s.pc = "server",
           Agree(f, g, n), g[n + 1] = l, GoodLine(l)
    PROVE  Lists(ServerLine(s, l), g, n + 1)
  <1> DEFINE t == ServerLine(s, l)
             c == s.config
             skip == Empty(l) \/ l.kw = "#"
             given == \/ l.kw \in ServerStrings \cup ServerNumbers
                      \/ l.kw = "sslavailable" /\ Flag(l) # -1
  <1>0. Fit(c) /\ RulesIn(c.rulesets, f, n) /\ InOrder(c.trustedmaclist, f, NamedIn(f, n))
    BY DEF Read, Lists
  <1>1. PICK j \in 1 .. n : OpenIn(f, n + 1) = {j} /\ f[j].kw = "authserver"
    BY DEF Read, Within
  <1>2. t.pc # "ruleset" /\ (t.config = c \/ t.config = WithServer(s))
    <2>1. t = IF Closes(l) THEN State("read", WithServer(s), NoBlock) ELSE
              IF skip THEN s ELSE
              IF given THEN State("server", c, SetInServer(s.block, l))
              ELSE State("exited", c, s.block)
      BY Zenon DEF ServerLine
    <2> HIDE DEF t, skip, given
    <2> QED
      BY <2>1, StateParts DEF c
  <1>3. SameLists(c, t.config)
    <2>1. SameLists(c, c)
      BY DEF SameLists
    <2>2. SameLists(c, WithServer(s))
      BY <1>0, <2>1, OthersKeepLists DEF WithServer
    <2> HIDE DEF t, c
    <2> QED
      BY <1>2, <2>1, <2>2
  <1>4. \A name : ~AddsRule(g, n + 1, name)
    <2>1. InBlock(g, n + 1) \in {0, j} /\ g[j].kw = "authserver"
      BY <1>1, ListsInside
    <2> QED
      BY <2>1 DEF AddsRule, OpensRuleset
  <1>5. RulesIn(c.rulesets, g, n + 1)
    BY <1>0, <1>4, NoRule
  <1>6. InOrder(c.trustedmaclist, g, NamedIn(g, n + 1))
    BY <1>0, <1>1, ListsInside
  <1> HIDE DEF t
  <1>7. Lists(t, g, n + 1)
    BY <1>2, <1>3, <1>5, <1>6 DEF Lists, SameLists
  <1> QED
    BY <1>7 DEF t

\* A line of a rule set.
LEMMA ListsRules ==
    ASSUME NEW s, NEW f, NEW g, NEW n \in Nat, NEW l, Read(s, f, n), Lists(s, f, n), s.pc = "ruleset",
           Agree(f, g, n), g[n + 1] = l, GoodLine(l)
    PROVE  Lists(RuleLine(s, l), g, n + 1)
  <1> DEFINE t == RuleLine(s, l)
             c == s.config
             skip == Empty(l) \/ l.kw = "#"
             name == s.block.ruleset
             R == _parse_firewall_rule(c.rulesets, name, l.arg)
             d == Put(c, "rulesets", R)
             N == NamedIn(g, n + 1)
  <1>0. Fit(c) /\ RulesIn(c.rulesets, f, n) /\ InOrder(c.trustedmaclist, f, NamedIn(f, n))
    BY DEF Read, Lists
  <1>1. PICK j \in 1 .. n : OpenIn(f, n + 1) = {j} /\ f[j].kw = "firewallruleset"
    BY DEF Read, Within
  <1>2. OpensRuleset(f[j]) /\ name = Value(f[j])
    BY <1>1 DEF Lists
  <1>3. \/ Closes(l) /\ t = State("read", c, NoBlock)
        \/ ~Closes(l) /\ skip /\ t = s
        \/ ~Closes(l) /\ ~skip /\ l.kw = "firewallrule" /\ t = State("ruleset", d, s.block)
        \/ ~Closes(l) /\ ~skip /\ l.kw # "firewallrule" /\ t = State("exited", c, s.block)
    <2>1. d = [s.config EXCEPT !.rulesets = _parse_firewall_rule(@, s.block.ruleset, l.arg)]
      BY DEF Put
    <2> DEFINE e == [s.config EXCEPT !.rulesets = _parse_firewall_rule(@, s.block.ruleset, l.arg)]
    <2>2. t = IF Closes(l) THEN State("read", c, NoBlock) ELSE
              IF skip THEN s ELSE
              IF l.kw = "firewallrule" THEN State("ruleset", e, s.block)
              ELSE State("exited", c, s.block)
      BY Zenon DEF RuleLine
    <2>3. d = e
      BY <2>1
    <2> HIDE DEF t, skip, d, e, c
    <2> QED
      BY <2>2, <2>3
  <1>4. InOrder(c.trustedmaclist, g, N)
    BY <1>0, <1>1, ListsInside
  <1>5. /\ ~Opens(l) => InBlock(g, n + 1) = j
        /\ Opens(l) => InBlock(g, n + 1) = 0
        /\ j # 0 /\ g[j] = f[j] /\ OpenIn(g, n + 1) = {j}
    BY <1>1, ListsInside
  <1>6. AddsRule(g, n + 1, name) <=> l.kw = "firewallrule" /\ ~Closes(l) /\ Accepted(l.arg)
    <2>1. l.kw = "firewallrule" => ~Opens(l)
      BY DEF Opens
    <2> QED
      BY <1>2, <1>5, <2>1 DEF AddsRule
  <1>7. \A other : AddsRule(g, n + 1, other) => other = name
    BY <1>2, <1>5 DEF AddsRule
  <1>8. Accepted(l.arg) <=> ParseRule(l.arg).target # "invalid"
    BY RuleMeans DEF Accepted
  <1>9. d.rulesets = R /\ d.trustedmaclist = c.trustedmaclist
    <2>1. "rulesets" \in Fields /\ "trustedmaclist" \in Fields /\ DOMAIN c = Fields
      BY <1>0 DEF Fields, Fit
    <2> HIDE DEF R, c
    <2> QED
      BY <2>1, PutKeeps
  <1>10. ASSUME AddsRule(g, n + 1, name)
         PROVE  RulesIn(t.config.rulesets, g, n + 1) /\ t.config.trustedmaclist = c.trustedmaclist
    <2>1. l.kw = "firewallrule" /\ ~Closes(l) /\ ~skip /\ ParseRule(l.arg).target # "invalid"
      BY <1>6, <1>8, <1>10 DEF Empty, Nothing
    <2>2. RulesIn(R, g, n + 1)
      <3> HIDE DEF c, name
      <3> QED
        BY <1>0, <1>10, <2>1, NewRule
    <2> HIDE DEF t, skip, d, c, R
    <2>3. t.config = d
      BY <1>3, <2>1, StateParts
    <2> QED
      BY <1>9, <2>2, <2>3
  <1>11. ASSUME ~AddsRule(g, n + 1, name)
         PROVE  RulesIn(t.config.rulesets, g, n + 1) /\ t.config.trustedmaclist = c.trustedmaclist
    <2>1. RulesIn(c.rulesets, g, n + 1)
      BY <1>0, <1>7, <1>11, NoRule
    <2>2. l.kw = "firewallrule" /\ ~Closes(l) => R = c.rulesets
      BY <1>6, <1>8, <1>11 DEF _parse_firewall_rule
    <2> HIDE DEF t, skip, d, R
    <2>3. t.config = c \/ (t.config = d /\ l.kw = "firewallrule" /\ ~Closes(l))
      BY <1>3, StateParts DEF c
    <2> HIDE DEF c
    <2> QED
      BY <1>9, <2>1, <2>2, <2>3
  <1>12. RulesIn(t.config.rulesets, g, n + 1) /\ t.config.trustedmaclist = c.trustedmaclist
    BY <1>10, <1>11
  <1>13. ASSUME t.pc = "ruleset"
         PROVE  \A i \in OpenIn(g, (n + 1) + 1) : OpensRuleset(g[i]) /\ t.block.ruleset = Value(g[i])
    <2>1. ~Closes(l) /\ (skip \/ l.kw = "firewallrule") /\ t.block = s.block
      <3> HIDE DEF t, skip, d, c
      <3> QED
        BY <1>3, <1>13, StateParts
    <2>2. ~Opens(l)
      BY <2>1 DEF Empty, Opens
    <2>3. OpenIn(g, n + 2) = {j} /\ (n + 1) + 1 = n + 2
      BY <1>5, <2>1, <2>2, OpenNext
    <2> QED
      BY <1>2, <1>5, <2>1, <2>3
  <1> HIDE DEF t, c
  <1>14. Lists(t, g, n + 1)
    BY <1>4, <1>12, <1>13 DEF Lists
  <1> QED
    BY <1>14 DEF t

\* Any line, also one that ends the program.
LEMMA ListsNextLine ==
    ASSUME NEW s, NEW f, NEW g, NEW n \in Nat, NEW l, Read(s, f, n), Lists(s, f, n),
           Agree(f, g, n), g[n + 1] = l, GoodLine(l)
    PROVE  Lists(Taken(s, l), g, n + 1)
  <1>1. s.pc \in Reading
    BY DEF Read, Within, Reading
  <1>2. CASE s.pc = "read"
    <2>1. Taken(s, l) = TopLine(s, l)
      BY <1>2 DEF Taken
    <2> QED
      BY <1>2, <2>1, ListsTop
  <1>3. CASE s.pc = "server"
    <2>1. Taken(s, l) = ServerLine(s, l)
      BY <1>3 DEF Taken
    <2> QED
      BY <1>3, <2>1, ListsServer
  <1>4. CASE s.pc = "ruleset"
    <2>1. Taken(s, l) = RuleLine(s, l)
      BY <1>4 DEF Taken
    <2> QED
      BY <1>4, <2>1, ListsRules
  <1> QED
    BY <1>1, <1>2, <1>3, <1>4 DEF Reading

-----------------------------------------------------------------------------

\* Whatever has been read, up to the line that ends the program.
ListsInv ==
    /\ Lists(Here, file, at)
    /\ pc = "commandline" => config.rulesets = <<>> /\ config.trustedmaclist = <<>>

\* The lists are empty at first.
LEMMA NoLists ==
    ASSUME NEW c, NEW b, NEW f, NEW p, p # "ruleset", c.rulesets = <<>>, c.trustedmaclist = <<>>
    PROVE  Lists(State(p, c, b), f, 0)
  <1>1. State(p, c, b).pc = p /\ State(p, c, b).config = c
    BY StateParts
  <1>2. \A name : RulesOf(f, 0, name) = {}
    BY DEF RulesOf
  <1>3. NamedIn(f, 0) = {}
    BY DEF NamedIn, TopIn
  <1>4. <<>> \in Seq({}) /\ Len(<<>>) = 0
    OBVIOUS
  <1>5. RulesIn(<<>>, f, 0)
    BY <1>2, <1>4 DEF RulesIn
  <1>6. InOrder(<<>>, f, {})
    BY <1>4 DEF InOrder
  <1> QED
    BY <1>1, <1>3, <1>5, <1>6 DEF Lists

\* The invariant holds at the start,
LEMMA ListsInvInit == Init => ListsInv
  <1> SUFFICES ASSUME Init PROVE ListsInv
    OBVIOUS
  <1>1. config.rulesets = <<>> /\ config.trustedmaclist = <<>> /\ at = 0 /\ pc = "commandline"
    BY DEF Init, config_init
  <1>2. Lists(State(pc, config, block), file, 0)
    BY <1>1, NoLists
  <1> QED
    BY <1>1, <1>2 DEF ListsInv, Here

\* and every step keeps it.
LEMMA ListsInvNext == RestartInv /\ FileInv /\ ListsInv /\ Next => ListsInv'
  <1> SUFFICES ASSUME RestartInv, FileInv, ListsInv, Next PROVE ListsInv'
    OBVIOUS
  <1>0. SequencesInv /\ Here.pc = pc /\ Here.config = config /\ Here' = State(pc', config', block')
    BY StateParts DEF RestartInv, Here
  <1>1. CASE ParseOption
    <2>1. pc = "commandline" /\ UNCHANGED <<at, file>> /\ pc' \in {"commandline", "exited"}
      BY <1>1 DEF ParseOption
    <2>2. config' = config \/ (config' = SetByOption(config, Head(left))
                               /\ Head(left).c \in TakesArgument \cup {"f", "s"})
      BY <1>1 DEF ParseOption
    <2>3. Fit(config) /\ config.rulesets = <<>> /\ config.trustedmaclist = <<>> /\ at = 0
      BY <1>0, <2>1 DEF FileInv, ListsInv, SequencesInv
    <2>4. config'.rulesets = <<>> /\ config'.trustedmaclist = <<>>
      BY <2>2, <2>3, OthersKeepLists DEF SameLists
    <2> DEFINE p == pc'
               c == config'
               b == block'
               g == file'
    <2>5. Lists(State(p, c, b), g, 0)
      <3>1. p # "ruleset" /\ c.rulesets = <<>> /\ c.trustedmaclist = <<>>
        BY <2>1, <2>4
      <3> HIDE DEF p, c, b, g
      <3> QED
        BY <3>1, NoLists
    <2> QED
      BY <1>0, <2>1, <2>3, <2>4, <2>5 DEF ListsInv
  <1>2. CASE CommandLineEnds
    <2>1. pc = "commandline" /\ pc' = "read" /\ UNCHANGED <<text, file, at, config, block>>
      BY <1>2 DEF CommandLineEnds
    <2>2. config.rulesets = <<>> /\ config.trustedmaclist = <<>> /\ at = 0
      BY <1>0, <2>1 DEF ListsInv, SequencesInv
    <2>3. Lists(State("read", config, block), file, 0)
      BY <2>2, NoLists
    <2> QED
      BY <1>0, <2>1, <2>2, <2>3 DEF ListsInv
  <1>3. CASE ReadsLine
    <2>1. PICK l \in text : /\ Reads(l)
                            /\ pc \in Reading
                            /\ Here' = Taken(Here, l)
      BY <1>3 DEF ReadsLine
    <2>2. at \in Nat /\ file \in Seq(LineType) /\ at \in 0 .. Len(file) /\ l \in LineType
      BY <1>0, <2>1 DEF SequencesInv
    <2>3. at' = at + 1 /\ file'[at + 1] = l /\ Agree(file, file', at)
      <3>1. CASE generation = 1
        <4>1. at' = at + 1 /\ file' = Append(file, l) /\ at = Len(file)
          BY <1>0, <2>1, <3>1 DEF Reads, SequencesInv
        <4> QED
          BY <2>2, <4>1 DEF Agree
      <3>2. CASE generation = 2
        BY <2>1, <3>2 DEF Reads, Agree
      <3> QED
        BY <1>0, <3>1, <3>2 DEF SequencesInv
    <2>4. Read(Here, file, at) /\ Lists(Here, file, at) /\ GoodLine(l)
      BY <2>1 DEF FileInv, ListsInv
    <2> DEFINE h == Here
               t == Here'
               g == file'
    <2>5. /\ Read(h, file, at) /\ Lists(h, file, at) /\ t = Taken(h, l)
          /\ g[at + 1] = l /\ Agree(file, g, at)
      BY <2>1, <2>3, <2>4
    <2>6. Lists(t, g, at + 1)
      <3> HIDE DEF h, t, g
      <3> QED
        BY <2>2, <2>4, <2>5, ListsNextLine
    <2>7. pc' # "commandline"
      <3>1. pc \in Reading
        BY <2>1
      <3>2. ReadLine \/ ReadServerLine \/ ServerEnds \/ ReadRule \/ RulesetEnds => pc' # "commandline"
        BY <3>1 DEF ReadLine, ReadServerLine, ServerEnds, ReadRule, RulesetEnds
      <3>3. ~ParseOption /\ ~CommandLineEnds /\ ~Reexecute
        BY <3>1 DEF ParseOption, CommandLineEnds, Reexecute, Reading
      <3>4. FileEnds => pc' # "commandline"
        BY DEF FileEnds
      <3> QED
        BY <3>2, <3>3, <3>4 DEF Next
    <2> QED
      BY <2>3, <2>6, <2>7 DEF ListsInv
  <1>4. CASE BlockEnds
    <2>1. /\ pc \in Reading /\ pc' = "eof" /\ config' = Ended(Here)
          /\ UNCHANGED <<text, file, at>>
      BY <1>4 DEF BlockEnds, Reading
    <2>2. Fit(config)
      BY <1>0, <2>1 DEF FileInv, Read
    <2>3. SameLists(config, config')
      <3>1. config' = config \/ config' = AppendServer(config, Here.block)
        BY <1>0, <2>1 DEF Ended, WithServer
      <3> QED
        BY <2>2, <3>1, OthersKeepLists DEF SameLists
    <2>4. Here'.pc = "eof" /\ Here'.config = config'
      BY <1>0, <2>1, StateParts
    <2> QED
      BY <1>0, <2>1, <2>3, <2>4 DEF ListsInv, Lists, SameLists
  <1>5. CASE FileEnds
    <2>1. pc \in {"eof", "read"} /\ UNCHANGED <<text, file, at>> /\ pc' \in {"running", "exited"}
      BY <1>5 DEF FileEnds
    <2>2. Fit(config)
      BY <1>0, <2>1 DEF FileInv, Read, Holds, Reading
    <2>3. SameLists(config, config')
      BY <1>5, <2>2, OthersKeepLists DEF FileEnds, SameLists
    <2>4. Here'.pc = pc' /\ Here'.config = config'
      BY <1>0, <2>1, StateParts
    <2> QED
      BY <1>0, <2>1, <2>3, <2>4 DEF ListsInv, Lists, SameLists
  <1>6. CASE Reexecute
    <2>1. pc' = "commandline" /\ config' = config_init /\ at' = 0
      BY <1>6 DEF Reexecute
    <2>2. config_init.rulesets = <<>> /\ config_init.trustedmaclist = <<>>
      BY DEF config_init
    <2> DEFINE b == block'
               g == file'
    <2>3. Lists(State("commandline", config_init, b), g, 0)
      <3> HIDE DEF b, g
      <3> QED
        BY <2>2, NoLists
    <2> QED
      BY <1>0, <2>1, <2>2, <2>3 DEF ListsInv
  <1> QED
    BY <1>1, <1>2, <1>3, <1>4, <1>5, <1>6, Steps

\* The invariant gives the rules,
LEMMA ListsInvRules == RestartInv /\ ListsInv => RulesAsWritten
  <1> SUFFICES ASSUME RestartInv, ListsInv PROVE RulesAsWritten
    OBVIOUS
  <1> DEFINE R == config.rulesets
             Written(s) ==
                LET lines == RuleLines(s.name) IN
                /\ Len(s.rules) = Cardinality(lines)
                /\ \A i \in lines :
                     LET w == file[i].arg
                         rule == s.rules[Cardinality({k \in lines : k <= i})]
                     IN  rule = ParseRule(w) /\ (InGrammar(w) /\ Len(w) > 1 => Means(w, rule))
             Names == {Value(file[j]) : j \in {j \in Lines : /\ OpensRuleset(file[j])
                                                             /\ RuleLines(Value(file[j])) # {}}}
  <1>1. RulesIn(R, file, at) /\ at \in Nat
    BY StateParts DEF ListsInv, Lists, Here, RestartInv, SequencesInv
  <1>2. \A i \in Lines : BlockOf(i) = InBlock(file, i)
    BY AsInFile
  <1>3. \A name : RuleLines(name) = RulesOf(file, at, name)
    BY <1>2 DEF RuleLines, RulesOf, AddsRule, Lines
  <1>4. DOMAIN R = 1 .. Len(R)
    BY <1>1 DEF RulesIn
  <1>5. \A m, n \in DOMAIN R : R[m].name = R[n].name => m = n
    BY <1>1, <1>4 DEF RulesIn
  <1>6. {R[n].name : n \in DOMAIN R} = Names
    <2>1. ASSUME NEW n \in DOMAIN R PROVE R[n].name \in Names
      <3> DEFINE name == R[n].name
      <3>1. RulesOf(file, at, name) # {}
        BY <1>1, <1>4, <2>1 DEF RulesIn, IsSet
      <3> HIDE DEF name
      <3>2. PICK i \in 1 .. at : AddsRule(file, i, name)
        BY <3>1 DEF RulesOf
      <3> DEFINE j == InBlock(file, i)
      <3>3. j \in Lines /\ OpensRuleset(file[j]) /\ Value(file[j]) = name
        <4>1. j # 0 /\ j \in 0 .. (i - 1)
          BY <3>2, InBlockRange DEF AddsRule
        <4>2. j \in 1 .. at
          BY <1>1, <4>1
        <4> QED
          BY <3>2, <4>2 DEF AddsRule, Lines
      <3> HIDE DEF j
      <3>4. RuleLines(Value(file[j])) # {}
        BY <1>3, <3>1, <3>3
      <3>5. name \in Names
        BY <3>3, <3>4
      <3> QED
        BY <3>5 DEF name
    <2>2. ASSUME NEW name \in Names PROVE \E n \in DOMAIN R : R[n].name = name
      <3>1. RulesOf(file, at, name) # {}
        BY <1>3, <2>2
      <3> QED
        BY <1>1, <1>4, <3>1 DEF RulesIn
    <2> HIDE DEF Names, R
    <2> QED
      BY <2>1, <2>2
  <1>7. ASSUME NEW n \in DOMAIN R PROVE Written(R[n])
    <2> DEFINE s == R[n]
               H == RulesOf(file, at, s.name)
    <2>1. Ranked(s.rules, RuleOf(file, at), H)
      BY <1>1, <1>4, <1>7 DEF RulesIn, IsSet
    <2>2. H \subseteq 1 .. at /\ RuleLines(s.name) = H
      BY <1>3 DEF RulesOf
    <2> HIDE DEF s, H
    <2>3. Len(s.rules) = Cardinality(H)
      BY <2>1 DEF Ranked
    <2>4. ASSUME NEW i \in H
          PROVE  s.rules[Cardinality({k \in H : k <= i})] = ParseRule(file[i].arg)
      BY <2>1, <2>2 DEF Ranked, RuleOf
    <2>5. \A w : InGrammar(w) /\ Len(w) > 1 => Means(w, ParseRule(w))
      BY RuleMeans
    <2> DEFINE K == RuleLines(s.name)
    <2>6. K = H
      BY <2>2
    <2>7. Written(s) <=>
            /\ Len(s.rules) = Cardinality(K)
            /\ \A i \in K :
                 /\ s.rules[Cardinality({k \in K : k <= i})] = ParseRule(file[i].arg)
                 /\ InGrammar(file[i].arg) /\ Len(file[i].arg) > 1 =>
                      Means(file[i].arg, s.rules[Cardinality({k \in K : k <= i})])
      BY Zenon
    <2> HIDE DEF K, Written
    <2>8. Written(s)
      BY <2>3, <2>4, <2>5, <2>6, <2>7
    <2> QED
      BY <2>8 DEF s
  <1> HIDE DEF Written, Names
  <1>8. RulesAsWritten <=> /\ \A m, n \in DOMAIN R : R[m].name = R[n].name => m = n
                           /\ {R[n].name : n \in DOMAIN R} = Names
                           /\ \A n \in DOMAIN R : Written(R[n])
    BY Zenon DEF RulesAsWritten, Written, Names
  <1> QED
    BY <1>5, <1>6, <1>7, <1>8

\* and the trusted MACs.
LEMMA ListsInvTrusted == RestartInv /\ ListsInv => TrustedAsListed
  <1> SUFFICES ASSUME RestartInv, ListsInv PROVE TrustedAsListed
    OBVIOUS
  <1> DEFINE L == config.trustedmaclist
             N == NamedIn(file, at)
  <1>1. InOrder(L, file, N)
    BY StateParts DEF ListsInv, Lists, Here
  <1>2. Named = N /\ \A x : Entry(x) = EntryIn(file, x)
    <2>1. TopLines("trustedmaclist") = TopIn(file, at, "trustedmaclist")
      BY AsInFile DEF NumberOptions
    <2> QED
      BY <2>1 DEF Named, NamedIn, NamedOn, Entry, EntryIn
  <1>3. DOMAIN L = 1 .. Len(L)
    BY <1>1 DEF InOrder
  <1> HIDE DEF L, N
  <1>4. {L[n] : n \in DOMAIN L} = {Entry(x) : x \in Named}
    BY <1>1, <1>2, <1>3 DEF InOrder
  <1>5. ASSUME NEW m \in DOMAIN L, NEW n \in DOMAIN L, m < n
        PROVE  \/ L[m] = L[n] /\ n = m + 1
               \/ \E x \in Named : /\ Entry(x) = L[m]
                                   /\ \A y \in Named : Entry(y) = L[n] => Precedes(x, y)
    <2>1. (L[m] = L[n] /\ n = m + 1) \/ FirstNamed(file, N, L[m], L[n])
      BY <1>1, <1>3, <1>5 DEF InOrder
    <2> QED
      BY <1>2, <2>1 DEF FirstNamed
  <1> QED
    BY <1>4, <1>5 DEF TrustedAsListed, L

\* The invariants, with the lists.
LEMMA ListsInvariant == Spec => [](RestartInv /\ FileInv /\ ListsInv)
  <1>1. RestartInv /\ FileInv /\ ListsInv /\ [Next]_vars => ListsInv'
    <2> SUFFICES ASSUME RestartInv, FileInv, ListsInv, [Next]_vars PROVE ListsInv'
      OBVIOUS
    <2>1. CASE UNCHANGED vars
      BY <2>1 DEF vars, ListsInv, Here
    <2> QED
      BY <2>1, ListsInvNext
  <1> QED
    BY <1>1, BothInvariants, ListsInvInit, PTL DEF Spec

-----------------------------------------------------------------------------

\* The process that a restart executes comes by the configuration of the one it
\* replaces, but for -f and the mark of -x, for every command line and every file
\* (parse_commandline, append_x_restartargv, config_read, config_validate).
THEOREM RestartKeepsItsConfiguration == Spec => []RestartKeepsConfiguration
  BY BothInvariants, RestartInvImplies, PTL

\* The auth servers are the blocks of the file that name a host, in its order, each
\* with the options of its own block, a text being all words of its line
\* (parse_auth_server).
THEOREM ServersAreWritten == Spec => []ServersAsWritten
  BY BothInvariants, FileInvServers, PTL

\* The gateway starts only when every line of the file has a keyword of the place
\* where it stands, strict flags are yes or no, no list of MACs breaks off before its
\* last entry, and the file says what has no default; every option of the top level
\* then has the last value that is one.  It does start with refused rules, numbers
\* that are none and lines without a value (config_read, config_validate).
THEOREM StartsWhenComplete == Spec => []StartsComplete
  BY BothInvariants, FileInvComplete, PTL

\* There is one rule set for every name that has a rule, with the rules of all its
\* blocks in the order of the file, and each of two words or more means what the
\* documentation of its syntax says; a target alone always rejects, against the
\* documentation (_parse_firewall_rule).
THEOREM RulesAreWritten == Spec => []RulesAsWritten
  BY ListsInvariant, ListsInvRules, PTL

\* The trusted MACs are the entries of all lists, each up to its first bad one, in the
\* order they are first named; a bad entry with others after it ends the process
\* (parse_trusted_mac_list).
THEOREM TrustedAreListed == Spec => []TrustedAsListed
  BY ListsInvariant, ListsInvTrusted, PTL
=============================================================================
