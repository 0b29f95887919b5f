---------------------------- MODULE PacketFilter ----------------------------
(***************************************************************************)
(* The netfilter tables as fw_iptables.c builds, changes and removes them, *)
(* and what they do to a packet of a client.  One iptables command of      *)
(* iptables_fw_init and iptables_fw_destroy is one step, and the process   *)
(* may be killed between any two of them.                                  *)
(***************************************************************************)
EXTENDS Integers, SequencesExt

CONSTANTS
    Macs, Trusted,      \* machines, and those of the TrustedMACList
    Hosts, Router,      \* destinations; Router is gw_address
    Ports,              \* "web" is tcp port 80
    ServerHosts,        \* addresses auth servers may have
    Anywhere,           \* 0.0.0.0/0, the mask of a rule without an address
    Within,             \* [name -> masks equal to it or to a domain above it]
    Resolves,           \* [name -> destinations iptables may take it for]
    Configs,            \* [rules: rule set name -> rules, proxy: BOOLEAN]
    Gone,               \* a chain that does not exist
    MaxOpened           \* bound on the calls of fw_allow_host

RuleSets == {"global", "validating-users", "known-users", "unknown-users",
             "locked-users", "auth-is-down"}
NoMark == "none"
Names == Hosts \cup {Anywhere}

\* Rules as _parse_firewall_rule makes them: of an address and a port, where
\* given, and a target.
ConfRules ==
    [when : UNION {[fields -> Hosts \cup Ports] : fields \in SUBSET {"to", "port"}},
     do : ({"end"} \X {"ACCEPT", "DROP", "REJECT"}) \cup ({"note"} \X {"LOG", "ULOG"})]

ASSUME ConfigAssumption ==
    /\ Trusted \subseteq Macs /\ Router \in Hosts /\ "web" \in Ports
    /\ ServerHosts \subseteq Hosts \ {Router} /\ MaxOpened \in Nat
    /\ Anywhere \notin Hosts
    /\ Within \in [Names -> SUBSET Names] /\ Resolves \in [Names -> SUBSET Names]
    /\ IsFiniteSet(Macs) /\ IsFiniteSet(ServerHosts)
    /\ \A c \in Configs : /\ DOMAIN c.rules = RuleSets /\ c.proxy \in BOOLEAN
                         /\ \A s \in RuleSets : c.rules[s] \in Seq(ConfRules)

VARIABLES
    conf,           \* the configuration file, of this process or of the next
    tables,         \* <<table, chain>> to its rules, or Gone
    mode,           \* what the gateway process is doing
    todo,           \* the iptables commands it has still to run
    clients,        \* the mark of each machine in the client list
    zeroed,         \* machines inherited without a mark, marked 0 by a rule
    authdown,       \* the passthrough is set
    servers,        \* addresses of auth servers
    opened          \* ghost: destinations opened by the 404 handler, a sequence

dataVars == <<clients, zeroed, authdown, servers, opened>>
vars == <<conf, tables, mode, todo, dataVars>>

-----------------------------------------------------------------------------
(* A rule matches the fields it names.  Targets: go to a chain, set the    *)
(* mark, note (LOG, TCPMSS) or end the table with a verdict.               *)

If(field, value) == [f \in {field} |-> value]
Always == [f \in {} |-> Gone]
Web(mark) == [f \in {"port", "mark"} |-> IF f = "port" THEN "web" ELSE mark]
Rule(when, kind, arg) == [when |-> when, do |-> <<kind, arg>>]
Jump(when, chain) == Rule(when, "go", chain)
End(when, verdict) == Rule(when, "end", verdict)

Builtin == {<<"mangle", "PREROUTING">>, <<"mangle", "POSTROUTING">>,
            <<"nat", "PREROUTING">>, <<"filter", "FORWARD">>}
Own == {"Trusted", "Outgoing", "Incoming", "AuthDown", "Router", "Internet", "Global",
        "Unknown", "AuthServs", "Locked", "Validate", "Known"}
Chains == Builtin \cup ({"mangle", "nat", "filter"} \X Own)

\* What other programs have put into the chains of the system.
Foreign == Rule(Always, "note", "foreign")
Base == [c \in Chains |-> IF c \in Builtin THEN <<Foreign>> ELSE Gone]

\* All rules there may be; a missing chain is none of the lists of them.
Fields == {"mac", "to", "port", "state", "mark"}
Marks == {"probation", "known", "locked", "down", "zero"}
Values == Macs \cup Hosts \cup Ports \cup Marks \cup {"invalid"}
Targets == ({"go"} \X Own) \cup ({"mark"} \X Marks)
           \cup ({"end"} \X {"ACCEPT", "DROP", "REJECT", "PORTAL", "PROXY"})
           \cup ({"note"} \X {"LOG", "ULOG", "TCPMSS", "foreign"})
RuleType == [when : UNION {[fields -> Values] : fields \in SUBSET Fields}, do : Targets]
ASSUME GoneAssumption == Gone \notin Seq(RuleType)

-----------------------------------------------------------------------------
(* iptables commands.  One that cannot be done fails and changes nothing.  *)

New(t, c) == [op |-> "N", at |-> <<t, c>>, rule |-> Foreign]
App(t, c, r) == [op |-> "A", at |-> <<t, c>>, rule |-> r]
Ins(t, c, r) == [op |-> "I", at |-> <<t, c>>, rule |-> r]
Flush(t, c) == [op |-> "F", at |-> <<t, c>>, rule |-> Foreign]
Del(t, c) == [op |-> "X", at |-> <<t, c>>, rule |-> Foreign]
Nothing(t, c) == [op |-> "none", at |-> <<t, c>>, rule |-> Foreign]
Mention(t, c, name) == [op |-> "M", at |-> <<t, c>>, rule |-> Jump(Always, name)]

Exists(tb, c) == tb[c] # Gone
Refers(tb, c, name) == Exists(tb, c) /\ \E i \in DOMAIN tb[c] : tb[c][i].do = <<"go", name>>
Linked(tb, t, name) == \E c \in Chains : c[1] = t /\ Refers(tb, c, name)
Target(tb, t, r) == r.do[1] = "go" => Exists(tb, <<t, r.do[2]>>)

\* iptables_do_command
Done(tb, cmd) ==
    LET c == cmd.at IN
    CASE cmd.op = "N" /\ ~Exists(tb, c) -> [tb EXCEPT ![c] = <<>>]
      [] cmd.op = "A" /\ Exists(tb, c) /\ Target(tb, c[1], cmd.rule) -> [tb EXCEPT ![c] = Append(@, cmd.rule)]
      [] cmd.op = "I" /\ Exists(tb, c) /\ Target(tb, c[1], cmd.rule) -> [tb EXCEPT ![c] = <<cmd.rule>> \o @]
      [] cmd.op = "F" /\ Exists(tb, c) -> [tb EXCEPT ![c] = <<>>]
      [] cmd.op = "X" /\ tb[c] = <<>> /\ ~Linked(tb, c[1], c[2]) -> [tb EXCEPT ![c] = Gone]
      [] cmd.op = "M" /\ Exists(tb, c) ->
             [tb EXCEPT ![c] = RemoveFirstMatch(@, LAMBDA r : r.do = cmd.rule.do)]
      [] OTHER -> tb

-----------------------------------------------------------------------------
(* iptables_fw_init.                                                       *)

Only(condition, cmds) == IF condition THEN cmds ELSE <<>>
Each(S, cmd(_)) == LET s == SetToSeq(S) IN [i \in DOMAIN s |-> cmd(s[i])]
HasAuthDown(cf) == cf.rules["auth-is-down"] # <<>>

\* iptables_compile: there is no command for a rule of the nat table that
\* drops or rejects.
Compiled(t, c, r) == IF t = "nat" /\ r.do[2] \in {"DROP", "REJECT"} THEN Nothing(t, c) ELSE App(t, c, r)
Load(cf, t, set, c) == [i \in DOMAIN cf.rules[set] |-> Compiled(t, c, cf.rules[set][i])]

\* For each server first the command for the filter table, then that for nat.
ServerRule(h) == End(If("to", h), "ACCEPT")
SetAuthServers(S) ==
    LET s == SetToSeq(S)
    IN  [i \in 1 .. (2 * Len(s)) |->
           App(IF i % 2 = 1 THEN "filter" ELSE "nat", "AuthServs", ServerRule(s[(i + 1) \div 2]))]

\* Mutant: the passthrough mark is set after the others and overrides them.
MangleDownLast(cf) ==
    <<New("mangle", "Trusted"), New("mangle", "Outgoing"), New("mangle", "Incoming")>>
    \o Only(HasAuthDown(cf), <<New("mangle", "AuthDown"),
                               Ins("mangle", "PREROUTING", Jump(Always, "AuthDown"))>>)
    \o <<Ins("mangle", "PREROUTING", Jump(Always, "Outgoing")),
         Ins("mangle", "PREROUTING", Jump(Always, "Trusted")),
         Ins("mangle", "POSTROUTING", Jump(Always, "Incoming"))>>
    \o Each(Trusted, LAMBDA m : App("mangle", "Trusted", Rule(If("mac", m), "mark", "known")))
MangleTable(cf) ==
    <<New("mangle", "Trusted"), New("mangle", "Outgoing"), New("mangle", "Incoming")>>
    \o Only(HasAuthDown(cf), <<New("mangle", "AuthDown")>>)
    \o <<Ins("mangle", "PREROUTING", Jump(Always, "Outgoing")),
         Ins("mangle", "PREROUTING", Jump(Always, "Trusted"))>>
    \o Only(HasAuthDown(cf), <<Ins("mangle", "PREROUTING", Jump(Always, "AuthDown"))>>)
    \o <<Ins("mangle", "POSTROUTING", Jump(Always, "Incoming"))>>
    \o Each(Trusted, LAMBDA m : App("mangle", "Trusted", Rule(If("mac", m), "mark", "known")))

NatTable(cf) ==
    <<New("nat", "Outgoing"), New("nat", "Router"), New("nat", "Internet"),
      New("nat", "Global"), New("nat", "Unknown"), New("nat", "AuthServs")>>
    \o Only(HasAuthDown(cf), <<New("nat", "AuthDown")>>)
    \o <<App("nat", "PREROUTING", Jump(Always, "Outgoing")),
         App("nat", "Outgoing", Jump(If("to", Router), "Router")),
         App("nat", "Router", End(Always, "ACCEPT")),
         App("nat", "Outgoing", Jump(Always, "Internet"))>>
    \o Only(cf.proxy, <<App("nat", "Internet", End(Web("known"), "PROXY")),
                        App("nat", "Internet", End(Web("probation"), "PROXY"))>>)
    \o <<App("nat", "Internet", End(If("mark", "known"), "ACCEPT")),
         App("nat", "Internet", End(If("mark", "probation"), "ACCEPT")),
         App("nat", "Internet", Jump(Always, "Unknown")),
         App("nat", "Unknown", Jump(Always, "AuthServs")),
         App("nat", "Unknown", Jump(Always, "Global"))>>
    \o Only(HasAuthDown(cf), <<App("nat", "Unknown", Jump(Always, "AuthDown")),
                               App("nat", "AuthDown", End(If("mark", "down"), "ACCEPT"))>>)
    \o <<App("nat", "Unknown", End(If("port", "web"), "PORTAL"))>>

FilterTable(cf) ==
    <<New("filter", "Internet"), New("filter", "AuthServs"), New("filter", "Locked"),
      New("filter", "Global"), New("filter", "Validate"), New("filter", "Known"),
      New("filter", "Unknown")>>
    \o Only(HasAuthDown(cf), <<New("filter", "AuthDown")>>)
    \o <<Ins("filter", "FORWARD", Jump(Always, "Internet")),
         App("filter", "Internet", End(If("state", "invalid"), "DROP")),
         App("filter", "Internet", Rule(Always, "note", "TCPMSS")),
         App("filter", "Internet", Jump(Always, "AuthServs"))>>
    \o SetAuthServers(servers)
    \o <<App("filter", "Internet", Jump(If("mark", "locked"), "Locked"))>>
    \o Load(cf, "filter", "locked-users", "Locked")
    \o <<App("filter", "Internet", Jump(Always, "Global"))>>
    \o Load(cf, "filter", "global", "Global") \o Load(cf, "nat", "global", "Global")
    \o <<App("filter", "Internet", Jump(If("mark", "probation"), "Validate"))>>
    \o Load(cf, "filter", "validating-users", "Validate")
    \o <<App("filter", "Internet", Jump(If("mark", "known"), "Known"))>>
    \o Load(cf, "filter", "known-users", "Known")
    \o Only(HasAuthDown(cf), <<App("filter", "Internet", Jump(If("mark", "down"), "AuthDown"))>>)
    \o Load(cf, "filter", "auth-is-down", "AuthDown")
    \o <<App("filter", "Internet", Jump(Always, "Unknown"))>>
    \o Load(cf, "filter", "unknown-users", "Unknown")
    \o <<App("filter", "Unknown", End(Always, "REJECT"))>>

InitScript == MangleTable(conf) \o NatTable(conf) \o FilterTable(conf)

-----------------------------------------------------------------------------
(* iptables_fw_destroy.                                                    *)

Wipe(t, cs) == [i \in DOMAIN cs |-> Flush(t, cs[i])] \o [i \in DOMAIN cs |-> Del(t, cs[i])]
Down == Only(HasAuthDown(conf), <<"AuthDown">>)
UnlinkDown == Only(HasAuthDown(conf), <<Mention("mangle", "PREROUTING", "AuthDown")>>)

\* Mutant: the link from POSTROUTING is forgotten.
DestroyForgetsIncoming ==
    <<Mention("mangle", "PREROUTING", "Trusted"), Mention("mangle", "PREROUTING", "Outgoing")>>
    \o UnlinkDown
    \o Wipe("mangle", <<"Trusted", "Outgoing">> \o Down \o <<"Incoming">>)
    \o <<Mention("nat", "PREROUTING", "Outgoing")>>
    \o Wipe("nat", <<"AuthServs", "Outgoing">> \o Down \o <<"Router", "Internet", "Global", "Unknown">>)
    \o <<Mention("filter", "FORWARD", "Internet")>>
    \o Wipe("filter", <<"Internet", "AuthServs", "Locked", "Global", "Validate", "Known", "Unknown">> \o Down)
DestroyScript ==
    <<Mention("mangle", "PREROUTING", "Trusted"), Mention("mangle", "PREROUTING", "Outgoing")>>
    \o UnlinkDown
    \o <<Mention("mangle", "POSTROUTING", "Incoming")>>
    \o Wipe("mangle", <<"Trusted", "Outgoing">> \o Down \o <<"Incoming">>)
    \o <<Mention("nat", "PREROUTING", "Outgoing")>>
    \o Wipe("nat", <<"AuthServs", "Outgoing">> \o Down \o <<"Router", "Internet", "Global", "Unknown">>)
    \o <<Mention("filter", "FORWARD", "Internet")>>
    \o Wipe("filter", <<"Internet", "AuthServs", "Locked", "Global", "Validate", "Known", "Unknown">> \o Down)

-----------------------------------------------------------------------------
(* The life of the process.                                                *)

Init ==
    /\ conf \in Configs
    /\ tables = Base
    /\ mode = "off" /\ todo = <<>>
    /\ clients = [m \in Macs |-> NoMark] /\ zeroed = {} /\ authdown = FALSE
    /\ servers = {} /\ opened = <<>>

\* What the process knew ends with it.
Forget ==
    /\ clients' = [m \in Macs |-> NoMark] /\ zeroed' = {} /\ authdown' = FALSE
    /\ servers' = {} /\ opened' = <<>>

\* main_loop: "Reset the firewall (if WiFiDog crashed)".
Start ==
    /\ mode = "off"
    /\ mode' = "reset" /\ todo' = DestroyScript
    /\ UNCHANGED <<conf, tables, dataVars>>

\* While no gateway runs its file may be edited.
Edit ==
    /\ mode = "off"
    /\ conf' \in Configs \ {conf}
    /\ UNCHANGED <<tables, mode, todo, dataVars>>

\* iptables_fw_destroy_mention deletes one rule and calls itself again.
Command ==
    /\ todo # <<>>
    /\ tables' = Done(tables, Head(todo))
    /\ todo' = IF Head(todo).op = "M" /\ tables' # tables THEN todo ELSE Tail(todo)
    /\ UNCHANGED <<conf, mode, dataVars>>

\* fw_init.  In the process of a restart the clients inherited from the parent
\* follow, with a rule each: also those without access, whose rule sets the
\* mark 0.
MarkRule(m, k) == Rule(If("mac", m), "mark", k)
Restored(marks) == {m \in Macs : marks[m] # NoMark}
RestoreScript(marks, S) ==
    Each(S \cup Restored(marks),
         LAMBDA m : App("mangle", "Outgoing",
                        MarkRule(m, IF marks[m] = NoMark THEN "zero" ELSE marks[m])))

FwInit ==
    /\ mode = "reset" /\ todo = <<>>
    /\ mode' = "init"
    /\ clients' \in [Macs -> {NoMark, "probation", "known"}]
    /\ zeroed' \in SUBSET (Macs \ Restored(clients'))
    /\ todo' = InitScript \o RestoreScript(clients', zeroed')
    /\ UNCHANGED <<conf, tables, authdown, servers, opened>>

\* No external interface: the process exits.  What it runs for the inherited
\* clients fails, for want of the chain.
FwInitFails ==
    /\ mode = "reset" /\ todo = <<>>
    /\ mode' = "off"
    /\ UNCHANGED <<conf, tables, todo, dataVars>>

Serve ==
    /\ mode = "init" /\ todo = <<>>
    /\ mode' = "serve"
    /\ UNCHANGED <<conf, tables, todo, dataVars>>

\* termination_handler; the other threads run until the process exits.
Stop ==
    /\ mode = "serve"
    /\ mode' = "stop" /\ todo' = DestroyScript
    /\ UNCHANGED <<conf, tables, dataVars>>

Exit ==
    /\ mode = "stop" /\ todo = <<>>
    /\ mode' = "off" /\ Forget
    /\ UNCHANGED <<conf, tables, todo>>

\* Killed between two commands.
Crash ==
    /\ mode # "off"
    /\ mode' = "off" /\ todo' = <<>> /\ Forget
    /\ UNCHANGED <<conf, tables>>

-----------------------------------------------------------------------------
(* The other threads.                                                      *)

Runs == mode \in {"serve", "stop"}
Run(tb) == tables' = tb /\ UNCHANGED <<conf, mode, todo>>

WithoutMark(tb, m, k) ==
    LET c == <<"mangle", "Outgoing">> IN
    IF Exists(tb, c) THEN [tb EXCEPT ![c] = RemoveFirst(@, MarkRule(m, k))] ELSE tb

\* fw_allow: the rule of the new mark is appended, then that of the old removed,
\* unless the old mark is 0.
Allow(m, k) ==
    /\ Runs /\ clients[m] # k
    /\ clients' = [clients EXCEPT ![m] = k]
    /\ tables' = WithoutMark(Done(tables, App("mangle", "Outgoing", MarkRule(m, k))), m, clients[m])
    /\ UNCHANGED <<conf, mode, todo, zeroed, authdown, servers, opened>>

\* fw_deny, which removes the rule of the mark 0 of a machine that has no other.
Deny(m) ==
    /\ Runs
    /\ \/ /\ clients[m] # NoMark
          /\ clients' = [clients EXCEPT ![m] = NoMark]
          /\ tables' = WithoutMark(tables, m, clients[m])
          /\ UNCHANGED zeroed
       \/ /\ clients[m] = NoMark /\ m \in zeroed
          /\ zeroed' = zeroed \ {m}
          /\ tables' = WithoutMark(tables, m, "zero")
          /\ UNCHANGED clients
    /\ UNCHANGED <<conf, mode, todo, authdown, servers, opened>>

\* http_callback_404: the Host of the request is the mask of a rule of the global
\* set, any rule, or a subdomain of it; fw_allow_host appends to both Global
\* chains what iptables takes the name for.  The mask of an ipset is taken for
\* the name of a host.  That the gateway believes itself online is left open.
MaskOf(r) == IF "to" \in DOMAIN r.when THEN r.when.to ELSE Anywhere
Named(h) == \E i \in DOMAIN conf.rules["global"] : MaskOf(conf.rules["global"][i]) \in Within[h]
OpenRule(d) == End(IF d = Anywhere THEN Always ELSE If("to", d), "ACCEPT")
AllowHost(h) ==
    /\ Runs /\ Named(h) /\ Len(opened) < MaxOpened
    /\ \E d \in Resolves[h] :
         /\ opened' = Append(opened, d)
         /\ Run(Done(Done(tables, App("nat", "Global", OpenRule(d))),
                     App("filter", "Global", OpenRule(d))))
    /\ UNCHANGED <<clients, zeroed, authdown, servers>>

\* ping: fw_set_authdown and fw_set_authup.
AuthDown ==
    /\ Runs /\ ~authdown
    /\ authdown' = TRUE
    /\ Run(IF HasAuthDown(conf) THEN Done(tables, App("mangle", "AuthDown", Rule(Always, "mark", "down")))
           ELSE tables)
    /\ UNCHANGED <<clients, zeroed, servers, opened>>
\* Mutant: the flag is reset and the rule stays.
AuthUpKeepsRule ==
    /\ Runs /\ authdown
    /\ authdown' = FALSE
    /\ UNCHANGED <<conf, tables, mode, todo, clients, zeroed, servers, opened>>
AuthUp ==
    /\ Runs /\ authdown
    /\ authdown' = FALSE
    /\ Run(IF HasAuthDown(conf) THEN Done(tables, Flush("mangle", "AuthDown")) ELSE tables)
    /\ UNCHANGED <<clients, zeroed, servers, opened>>

\* An auth server has another address: fw_clear_authservers and
\* fw_set_authservers, which flush the chain of a table and fill it again.
Refill(tb, c, rules) == IF Exists(tb, c) THEN [tb EXCEPT ![c] = rules] ELSE tb
AddressChanges(S) ==
    /\ Runs /\ S # servers
    /\ servers' = S
    /\ LET rules == Each(S, ServerRule) IN
       Run(Refill(Refill(tables, <<"filter", "AuthServs">>, rules), <<"nat", "AuthServs">>, rules))
    /\ UNCHANGED <<clients, zeroed, authdown, opened>>

Next ==
    \/ Start \/ Command \/ FwInit \/ FwInitFails \/ Serve \/ Stop \/ Exit \/ Crash
    \/ \E m \in Macs : Deny(m) \/ \E k \in {"probation", "known"} : Allow(m, k)
    \/ \E h \in Names : AllowHost(h)
    \/ AuthDown \/ AuthUp
    \/ \E S \in SUBSET ServerHosts : AddressChanges(S)

Spec == Init /\ [][Next]_vars

\* The same with a file that changes.
EditedSpec == Init /\ [][Next \/ Edit]_vars

-----------------------------------------------------------------------------
\* "Reset the firewall (if WiFiDog crashed)": whatever a killed or stopped
\* process has left, at whatever command, a new one starts from the rules of
\* the other programs, all of them and nothing else (fw_destroy in main_loop).
StartsClean == (mode = "reset" /\ todo = <<>>) => tables = Base
=============================================================================
