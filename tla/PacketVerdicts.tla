--------------------------- MODULE PacketVerdicts ---------------------------
(***************************************************************************)
(* What the tables of PacketFilter do to a packet of a client, and what    *)
(* the configuration asks for.                                             *)
(***************************************************************************)
EXTENDS PacketFilter

-----------------------------------------------------------------------------
(* The way of a packet that comes in from the gateway interface.           *)

Packets == [mac : Macs, to : Hosts, port : Ports, state : {"new", "established", "invalid"}]

Matches(r, s) == \A f \in DOMAIN r.when : s[f] = r.when[f]

\* The first verdict ends the way of a packet through a table; a mark is
\* overwritten by those that follow.
Silence == "none"
Given(kind, answers) ==
    LET given == {i \in DOMAIN answers : answers[i] # Silence}
    IN  IF given = {} THEN Silence
        ELSE answers[IF kind = "mark" THEN Max(given) ELSE Min(given)]

\* What a chain says of a packet; called is what those it may jump to say.
\* A chain that is silent returns to the rule after the jump.
Answer(kind, r, s, called) ==
    CASE ~Matches(r, s) -> Silence
      [] Matches(r, s) /\ r.do[1] = kind -> r.do[2]
      [] Matches(r, s) /\ r.do[1] = "go" -> called[r.do[2]]
      [] OTHER -> Silence
Chain(kind, rules, s, called) ==
    Given(kind, [i \in DOMAIN rules |-> Answer(kind, rules[i], s, called)])

\* No packet is more than four jumps away from the chain of the system.
Deeper(kind, t, s, called) ==
    [c \in Own |-> IF Exists(tables, <<t, c>>) THEN Chain(kind, tables[<<t, c>>], s, called)
                   ELSE Silence]
Called(kind, t, s) ==
    Deeper(kind, t, s, Deeper(kind, t, s, Deeper(kind, t, s,
        Deeper(kind, t, s, [c \in Own |-> Silence]))))
Through(kind, t, c, s) == Chain(kind, tables[<<t, c>>], s, Called(kind, t, s))

\* Only the first packet of a connection meets the nat table.
Verdict(p) ==
    LET s == [mac |-> p.mac, to |-> p.to, port |-> p.port, state |-> p.state,
              mark |-> Through("mark", "mangle", "PREROUTING", p)]
        nat == IF p.state = "new" THEN Through("end", "nat", "PREROUTING", s) ELSE Silence
    IN  IF nat \in {"PORTAL", "PROXY"} THEN nat
        ELSE IF p.to = Router THEN "LOCAL"
        ELSE Through("end", "filter", "FORWARD", s)

-----------------------------------------------------------------------------
(* Properties.                                                             *)

\* The first rule of the configured set that decides about a packet.
Decides(r, p) == r.do[1] = "end" /\ Matches(r, p)
Says(set, p) ==
    LET rules == conf.rules[set]
        deciding == {i \in DOMAIN rules : Decides(rules[i], p)}
    IN  IF deciding = {} THEN Silence ELSE rules[Min(deciding)].do[2]
First(answers) == Given("end", answers)

\* The mark 0 that a restart gives an inherited client without access undoes
\* that of the trusted and that of the passthrough.  The passthrough counts for
\* those whom nothing else marks: its chain is the first, although a comment in
\* iptables_fw_init calls for the last place.
Passthrough == authdown /\ HasAuthDown(conf)
Class(m) == IF clients[m] # NoMark THEN clients[m]
            ELSE IF m \in zeroed THEN NoMark
            ELSE IF m \in Trusted THEN "known"
            ELSE IF Passthrough THEN "down" ELSE NoMark
SetOf(class) == CASE class = "known" -> "known-users" [] class = "probation" -> "validating-users"
                  [] class = "down" -> "auth-is-down" [] OTHER -> "unknown-users"

\* What the configuration asks for: the servers, then the global rules and
\* the hosts opened, then the set of the client's class, then the set of the
\* unknown, and everything else is rejected, where wifidog.conf announces a
\* default of DROP.  A host opened by the 404 handler counts as asked for, be
\* it a subdomain of one that a rule blocks; after a request for 0.0.0.0/0 all
\* of them do.
Opened(p) == p.to \in ToSet(opened) \/ Anywhere \in ToSet(opened)
Policy(p) ==
    IF p.state = "invalid" THEN "DROP"
    ELSE First(<<IF p.to \in servers THEN "ACCEPT" ELSE Silence,
                 Says("global", p),
                 IF Opened(p) THEN "ACCEPT" ELSE Silence,
                 Says(SetOf(Class(p.mac)), p), Says("unknown-users", p), "REJECT">>)

\* While the gateway serves, whatever clients it has inherited and whatever order
\* clients, servers, hosts and the passthrough came and went in, a packet that is
\* not for the gateway and is not sent to the portal or the proxy meets the
\* configured policy of its class (iptables_fw_init and fw_init, the three tables
\* taken together).
VerdictsFollowPolicy ==
    mode = "serve" =>
        \A p \in Packets : LET v == Verdict(p) IN
            v \notin {"LOCAL", "PORTAL", "PROXY"} => v = Policy(p)

\* A new web connection of a client without access, to a host that is neither an
\* auth server nor opened, by its name or with all others, reaches the portal
\* unless some global rule accepts it, be it after one that rejects it: the nat
\* table has no rules that reject.  A client with access never reaches the portal.
PortalForStrangers ==
    mode = "serve" =>
        \A p \in Packets : (p.state = "new" /\ p.port = "web" /\ p.to # Router) =>
            (Verdict(p) = "PORTAL" <=>
                /\ Class(p.mac) = NoMark
                /\ p.to \notin servers /\ ~Opened(p)
                /\ \A i \in DOMAIN conf.rules["global"] : LET r == conf.rules["global"][i] IN
                       ~(Decides(r, p) /\ r.do[2] = "ACCEPT"))
=============================================================================
