--------------------------- MODULE MCPacketFilter ---------------------------
(* Instances of PacketFilter.                                              *)
EXTENDS PacketVerdicts

CONSTANTS Auth, Listed, Sub, Blocked, Elsewhere

To(h, verdict) == End(If("to", h), verdict)
ToPort(p, verdict) == End(If("port", p), verdict)

\* As in wifidog.conf, with a host allowed and one blocked for everybody.  In
\* one of the files a rule that allows the blocked host comes too late.
Sample == [s \in RuleSets |->
    CASE s = "global" -> <<Rule(Always, "note", "LOG"), To(Listed, "ACCEPT"), To(Blocked, "REJECT")>>
      [] s = "unknown-users" -> <<ToPort("dns", "ACCEPT")>>
      [] s \in {"known-users", "validating-users"} -> <<End(Always, "ACCEPT")>>
      [] s = "locked-users" -> <<End(Always, "REJECT")>>
      [] OTHER -> <<>>]
TwoConfigs == {[rules |-> Sample, proxy |-> TRUE],
               [rules |-> [Sample EXCEPT !["auth-is-down"] = <<ToPort("web", "ACCEPT")>>,
                                        !["global"] = @ \o <<To(Blocked, "ACCEPT")>>], proxy |-> FALSE]}

Domains == [h \in Names |-> IF h = Sub THEN {Sub, Listed} ELSE {h}]

\* The listed domain and its subdomain are at an address the rules do not have;
\* the name of an ipset would be, too.
Addresses == [h \in Names |-> IF h \in {Listed, Sub} THEN {Elsewhere} ELSE {h}]
=============================================================================
