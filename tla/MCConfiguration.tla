-------------------------- MODULE MCConfiguration --------------------------
(***************************************************************************)
(* Instances of Configuration for TLC.                                     *)
(***************************************************************************)
EXTENDS Configuration

Line(kw, arg) == [kw |-> kw, arg |-> arg]
Rule(w) == Line("firewallrule", w)

\* What a file needs before the gateway starts with it; the end of the file
\* may stand for the closing brace.
Mandatory == {Line("gatewayinterface", <<"br0">>), Line("authserver", <<"{">>),
              Line("hostname", <<"auth1">>)}

\* Each set of lines is about one parser: server blocks, rule sets, the
\* lists, the options that may come from elsewhere, and what is refused.
ServerText ==
    Mandatory \cup {Line("}", <<>>), Line("path", <<"/a", "b">>), Line("httpport", <<"80", "text">>),
                    Line("hostname", <<"auth2", "}">>), Line("sslavailable", <<"yes">>),
                    Line("sslavailable", <<"yes", "text">>)}
RuleText ==
    {Line("firewallruleset", <<"global", "{">>), Line("firewallruleset", <<"users", "{">>),
     Line("}", <<>>), Rule(<<"allow">>), Rule(<<"drop", "udp">>),
     Rule(<<"block", "port", "text">>), Rule(<<"log", "to-ipset", "servers">>),
     Rule(<<"ulog", "udp", "port-range", "80:443">>),
     Rule(<<"allow", "tcp", "port", "80", "to", "10.0.0.0/8">>)}
ListText ==
    {Line("trustedmaclist", <<"m1", "m2">>), Line("trustedmaclist", <<"m2">>),
     Line("trustedmaclist", <<"m3", Blank, "m1">>), Line("trustedmaclist", <<"m2", "text", "m3">>),
     Line("trustedmaclist", <<"m3", "text">>),
     Line("popularservers", <<"h1", Blank, "h2">>), Line("trustedmaclist", <<>>)}
OptionText ==
    Mandatory \cup {Line("daemon", <<"yes">>), Line("daemon", <<"no">>), Line("daemon", <<"text">>),
                    Line("wdctlsocket", <<"sock2">>), Line("gatewayport", <<"text">>),
                    Line("gatewayport", <<"80">>)}
RefusedText ==
    Mandatory \cup {Line("", <<>>), Line("#", <<"text">>), Line("httpdusername", <<"user">>),
                    Line("sslusesni", <<"text">>), Line("httpdpassword", <<"word">>)}

Option(c, optarg) == [c |-> c, optarg |-> optarg]
CommandLines == {<<>>, <<Option("f", NULL), Option("w", "sock1")>>,
                 <<Option("i", "sock3"), Option("s", NULL), Option("i", "sock4")>>}

AllStarts ==
    (CommandLines \X {OptionText})
    \cup ({<<>>} \X {ServerText, RuleText, ListText, RefusedText})
    \cup {<<<<Option("s", NULL), Option("h", NULL)>>, RuleText>>}
=============================================================================
