--------------------------- MODULE Configuration ---------------------------
(***************************************************************************)
(* How the gateway comes by its configuration: config_init, the command    *)
(* line (parse_commandline in commandline.c), the configuration file       *)
(* (config_read and the parsers it calls in conf.c) and config_validate,   *)
(* as gw_main runs them at start-up and again in the process that a        *)
(* "wdctl restart" executes with restartargv.                              *)
(*                                                                         *)
(* A line of the file is a keyword and the words that follow it.  In the   *)
(* comma separated lists a word is an entry, and Blank stands for a space  *)
(* after a comma.  A line may carry a closing brace as its last word.  An  *)
(* option of the top level takes the first word, one of a server the whole *)
(* rest of the line.                                                       *)
(***************************************************************************)
EXTENDS Integers, FiniteSets, SequencesExt

CONSTANTS
    Starts,         \* <<argv, text>>: a command line, and the lines a file is
                    \* written with
    MaxLines        \* bound on the length of a file

Blank == "_"
Nothing == ""                \* a text of no characters
NULL == "NULL"

StringOptions == {"externalinterface", "gatewayid", "gatewayinterface", "gatewayaddress",
                  "httpdname", "httpdrealm", "httpdusername", "httpdpassword",
                  "wdctlsocket", "htmlmessagefile", "sslcertpath", "sslallowedcipherlist"}
NumberOptions == {"gatewayport", "httpdmaxconn", "checkinterval", "clienttimeout",
                  "syslogfacility", "proxyport"}
StrictFlags == {"sslpeerverification", "sslusesni"}
ServerStrings == {"hostname", "path", "loginscriptpathfragment", "portalscriptpathfragment",
                  "msgscriptpathfragment", "pingscriptpathfragment", "authscriptpathfragment"}
ServerNumbers == {"sslport", "httpport"}

\* Words with a meaning of their own; every other word is just text.
Numerals == {"0", "1", "80", "443", "2060"}
ValidMacs == {"m1", "m2", "m3"}

OptionType == [c : STRING, optarg : STRING]
LineType == [kw : STRING, arg : Seq(STRING \ {NULL})]

Opens(l) == l.kw \in {"authserver", "firewallruleset"} /\ l.arg # <<>>
Closes(l) == l.kw = "}" \/ \E i \in DOMAIN l.arg : l.arg[i] = "}"

\* NULL is no word.  A line that has both the keyword of a block and a
\* closing brace would open a block or close one, depending on the lines
\* before it: the files have none.
ASSUME StartsAssumption ==
    /\ MaxLines \in Nat
    /\ \A s \in Starts :
         /\ s[1] \in Seq(OptionType)
         /\ s[2] \subseteq LineType
         /\ \A l \in s[2] : ~(Opens(l) /\ Closes(l))

VARIABLES
    pc,             \* the function gw_main is in
    argv,           \* the options of the command line, as getopt delivers them
    left,           \* the options parse_commandline has still to see
    restartargv,    \* what it has put into restartargv
    text,           \* the lines the file is written with
    file,           \* the lines of the file
    at,             \* the number of lines read
    config,         \* the configuration
    block,          \* the server or rule set whose block is being read
    generation,     \* 1, or 2 in the process executed by wdctl_restart
    former          \* ghost: the configuration the first process ran with

vars == <<pc, argv, left, restartargv, text, file, at, config, block, generation, former>>

-----------------------------------------------------------------------------
(* config_init.                                                            *)

DefaultOf(o) == IF o \in {"gatewayinterface", "httpdusername", "httpdpassword"} THEN NULL
                ELSE "default"

config_init ==
    [daemon |-> -1, log_stderr |-> 1, restart_orig_pid |-> 0,
     configfile |-> "default", internal_sock |-> "default", arp_table_path |-> "default",
     pidfile |-> NULL, debuglevel |-> "default", log_syslog |-> 0, deltatraffic |-> 0,
     options |-> [o \in StringOptions \cup NumberOptions |-> DefaultOf(o)],
     flags |-> [o \in StrictFlags |-> IF o = "sslusesni" THEN 0 ELSE 1],
     auth_servers |-> <<>>, rulesets |-> <<>>,
     trustedmaclist |-> <<>>, popular_servers |-> <<>>]

-----------------------------------------------------------------------------
(* parse_commandline.  An option is [c, optarg]: its letter, and its       *)
(* argument or NULL.                                                       *)

TakesArgument == {"c", "w", "d", "x", "i", "a", "p"}

Field == [c |-> "configfile", d |-> "debuglevel", i |-> "internal_sock",
          a |-> "arp_table_path", p |-> "pidfile"]

SetByOption(c, o) ==
    CASE o.c = "w" -> [c EXCEPT !.options["wdctlsocket"] = o.optarg]
      [] o.c = "f" -> [c EXCEPT !.daemon = 0, !.log_stderr = 1]
      [] o.c = "s" -> [c EXCEPT !.log_syslog = 1]
      [] o.c = "x" -> [c EXCEPT !.restart_orig_pid = 1]
      [] OTHER -> [c EXCEPT ![Field[o.c]] = o.optarg]

\* Mutant: the path of the internal socket is not handed on.
SkipInternal == {"f", "x", "i"}
SkipOnRestart == {"f", "x"}

ParseOption ==
    /\ pc = "commandline" /\ left # <<>>
    /\ LET o == Head(left) IN
         \/ /\ o.c \in TakesArgument \cup {"f", "s"}
            /\ config' = SetByOption(config, o)
            /\ restartargv' = IF o.c \in SkipOnRestart THEN restartargv
                              ELSE Append(restartargv, o)
            /\ left' = Tail(left)
            /\ UNCHANGED pc
         \/ /\ o.c \notin TakesArgument \cup {"f", "s"}    \* -h, -v and unknown options
            /\ pc' = "exited"
            /\ UNCHANGED <<config, restartargv, left>>
    /\ UNCHANGED <<argv, text, file, at, block, generation, former>>

\* getopt is done; three NULLs follow what was copied to restartargv.
CommandLineEnds ==
    /\ pc = "commandline" /\ left = <<>>
    /\ pc' = "read"
    /\ UNCHANGED <<argv, left, restartargv, text, file, at, config, block, generation, former>>

-----------------------------------------------------------------------------
(* The next line of the file: any line the first time, the same one again  *)
(* in the process that restarts.                                           *)

Reads(l) ==
    /\ at' = at + 1
    /\ \/ /\ generation = 1 /\ at < MaxLines
          /\ file' = Append(file, l)
       \/ /\ generation = 2 /\ at < Len(file)
          /\ l = file[at + 1]
          /\ UNCHANGED file

EndOfFile == generation = 1 \/ at = Len(file)

Value(l) == IF l.arg = <<>> THEN Nothing ELSE Head(l.arg)
Empty(l) == l.kw = Nothing /\ l.arg = <<>>

parse_boolean_value(w) == CASE w \in {"yes", "1"} -> 1
                            [] w \in {"no", "0"} -> 0
                            [] OTHER -> -1

\* atoi, in the server block.
Number(w) == IF w \in Numerals THEN w ELSE "0"

-----------------------------------------------------------------------------
(* The lists.                                                              *)

\* config_read cuts the value at the first space; what follows the comma
\* before it is an empty entry.
UpToBlank(arg) ==
    IF Contains(arg, Blank)
    THEN SubSeq(arg, 1, SelectInSeq(arg, LAMBDA w : w = Blank) - 1) \o <<Nothing>>
    ELSE arg

\* One entry of parse_trusted_mac_list: the walk compares every element but
\* the last, and the first one also when it is the last.
\* Mutant: an entry is compared with the first element only.
AddTrustedFirst(list, mac) ==
    IF list # <<>> /\ list[1] = mac THEN list ELSE Append(list, mac)
AddTrusted(list, mac) ==
    IF \E i \in DOMAIN list : list[i] = mac /\ (i = 1 \/ i < Len(list))
    THEN list ELSE Append(list, mac)

\* The entries before the first one that is not a MAC address: there the
\* function returns.
BeforeInvalid(entries) ==
    LET i == SelectInSeq(entries, LAMBDA w : w \notin ValidMacs)
    IN  IF i = 0 THEN entries ELSE SubSeq(entries, 1, i - 1)

\* The list breaks off before its last entry.  strsep has then moved the
\* pointer that parse_trusted_mac_list frees before it returns: the C library
\* finds no block there and ends the process.  After the last entry the
\* pointer is NULL.
BreaksOff(l) ==
    LET entries == UpToBlank(l.arg)
        i == SelectInSeq(entries, LAMBDA w : w \notin ValidMacs)
    IN  l.kw = "trustedmaclist" /\ i # 0 /\ i < Len(entries)

\* The entries one after the other.
AddAll(list, macs) ==
    LET after[k \in 0 .. Len(macs)] == IF k = 0 THEN list ELSE AddTrusted(after[k - 1], macs[k])
    IN  after[Len(macs)]

parse_trusted_mac_list(list, arg) == AddAll(list, BeforeInvalid(UpToBlank(arg)))

parse_popular_servers(list, arg) ==
    Reverse(SelectSeq(arg, LAMBDA w : w \notin {Blank, Nothing})) \o list

-----------------------------------------------------------------------------
(* _parse_firewall_rule.  A position is the number of a word; one past the *)
(* last word is the end of the string.                                     *)

WordAt(w, p) == IF p <= Len(w) THEN w[p] ELSE Nothing
Ends(w, p) == p >= Len(w)              \* what TO_NEXT_WORD sets finished by
NextWord(w, p) == IF p > Len(w) THEN p ELSE p + 1

TargetOf == [block |-> "REJECT", drop |-> "DROP", allow |-> "ACCEPT",
             log |-> "LOG", ulog |-> "ULOG"]

Protocols == {"tcp", "udp", "icmp"}
Ports == Numerals \cup {"80:443", Nothing}     \* digits and colons, or nothing at all

\* The rule a text stands for; "invalid" as its target when it is refused.
ParseRule(w) ==
    LET token == WordAt(w, 1)
        target == IF token = "block" \/ Ends(w, 1) THEN "REJECT"
                  ELSE IF token \in DOMAIN TargetOf THEN TargetOf[token] ELSE "invalid"
        p1 == NextWord(w, 1)
        hasProto == WordAt(w, p1) \in Protocols
        p2 == IF hasProto THEN NextWord(w, p1) ELSE p1
        hasPort == WordAt(w, p2) \in {"port", "port-range"}
        p3 == NextWord(w, p2)
        port == WordAt(w, p3)
        p4 == IF hasPort THEN NextWord(w, p3) ELSE p2
        finished == Ends(w, p4 - 1)
        hasMask == ~finished /\ ~Ends(w, p4)
    IN  [target |-> IF hasPort /\ port \notin Ports THEN "invalid" ELSE target,
         protocol |-> IF hasProto THEN WordAt(w, p1) ELSE NULL,
         port |-> IF hasPort THEN port ELSE NULL,
         mask |-> IF hasMask THEN WordAt(w, NextWord(w, p4)) ELSE "0.0.0.0/0",
         mask_is_ipset |-> hasMask /\ WordAt(w, p4) = "to-ipset"]

\* The rule goes to the end of the rule set of that name, which is made at
\* the end of the list when it is the first one.
\* Mutant: the rule goes to the front.
PrependRule(sets, name, w) ==
    LET rule == ParseRule(w)
        i == SelectInSeq(sets, LAMBDA s : s.name = name)
    IN  IF rule.target = "invalid" THEN sets
        ELSE IF i = 0 THEN Append(sets, [name |-> name, rules |-> <<rule>>])
        ELSE [sets EXCEPT ![i].rules = <<rule>> \o @]
_parse_firewall_rule(sets, name, w) ==
    LET rule == ParseRule(w)
        i == SelectInSeq(sets, LAMBDA s : s.name = name)
    IN  IF rule.target = "invalid" THEN sets
        ELSE IF i = 0 THEN Append(sets, [name |-> name, rules |-> <<rule>>])
        ELSE [sets EXCEPT ![i].rules = Append(@, rule)]

-----------------------------------------------------------------------------
(* config_read, one line per step.                                         *)

\* Daemon counts only while nothing has decided it.
SetDaemon(c, w) ==
    LET value == parse_boolean_value(w)
    IN  IF c.daemon # -1 \/ value = -1 THEN c
        ELSE [c EXCEPT !.daemon = value, !.log_stderr = 1 - value]

\* The options whose line only sets a value; sscanf leaves a number alone
\* when the text is none, and DeltaTraffic takes -1 from a bad text.
SetByLine(c, l) ==
    CASE l.kw \in StringOptions -> [c EXCEPT !.options[l.kw] = Value(l)]
      [] l.kw \in NumberOptions -> IF Value(l) \in Numerals
                                   THEN [c EXCEPT !.options[l.kw] = Value(l)]
                                   ELSE c
      [] l.kw \in StrictFlags -> [c EXCEPT !.flags[l.kw] = parse_boolean_value(Value(l))]
      [] l.kw = "deltatraffic" -> [c EXCEPT !.deltatraffic = parse_boolean_value(Value(l))]
      [] l.kw = "daemon" -> SetDaemon(c, Value(l))
      [] l.kw = "trustedmaclist" -> [c EXCEPT !.trustedmaclist = parse_trusted_mac_list(@, l.arg)]
      [] l.kw = "popularservers" -> [c EXCEPT !.popular_servers = parse_popular_servers(@, l.arg)]

PlainOptions == StringOptions \cup NumberOptions
                \cup {"deltatraffic", "daemon", "trustedmaclist", "popularservers"}

\* The text of a server's option is a sequence of words; no line gives Unset.
Unset == <<NULL>>
ServerDefaults == [o \in ServerStrings \cup ServerNumbers \cup {"sslavailable"} |->
                     CASE o = "hostname" -> Unset [] o = "sslavailable" -> 0
                       [] o \in ServerStrings \ {"hostname"} -> <<"default">>
                       [] o \in ServerNumbers -> "default"]
NoBlock == [ruleset |-> NULL, server |-> ServerDefaults]

\* A line outside the blocks.  Comments, and options without a value, are
\* passed over; what is no option of the top level ends the program.
ReadLine ==
    /\ pc = "read"
    /\ \E l \in text :
         /\ Reads(l)
         /\ \/ /\ l.arg = <<>> \/ l.kw = "#"
               /\ UNCHANGED <<pc, config, block>>
            \/ /\ l.arg # <<>>
               /\ \/ l.kw \in PlainOptions
                  \/ l.kw \in StrictFlags /\ parse_boolean_value(Value(l)) # -1
               /\ config' = SetByLine(config, l)
               /\ pc' = IF BreaksOff(l) THEN "exited" ELSE pc
               /\ UNCHANGED block
            \/ /\ l.arg # <<>> /\ l.kw = "authserver"
               /\ pc' = "server"
               /\ UNCHANGED <<config, block>>
            \/ /\ l.arg # <<>> /\ l.kw = "firewallruleset"
               /\ pc' = "ruleset"
               /\ block' = [block EXCEPT !.ruleset = Value(l)]
               /\ UNCHANGED config
            \/ /\ l.arg # <<>>
               /\ l.kw \notin PlainOptions \cup {"authserver", "firewallruleset", "#"}
               /\ l.kw \in StrictFlags => parse_boolean_value(Value(l)) = -1
               /\ pc' = "exited"
               /\ UNCHANGED <<config, block>>
    /\ UNCHANGED <<argv, left, restartargv, text, generation, former>>

\* parse_auth_server, the loop.  A text is the whole rest of the line, a flag
\* must be all of it, and atoi stops at the first blank.
Flag(l) == IF Len(l.arg) = 1 THEN parse_boolean_value(Value(l)) ELSE -1
ServerValue(l) == CASE l.kw \in ServerStrings -> l.arg
                    [] l.kw \in ServerNumbers -> Number(Value(l))
                    [] l.kw = "sslavailable" -> Flag(l)
SetInServer(b, l) == [b EXCEPT !.server[l.kw] = ServerValue(l)]

ReadServerLine ==
    /\ pc = "server"
    /\ \E l \in text :
         /\ Reads(l)
         /\ ~Closes(l)
         /\ \/ /\ Empty(l) \/ l.kw = "#"
               /\ UNCHANGED <<pc, block>>
            \/ /\ \/ l.kw \in ServerStrings \cup ServerNumbers
                  \/ l.kw = "sslavailable" /\ Flag(l) # -1
               /\ block' = SetInServer(block, l)
               /\ UNCHANGED pc
            \/ /\ l.kw \notin ServerStrings \cup ServerNumbers \cup {"#"} /\ ~Empty(l)
               /\ l.kw = "sslavailable" => Flag(l) = -1
               /\ pc' = "exited"
               /\ UNCHANGED block
    /\ UNCHANGED <<argv, left, restartargv, text, config, generation, former>>

\* parse_auth_server after the loop, which a line with a brace ends whatever
\* else it says, and so does the end of the file.
\* Mutant: the new server goes to the front of the list.
PrependServer(c, b) == [c EXCEPT !.auth_servers = <<b.server>> \o @]
AppendServer(c, b) == [c EXCEPT !.auth_servers = Append(@, b.server)]

ServerEnds ==
    /\ pc = "server"
    /\ \/ pc' = "read" /\ \E l \in text : Reads(l) /\ Closes(l)
       \/ pc' = "eof" /\ EndOfFile /\ UNCHANGED <<file, at>>
    /\ config' = IF block.server["hostname"] = Unset THEN config ELSE AppendServer(config, block)
    /\ block' = NoBlock
    /\ UNCHANGED <<argv, left, restartargv, text, generation, former>>

ReadRule ==
    /\ pc = "ruleset"
    /\ \E l \in text :
         /\ Reads(l)
         /\ ~Closes(l)
         /\ \/ /\ Empty(l) \/ l.kw = "#"
               /\ UNCHANGED <<pc, config>>
            \/ /\ l.kw = "firewallrule"
               /\ config' = [config EXCEPT !.rulesets =
                               _parse_firewall_rule(@, block.ruleset, l.arg)]
               /\ UNCHANGED pc
            \/ /\ l.kw \notin {"firewallrule", "#"} /\ ~Empty(l)
               /\ pc' = "exited"
               /\ UNCHANGED config
    /\ UNCHANGED <<argv, left, restartargv, text, block, generation, former>>

RulesetEnds ==
    /\ pc = "ruleset"
    /\ \/ pc' = "read" /\ \E l \in text : Reads(l) /\ Closes(l)
       \/ pc' = "eof" /\ EndOfFile /\ UNCHANGED <<file, at>>
    /\ block' = NoBlock
    /\ UNCHANGED <<argv, left, restartargv, text, config, generation, former>>

\* The end of config_read, and config_validate.
HasPassword(c) == c.options["httpdusername"] # NULL => c.options["httpdpassword"] # NULL

\* Mutant: a configuration without a server is let through.
CompleteButServer(c) == c.options["gatewayinterface"] # NULL
Complete(c) == c.options["gatewayinterface"] # NULL /\ c.auth_servers # <<>>

WithPopular(c) ==
    IF c.popular_servers # <<>> THEN c
    ELSE [c EXCEPT !.popular_servers = <<"www.yahoo.com", "www.google.com">>]

FileEnds ==
    /\ pc = "eof" \/ (pc = "read" /\ EndOfFile)
    /\ \/ /\ HasPassword(config) /\ Complete(config)
          /\ config' = WithPopular(config)
          /\ pc' = "running"
       \/ /\ ~(HasPassword(config) /\ Complete(config))
          /\ pc' = "exited"
          /\ UNCHANGED config
    /\ UNCHANGED <<argv, left, restartargv, text, file, at, block, generation, former>>

\* append_x_restartargv, and the execvp of a later wdctl_restart.
Reexecute ==
    /\ pc = "running" /\ generation = 1
    /\ generation' = 2
    /\ former' = config
    /\ argv' = Append(restartargv, [c |-> "x", optarg |-> "pid"])
    /\ left' = argv'
    /\ restartargv' = <<>>
    /\ config' = config_init
    /\ at' = 0
    /\ pc' = "commandline"
    /\ UNCHANGED <<text, file, block>>

-----------------------------------------------------------------------------

Init ==
    /\ \E s \in Starts : argv = s[1] /\ text = s[2]
    /\ left = argv /\ restartargv = <<>>
    /\ file = <<>> /\ at = 0
    /\ config = config_init /\ block = NoBlock
    /\ pc = "commandline" /\ generation = 1 /\ former = config_init

Next ==
    \/ ParseOption \/ CommandLineEnds
    \/ ReadLine \/ ReadServerLine \/ ServerEnds \/ ReadRule \/ RulesetEnds
    \/ FileEnds \/ Reexecute

Spec == Init /\ [][Next]_vars

-----------------------------------------------------------------------------
(* What the file says, read as a whole: block by block and not line by     *)
(* line.                                                                   *)

Lines == 1 .. at

\* The line that opened the block line i is in, 0 outside of all blocks.
BlockOf(i) ==
    LET open == {j \in 1 .. (i - 1) :
                   /\ Opens(file[j])
                   /\ \A k \in (j + 1) .. (i - 1) : ~Closes(file[k])}
    IN  IF open = {} \/ Opens(file[i]) THEN 0 ELSE CHOOSE j \in open : \A k \in open : k <= j

\* The last of the lines in S, which is not empty.
LastOf(S) == CHOOSE i \in S : \A j \in S : j <= i
TopLines(kw) == {i \in Lines : BlockOf(i) = 0 /\ file[i].kw = kw /\ file[i].arg # <<>>}

\* The server of the block that line j opens.
ServerOption(j, o) ==
    LET given == {i \in Lines : BlockOf(i) = j /\ file[i].kw = o /\ ~Closes(file[i])}
    IN  IF given = {} THEN ServerDefaults[o] ELSE ServerValue(file[LastOf(given)])
Server(j) == [o \in DOMAIN ServerDefaults |-> ServerOption(j, o)]

Settled == pc \in {"read", "eof", "running"}

\* The auth servers are the blocks that name a host, in the order of the
\* file, each with the last value of every option its own block gives and
\* the defaults for the others: nothing leaks from one block into the next
\* (parse_auth_server).
Hosted == {j \in Lines : /\ file[j].kw = "authserver" /\ file[j].arg # <<>>
                         /\ ServerOption(j, "hostname") # Unset}
ServersAsWritten ==
    Settled =>
        /\ Len(config.auth_servers) = Cardinality(Hosted)
        /\ \A j \in Hosted :
             config.auth_servers[Cardinality({i \in Hosted : i <= j})] = Server(j)

\* What wifidog.conf says a rule means: (block|drop|allow|log|ulog)
\* [(tcp|udp|icmp) [port X or port-range X:Y]] [to mask], or to-ipset.
Sentence(target, protocol, portWord, port, keyword, mask) ==
    <<target>> \o (IF protocol = NULL THEN <<>> ELSE <<protocol>>)
               \o (IF port = NULL THEN <<>> ELSE <<portWord, port>>)
               \o (IF mask = NULL THEN <<>> ELSE <<keyword, mask>>)
Words(w) == ToSet(w) \cup {NULL}
Means(w, rule) ==
    \E target \in DOMAIN TargetOf, portWord \in {"port", "port-range"},
       keyword \in {"to", "to-ipset"}, mask \in Words(w) :
        /\ w = Sentence(target, rule.protocol, portWord, rule.port, keyword, mask)
        /\ rule.mask = IF mask = NULL THEN "0.0.0.0/0" ELSE mask
        /\ rule.mask_is_ipset = (mask # NULL /\ keyword = "to-ipset")
        /\ rule.target = TargetOf[target]
InGrammar(w) ==
    \E target \in DOMAIN TargetOf \cap Words(w), protocol \in (Protocols \cup {NULL}) \cap Words(w),
       portWord \in {"port", "port-range"}, port \in ((Ports \ {Nothing}) \cup {NULL}) \cap Words(w),
       keyword \in {"to", "to-ipset"}, mask \in Words(w) :
        /\ w = Sentence(target, protocol, portWord, port, keyword, mask)
        /\ protocol = NULL => port = NULL

\* The lines that add a rule to a rule set: none that the grammar allows is
\* refused.
Accepted(w) == ParseRule(w).target # "invalid" \/ InGrammar(w)
OpensRuleset(l) == l.kw = "firewallruleset" /\ l.arg # <<>>
RuleLines(name) ==
    {i \in Lines : LET j == BlockOf(i) IN
        /\ j # 0 /\ OpensRuleset(file[j]) /\ Value(file[j]) = name
        /\ file[i].kw = "firewallrule" /\ ~Closes(file[i]) /\ Accepted(file[i].arg)}

\* There is one rule set for every name that has a rule.  It holds the rules
\* of all the blocks of that name, in the order of the file, and a rule of two
\* words or more means what the documentation of its syntax says.  Of a rule
\* of a target alone nothing like that can be said: the documentation makes
\* it legal, and the code rejects everything whatever target it names
\* (_parse_firewall_rule).
RulesAsWritten ==
    LET sets == config.rulesets
        Written(s) ==
            LET lines == RuleLines(s.name) IN
            /\ Len(s.rules) = Cardinality(lines)
            /\ \A i \in lines :
                 LET w == file[i].arg
                     rule == s.rules[Cardinality({k \in lines : k <= i})]
                 IN  rule = ParseRule(w) /\ (InGrammar(w) /\ Len(w) > 1 => Means(w, rule))
    IN  /\ \A m, n \in DOMAIN sets : sets[m].name = sets[n].name => m = n
        /\ {sets[n].name : n \in DOMAIN sets} =
             {Value(file[j]) : j \in {j \in Lines : /\ OpensRuleset(file[j])
                                                   /\ RuleLines(Value(file[j])) # {}}}
        /\ \A n \in DOMAIN sets : Written(sets[n])

\* The trusted MACs are the entries of all lists up to the first that is no
\* MAC, in the order they are first named: entry x[2] of line x[1].  An entry
\* that repeats the last one of a longer list is put in twice, and no other
\* ever is.  A bad entry that is not the last of its list ends the process
\* (parse_trusted_mac_list).
Named == UNION {{<<i, p>> : p \in {p \in DOMAIN file[i].arg :
                                     \A q \in 1 .. p : file[i].arg[q] \in ValidMacs}} :
                i \in TopLines("trustedmaclist")}
Entry(x) == file[x[1]].arg[x[2]]
Precedes(x, y) == x[1] < y[1] \/ (x[1] = y[1] /\ x[2] < y[2])
TrustedAsListed ==
    LET list == config.trustedmaclist IN
    /\ {list[n] : n \in DOMAIN list} = {Entry(x) : x \in Named}
    /\ \A m, n \in DOMAIN list : m < n =>
         \/ list[m] = list[n] /\ n = m + 1
         \/ \E x \in Named : /\ Entry(x) = list[m]
                             /\ \A y \in Named : Entry(y) = list[n] => Precedes(x, y)

\* The gateway starts only when every line of the file has a keyword of the
\* place where it stands, every flag that must be yes or no is one, and no
\* list of MACs breaks off before its last entry; and when the file says what
\* has no default.  An option of the top level then has the value of the last
\* line that gives it one.  Lines without a value, numbers that are none and
\* rules that are refused do not keep it from starting: it passes them over
\* (config_read, parse_auth_server, parse_firewall_ruleset, config_validate).
Recognised(i) ==
    LET l == file[i]  j == BlockOf(i) IN
    \/ l.kw = "#" \/ Empty(l) \/ (j # 0 /\ Closes(l))
    \/ j = 0 /\ (l.arg = <<>> \/ Opens(l) \/ (l.kw \in PlainOptions /\ ~BreaksOff(l))
                  \/ (l.kw \in StrictFlags /\ parse_boolean_value(Value(l)) # -1))
    \/ j # 0 /\ file[j].kw = "authserver"
             /\ (l.kw \in ServerStrings \cup ServerNumbers \/ (l.kw = "sslavailable" /\ Flag(l) # -1))
    \/ j # 0 /\ file[j].kw = "firewallruleset" /\ l.kw = "firewallrule"
Effective(o) == {i \in TopLines(o) : o \in NumberOptions => Value(file[i]) \in Numerals}
StartsComplete ==
    pc = "running" =>
        /\ \A i \in Lines : Recognised(i)
        /\ TopLines("gatewayinterface") # {}
        /\ \E i \in TopLines("authserver") : ServerOption(i, "hostname") # Unset
        /\ TopLines("httpdusername") # {} => TopLines("httpdpassword") # {}
        /\ \A o \in StringOptions \cup NumberOptions : Effective(o) # {} =>
             config.options[o] = Value(file[LastOf(Effective(o))])

\* The process that a restart executes comes by the configuration of the one
\* it replaces, but for -f, which is not handed on, and the mark of -x
\* (parse_commandline, append_x_restartargv).
RestartKeepsConfiguration ==
    (generation = 2 /\ pc = "running") =>
        /\ config.restart_orig_pid = 1
        /\ \E d \in {-1, 0, 1}, e \in {0, 1} :
             /\ [config EXCEPT !.restart_orig_pid = former.restart_orig_pid]
                = [former EXCEPT !.daemon = d, !.log_stderr = e]
             /\ former.daemon # 0 => d = former.daemon
=============================================================================
