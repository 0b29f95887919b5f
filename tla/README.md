# TLA+ models of the wifidog gateway

This directory holds a TLA+ development of the wifidog captive-portal gateway:
modules that model its control logic, TLC configurations that check them on
small instances, and TLAPS proofs of their main invariants for every instance.
`PROJECT.json` lists components, runs, the source lines each definition
models, hazards, findings and theorems; this file explains them.

Paths are relative to the repository (`src/auth.c` is written `auth.c`).

## 1. Inventory of the system

A gateway process redirects the web traffic of unknown machines to an auth
server, which decides about each machine's token.  Threads: one per HTTP
request (`httpd_thread.c`), one for `wdctl` with one per command, the
client-timeout thread (`thread_client_timeout_check`), the heartbeat
(`thread_ping`), and the main thread accepting requests.

| part | source | state | operations |
|---|---|---|---|
| client list | `client_list.c` | `firstclient`, `client_id`, nodes; `client_list_mutex` | add, find (by ip, mac, both, id), dup, remove, delete, free |
| client authentication | `auth.c` | – | `authenticate_client`, `logout_client`, timeout loop |
| client access | `firewall.c` | `fw_connection_state` in the node | `fw_allow`, `fw_deny`, `fw_sync_with_authserver`, `fw_init` (restores inherited clients), `fw_destroy`, `arp_get` |
| iptables driver | `fw_iptables.c` | the kernel's chains | per-client rules, chain set-up and tear-down, counters, clean-up by mention, AUTHSERVERS, AUTH_IS_DOWN |
| HTTP callbacks | `http.c`, `httpd_thread.c` | – | auth, disconnect, 404 redirect, status pages |
| control socket | `wdctl_thread.c`, `wdctl.c` | socket | reset, status, stop, restart |
| auth server access | `centralserver.c`, `conf.c`, `wd_util.c` | `config.auth_servers`, `last_ip`, four status times; `config_mutex` | `connect_auth_server`, `mark_auth_server_bad`, status marks |
| heartbeat | `ping_thread.c` | `authdown` | `ping` |
| configuration | `conf.c` | `config` | parsing, rule sets, trusted MACs |
| life cycle | `gateway.c`, `main.c`, `commandline.c` | process tree, inherited clients | start, restart hand-over, signals |
| command execution | `util.c`, `gateway.c` | children, the pending signal | `execute`, SIGCHLD reaper |
| HTTP client | `simple_http.c` | a socket | `http_get`: send, read with a timeout, give up |
| web server | `libhttpd/` | a request; `strtok`'s pointer and the decoding table, which are static | accept, read, look up, answer, end |
| support | `pstring.c`, `safe.c`, `debug.c` | – | strings, allocation, logging |

Interactions.  Request handlers, `wdctl reset` and the sync thread share the
client list and the per-client rules under `client_list_mutex`; requests to the
auth server are made without it, on copies of the node.  Every caller of the
auth server shares `config.auth_servers` under `config_mutex`.  The status times
and `authdown` are written without a lock.  The kernel's chains are written by
all of them and listed by the sync thread, without a lock.  The client mutex is
never held together with the configuration mutex (requests are unlocked); the
only nested locking is configuration, then the resolver's.

What is hard here, and what correctness means:

* *client sessions*: a decision is taken on a copy and applied to the original
  after an unlocked request.  No reply may open the firewall for a session it
  was not given for; no node may leak, be freed twice or be used after free;
  chains and list must agree whenever the list is unlocked; a logout is
  reported once; handlers and the sync thread must not starve; rules and
  accesses left over by races and failures must be repaired by later rounds.
* *auth server search*: recursion and rotation under failures at any attempt.
  Every server gets its turn, the order is preserved by an outage, the
  whitelist follows the addresses, status and passthrough settle on the truth.
* *restart*: the parent serves while it hands its clients over.
* *packet filter*: the static chains, traversed by a packet, must implement
  "known, probation, locked, unknown, auth server down".
* *front ends*: a thread per connection and per command, over a web server written
  for one thread, with timeouts, signals, limited descriptors and threads, users who
  go away.  Everybody gets the own answer at most once and in the end, nobody
  gets a page without the right name and password, nothing leaks, and nobody waits for the
  auth server with the client list locked.
* *execute*: a child may be reaped by the SIGCHLD handler instead of `waitpid`;
  that must not look like success.
* *configuration*: line by line parsers that share variables, lists walked to one
  element short of their end, and a second generation configured by a copied
  argument vector.  What is collected must be what the file says.

## 2. Modules

| module | role |
|---|---|
| `ClientSessions` | client list, client rules, request handlers, sync thread |
| `Sessions` | abstract: what the gateway promises of a session; `ClientSessions` implements it |
| `MCClientSessions` | instances of `ClientSessions`: addresses, ARP tables, replies, symmetry |
| `ClientSessionsProofs` | types, nodes, grants, unique sessions; both chains of client rules agree with the list; no gap in service |
| `SessionsRefinement` | `ClientSessions` implements `Sessions` |
| `AuthServers` | search for an auth server, whitelist, status, heartbeat |
| `MCAuthServers` | its instances |
| `AuthServersProofs` | types, complete search, whitelist, passthrough |
| `Restart` | `wdctl restart`: hand-over of the clients, tear-down and set-up of the rules |
| `RestartProofs` | what a new process inherits, whose rules remain, when the parent exits |
| `PacketFilter` | all chains, set up, changed and torn down command by command |
| `PacketVerdicts` | what the chains do to a packet, against the configured policy; extends `PacketFilter` |
| `MCPacketFilter` | their instance: configurations like `wifidog.conf` |
| `PacketFilterProofs` | a start always begins with clean tables |
| `PacketVerdictsProofs` | while the gateway serves, packets meet the policy and strangers the portal |
| `Configuration` | command line, configuration file, validation, restart arguments |
| `MCConfiguration` | its instance: vocabularies of lines, command lines |
| `ConfigurationProofs` | a restart keeps the configuration; servers, rules, trusted MACs and start as the file says |
| `Processes` | `execute` against `sigchld_handler` |
| `HttpClient` | `http_get` |
| `ClientWork` | login, logout, reset, disconnect and status as sequences of blocking calls; extends `Processes` and `HttpClient` |
| `HttpServer` | accept loop, workers, libhttpd, callbacks; extends `ClientWork` |
| `Control` | `wdctl` and the control socket; extends `ClientWork` |
| `FrontEnds` | the composition: both front ends over the same list, lock, descriptors, children and signals |
| `MCFrontEnds` | its instance: what browsers and administrators ask for at the same time |
| `FrontEndsProofs` | the lock, descriptors, the status page, resets, `execute`, own answers |

The definitions marked `Mutant:` next to a definition are plausible mistakes in
the code it models; `PROJECT.json` pairs each checked property with one that
breaks it.

### ClientSessions

Threads are `Handlers` (each takes one HTTP or wdctl request at a time) and
`Sync`.  `pc[t]` names the next step; the locals of the C functions are `cur`
(the node or copy in hand), `addr`, `tok`, `code` (the reply), `old` (the mark
before the change) and `after` (what the caller does after the rules changed).

Granularity.  A critical section without external commands is one step.  Each
iptables command is a step, since packets and the listings see the chains
without the lock.  A request to the auth server is a step without the lock.

| code | model |
|---|---|
| `http_callback_auth` | `HttpAuth`, then `AuthDup` unless it is a logout |
| `http_callback_disconnect`, `wdctl_reset` | `HttpDisconnect`, `WdctlReset` |
| `authenticate_client` | `AuthDup`, `LoginReply`, `LoginVerdict` |
| `fw_allow`, `fw_deny` | `fw_allow`, `fw_deny`, then the commands `GrantOut`, `GrantIn`, `ClearOut`, `ClearIn` |
| `logout_client` | `logout_client`, `RemoveThenUnlock`, `ReportLogout`, `FreeNode` |
| `iptables_fw_counters_update` | `SyncListOut`, `SyncListIn`, `SyncLine` |
| `fw_sync_with_authserver` | `SyncDup`, `SyncRequest`, `SyncCheck` |
| `thread_client_timeout_check` | `SyncStep` as a loop through `SyncDone` |

Abstractions.
* The list is a set of ids.  Insertion is at the head and ids grow, so the
  first match of a walk is the match with the highest id (`IsFirst`).
* Chains are multisets: rules per address, MAC and mark (OUTGOING), rules per
  address (INCOMING).  `-D` removes one instance and fails without effect when
  there is none.
* ARP: `ArpAnswers[a]` is the set of MACs that may be answered for `a`, so the
  answer may change between requests.  `Mentions` relates an address to the
  addresses whose text contains it, which is what `strstr` tests.
* Byte counters are abstracted to "grew or not", `last_updated` to membership
  in `expired`.  Only the sync thread writes `last_updated`, so testing
  `expired` after LOCK instead of just before it loses nothing: `TimePasses`
  may come first.
* Auth server replies are arbitrary (`LOCKED` stands for unknown codes) until
  `Settle`, an environment step that picks one of `Worlds`: how the server and
  the traffic behave in the long run.  Without worlds nothing ever settles.
* Left out: pages, redirects, logging, `served_this_session`.

`granted` and `reported` are ghosts: what the auth server answered for which
session, and whose logout was reported.

### Sessions

The abstract specification: a machine has one session at a time; a session begins
without access, gets a mark only after the auth server agreed to that mark for that
session, ends only without access, never comes back and is reported at most once,
after its end.  There are no threads, copies, lock or rules.  `ClientSessions`
instantiates it as `Promise`: `open` is the list, `owner` and `access` are read off
the nodes, freed ones included, `entitled` is `granted`.  `ImplementsSessions` says
that every behaviour of the threads is, under this mapping, a behaviour of
`Sessions`; it is stronger than the invariants taken one by one, since it also says
which step may change what.

### AuthServers

`Ping` is the heartbeat thread, `Workers` are all other callers.  `Acquire` …
`Connected` are one level of `_connect_auth_server` under `config_mutex`, split
where an outside answer arrives (name resolution, `connect`); `Failed`, `Send`
and `Answer` run without it.

Abstractions.
* An attempt meets one of six outcomes (`Healths`); before `Settle` each
  attempt may meet any of them, after it what `FinalHealth` of the world says.
* The four status times are only used to ask whether the last failure lies
  `2 * checkinterval` or more after the last success, so age and distance are
  counted in ticks up to this limit, which loses nothing.
* The text of a request is the server it is formatted for (`auth_server`),
  its destination the server connected to (`sock`).
* Rewriting the whitelist is one step under `config_mutex`; commands do not
  fail here.

### Restart

`Parent` is the running gateway; each member of `Requests` is a restart command,
that is a thread of the parent, and names the process it forks.  `req[r]` is
how far the command is, `phase[p]` how far the process is.

| code | model |
|---|---|
| `create_unix_socket`, `bind`, `safe_fork` | `Unlink`, `BindFails`, `Fork`, `ForkFails` |
| `wdctl_restart` in the parent | `Accept`, `AcceptFails`, `SendBegins`, `SendClient`, `SendEnds`, `Suicide` |
| `wdctl_restart` in the child, `get_clients_from_parent` | `ExecFails`, `Connect`, `ConnectFails`, `Read`, `ReadEnds` |
| `gw_main` with `-x`, `main_loop` | `ParentGone`, `Bind`, `Listen`, `Serve` |
| `fw_destroy`, `fw_init` | `Flush`, `Drop`, `FwInit`, `FwInitFails`, `Restore` |
| `termination_handler`, `wdctl_stop` | `Terminate`, `Exit`, `WdctlStop` |
| the threads that go on serving | `Arrive`, `Allow`, `Leave` |

Abstractions.
* A change of a session, its rule included, is one step; `ClientSessions` has
  the details.  The firewall is the OUTGOING chain of marks.
* The clients on the wire are a set.  The code restores the list in reverse
  order, which matters only for clients that share an address.
* Tokens and counters are carried along with the mark and not told apart.
* Left out: exits when a thread cannot be created, and descriptors a process
  forked by one command inherits from another command under way.

`safe_fork` exits the process when `fork` fails: `ForkFails` ends the parent on the
spot (`Dies`), with its rules left in the kernel and nothing handed over.  It is the one
failure that `ParentOutlivesFailure` excepts; after any other failing call, in the parent
or in the new process, the parent is still in service.  A new process that exits before
it connects (`ExecFails`) leaves the command in `accept` for ever; the parent serves on.

`stopped`, `steady` and `snapshot` are ghosts.  A user who logs in after the
list was sent is not `steady`: that session is lost by design of the hand-over.

### PacketFilter and PacketVerdicts

`tables` maps each chain of the mangle, nat and filter tables to its rules; a
rule is the fields it matches and a target.  `MangleTable`, `NatTable`,
`FilterTable` and `DestroyScript` are the commands of `iptables_fw_init` and
`iptables_fw_destroy` in their order; `Command` runs the next one.  `Done` is what
the kernel does with a command, the refusal to create a chain twice or to delete
one that is not empty or still linked included.  `Crash` may strike between any
two commands; `Start` is the reset and set-up in `main_loop`.  `FwInit` picks any
inherited clients: in a process started by a restart, `fw_init` appends a rule for each
(`RestoreScript`), and for those without access that rule sets the mark 0 (`zeroed`),
which takes away the mark of a trusted machine or of the passthrough until the client is
logged out.  While the process
serves or stops, `Allow`, `Deny`, `AllowHost`, `AuthDown`, `AuthUp` and
`AddressChanges` are what its threads do.  `Verdict`, in
`PacketVerdicts`, sends a packet through the tables: `Chain` is what a list of rules
says, given what the chains say it may jump to, and `Called` applies this four times
(`Deeper`), as no packet is more than four jumps away from a chain of the system.

`Policy` says in which order the servers, the rule sets and the opened hosts are asked,
without chains or marks.  It is what the code implements, which differs from what is
written about it in three places listed in section 3.
`AllowHost` opens what `http_callback_404` does: the Host of the request is compared with
the mask of every global rule, and a rule without an address has the mask `0.0.0.0/0`
(`Anywhere`), so a request with just that as its Host opens all destinations when such a
rule exists; from then on `Opened` is true of every packet.  `Policy` counts what was
opened as asked for, a subdomain of a blocked host included.
`PortalForStrangers` speaks of any global rule that accepts, not of the first that
decides: `iptables_compile` has no command for a rule of nat that drops or rejects, so
an `allow` after a `block` of the same host keeps a stranger from the portal, and the
filter table then rejects the packet.  One of the files of `MCPacketFilter` has such
a pair of rules.

Abstractions.
* A client rule matches the machine (address and MAC together).  `LOG` and
  `TCPMSS` let the packet go on.  The INCOMING chain only counts.
* The changes made by threads are one step; `ClientSessions` and `AuthServers`
  have their details.  The order of the rules for auth servers is arbitrary.
* `Names` are what a Host header may say.  `Within` says which names contain which, the
  result of the comparison in `http_callback_404`; `Resolves` which destination iptables
  takes a name for, which need not be the one a rule of the same name had at the start.
* Inherited clients are arbitrary; `Restart` says which ones a process really gets.
* Commands do not fail by themselves.  When `iptables_fw_init` finds no external
  interface (`FwInitFails`), the rules of inherited clients have no chain to go to and the
  process exits.  In `Spec` the configuration file stays as it is;
  `EditedSpec` adds `Edit`, a change of the file while no process runs.

### Configuration

A file is written while it is read: `Reads` picks the next line from a small
vocabulary, so all files up to `MaxLines` lines occur, and stops at the end.  The
second generation reads the same file again.  Operations on the configuration take it
as an argument (`SetByLine(c, l)`), so that the two generations can be compared.

| code | model |
|---|---|
| `config_init` | `config_init` |
| `parse_commandline` | `ParseOption`, one option per step, `CommandLineEnds` |
| `config_read` | `ReadLine`, `SetByLine`, `SetDaemon`, `FileEnds` |
| `parse_auth_server` | `ReadServerLine`, `SetInServer`, `ServerEnds` |
| `parse_firewall_ruleset`, `_parse_firewall_rule` | `ReadRule`, `ParseRule`, `RulesetEnds` |
| `parse_trusted_mac_list`, `parse_popular_servers` | operators of these names |
| `config_validate` | `Complete`, `HasPassword`, `WithPopular` in `FileEnds` |
| `append_x_restartargv`, `execvp` | `Reexecute` |

The properties read the same file as a whole, block by block, and compare: the servers
are those of the blocks, each with the options of its own block; there is one rule set
for every name that has a rule, with the rules of all blocks of that name in the order
of the file, and every line of two words or more that fits the grammar documented in
`wifidog.conf` is taken with the meaning it gives it (of a target alone see section 3);
the trusted list is what the lists name, in the order of first naming. The scan for
duplicates in `parse_trusted_mac_list` stops before the last entry, so an entry may be
repeated right after itself; `TrustedAsListed` says that no other is.

Not everything that the parsers do not understand ends the process.  A keyword out of
place and a strict flag that is neither yes nor no do; a rule that is refused, a line
without a value and a number that is none are passed over.  `StartsComplete` says the
former of every line (`Recognised`) and of the latter that the options keep the last
value that was one (`Effective`).  A list of MACs with a bad entry before its last one
ends the process too (`BreaksOff`), though not on purpose: `parse_trusted_mac_list`
frees the pointer that `strsep` has moved, which is no block of the allocator.  After a
bad last entry the pointer is NULL.

Abstractions.
* A line is a keyword and words; characters, upper case and white space are left out.
  In comma separated lists `Blank` stands for a space after a comma, where the
  scan of the code ends.
* `atoi` and `sscanf` tell numerals from other text and keep the numeral.
* An option of the top level takes the first word of its line, one of a server block the
  whole rest (a sequence of words here); a flag must be all of it.
* Options that only store a value are treated alike (`PlainOptions`).

### Processes and HttpClient

`child[t]` follows the child of thread `t`: running, zombie, reaped by the handler.
A child exits with a code or is killed.  A second SIGCHLD is merged with a pending one;
the handler reaps one child, whoever's it is.  `rc` is what `execute` returned.

`fetch[t]` is where thread `t` is in `http_get`.  A reply travels in pieces, and
the connection may fail, time out or be interrupted by a signal between any two.
`https_get` has the same control flow.

### ClientWork

A thread has a program (`todo`): the steps that may block, in the order of the C
functions.  `Login` is `http_callback_auth` and `authenticate_client`, `Logout` is
`logout_client`; `"execute"` and `"get"` take as many steps as `Processes` and
`HttpClient` give them.  `listed`, `allowed`, `ended` and `copied` are the little of
`ClientSessions` that decides which step comes next: who is on the list, who has a
rule to delete, and whether the copy is of the present session.

### HttpServer

A connection is a script, the lines its browser sends; reading ends with the empty
line or is cut off anywhere (`CutOff`: ten silent seconds, the end of the
connection, a signal).

| code | model |
|---|---|
| `main_loop`, `httpdGetConnection`, `thread_httpd` | `GetConnection`, `GetSocket`, `EndRequest` |
| `httpdReadRequest` | `ReadRequestLine`, `CutOff`, `StoreData`, `SanitiseUrl` |
| `_httpd_decode` and its caller | `SeeFirst`, `Fill`, `Decode`, `SetCredentials` |
| `httpdProcessRequest`, `_httpd_findContentDir`, `_httpd_findContentEntry` | `FindDir`, `NextDir`, `Page` |
| `http_callback_*` | `AnswerAtOnce`, `StartWork`, `EndWork` |

A connection is accepted before its thread is started: when that fails the gateway
terminates with the connection open.  An Authorization header without a colon sets the
name and leaves the password of an earlier header in place, so `StatusProtected` asks for
the right name and the right password on the same connection, not in the same header.

Undefined behaviour: two threads in `strtok` share its pointer, so `NextDir` may
take over the rest of another's path, or, when that request is gone, nothing or garbage;
`Decode` beside a `Fill` yields garbage.  The ghost `mixed` names the connections
this happened to.  `OwnAnswer` excuses them; `StatusProtected` does not.

### Control

| code | model |
|---|---|
| `wdctl.c` | `Start`, `SendRequest`, `Finish`, `Interrupted` |
| `thread_wdctl` | `AcceptControl` |
| `thread_wdctl_handler` | `ReadCommand`, `Dispatch`, `AnswerCommand`, `CloseControl`, `CloseAgain` |
| `wdctl_stop`, `wdctl_restart` | `Stop`; `OpenInternal`, `AcceptHeir`, `HandOver` |

`ReadCommand` has the code's loop at the end of a connection: `read` returns 0,
nothing is stored, and the handler reads again for ever.  A command without a line
end thus keeps its thread and its descriptor; `EveryoneServed` speaks of the commands
that are complete.

Of `wdctl_restart` this module has the thread and its descriptors; what is sent to whom
is in `Restart`.  `accept` returns when the new process connects, which nothing
guarantees: it may fail to execute, or exit because of its file.  `AcceptHeir` is
therefore not fair, and `EveryoneServed` excepts the `wdctl` whose restart waits there,
and everyone while such a wait, or that for the rest of a command, has the last
descriptor (`Starved`).  After a hand-over `wdctl_restart` and `thread_wdctl_handler` both
close the connection to `wdctl`.  The second close finds nothing or hits a descriptor
opened since (`CloseAgain`, with the ghost `doubled`); `DescriptorsAccounted` claims
nothing from then on.  The connection accepted by a listener that cannot start a thread
for it stays open (`unserved`) while the gateway terminates.

### FrontEnds

Both front ends share lock, list, descriptors (`fds`), threads (`room`), children and
signals.  A signal runs in any thread, and ends a worker's reading or an `http_get`
there.  `Exit` may strike at any point once a stop or a lack of threads has asked for
it; `ForkFails` is the exit of `safe_fork` in `execute` and `wdctl_restart`.

## 3. Runs

Passing runs check deadlock too, except `restart_takeover` (`wdctl stop` ends the
system), `conf_file` (a start ends) and `frontends` (the browsers have been served, or the
gateway has exited).

| run | question |
|---|---|
| `sessions` | the same machine, two handlers and the sync thread, two sessions: stale replies, racing logouts, node ownership, chains against the list, no gap in service; and the whole implements `Sessions` |
| `sessions_longrun` | no handler starves and the sync thread comes round; an access with a token the server ends up refusing is taken away; silent clients are logged out; rules left by a failed command go away |
| `auth` | two servers, all outcomes, addresses gained and lost, 0.0.0.0 among them: complete search, order preserved, whitelist covers, passthrough follows the heartbeat; and whether in the end the second server answers or none can be connected to, list, status and passthrough settle accordingly |
| `restart_takeover` | one or two overlapping restarts, a failing system call, a stop at any point: what the new process inherits is a list the parent had, the rules are rebuilt from it, a single restart keeps the users, a failure other than that of `fork` leaves the parent in service, and a new process comes into service unless something fails |
| `filter_lifecycle` | starts, stops and crashes at any command: each start finds clean tables; while serving, with any inherited clients, packets of every class meet the policy of the configuration and of what was opened, and strangers and only they reach the portal |
| `conf_file` | files of up to six lines over five vocabularies, several command lines, a restart: servers, rules and trusted machines are what the file says, the gateway starts only when every line has a keyword of its place and nothing required is missing (what it passes over is said in section 2), and a restarted process has the configuration of its parent |
| `frontends` | twenty combinations of requests and commands: answers go to who asked, pages are protected, a reset is confirmed once, the lock is free during requests to the auth server, every descriptor is accounted for up to the hand-over of a restart, a stolen child never looks like success, every connection and complete command ends, but for a restart whose new process never connects |

The remaining runs state what a comment or document says and find it violated:

| run | the statement | what the code does |
|---|---|---|
| `sessions_substring` | `fw_iptables.c:503` "A word to find and delete in rules" | `strstr` also selects 10.0.0.12 when 10.0.0.1 is cleaned up, so a session keeps its state and loses its rules |
| `sessions_shared_ip` | `firewall.c:106` the rule of the denied user is removed | denying a client without access removes the INCOMING rule of another client at the same address |
| `auth_mute` | `wifidog.conf:60` "tried in order, untill one responds" | a server that accepts and does not answer keeps its place for good |
| `filter_edited` | `fw_iptables.c:413` the tear-down is used "when it starts to make sure there are no rules left over" | it looks at the present file: when the auth-is-down set was taken out after a crash, its chains and the link to them stay, behind the links for clients, so that a mark left in them overrides theirs |
| `restart_twice` | `wdctl.c:73` "Re-start the running wifidog (without disconnecting active users!)" | of two overlapping restarts the process that could not connect may take over the port with an empty list |

Four further disagreements were met that no run states, since the properties say what the
code does:

* `wifidog.conf:273` makes everything after the target of a rule optional, so a rule of
  `allow` alone should allow; `_parse_firewall_rule` takes the end of the text for the word
  `block` (`conf.c:525`) and rejects, whatever the target.  `RulesAsWritten` claims the
  documented meaning for rules of two words or more only.
* A comment at `fw_iptables.c:292` says the rule of the passthrough must be last in the
  chain; the links are inserted at the head, so it is met first, and a known client or a
  machine with the mark 0 is not let through by it.
* `wifidog.conf:341` announces a default of DROP for unknown users; the chain ends in a
  REJECT.
* A global rule without an address lets a request for the host `0.0.0.0/0` open all
  destinations (`conf.c:587`, `http.c:152`), where the comment at `http.c:152` thinks of a
  domain of the file whose address has changed.

### Bounds

* `MaxId`: sessions created in a behaviour.  Two are what a stale reply, a second
  logout or a session reusing an address needs; the proofs cover any number.  When
  the bound is reached, `HttpAuth` no longer creates sessions and the others go on.
* `MaxFaults`: failing iptables commands.  One suffices for a rule to be left behind
  or missing.
* One or two handlers: every race is between two critical sections; the sync thread
  is a further actor in each run.
* Two tokens in `sessions_longrun`, one of them refused in the end, so that verdicts
  on an older token meet a client that has logged in with another.
* `Interval = 1` tick: the limit is two ticks, so both sides of the comparison and
  the limit itself occur.
* Two servers in `auth`: enough for a rotation and for a search that fails at every
  place; the proofs of `SearchComplete`, `WhitelistSafe` and `PassthroughSafe` cover
  any number.
* Two restart commands and one machine in the `Restart` runs: the second command is
  what makes `bind` fail and processes compete; machines do not interact there, and
  one is enough for a list that changes while it is sent.  With two commands a
  process may get a part of the list (its sender dies with the parent) and a second
  process may flush the rules of the first, so `Inherited` speaks of senders that got
  to the end and `RulesRebuilt` of a process no other has followed to the firewall.
* `filter_lifecycle`: one ordinary and one trusted machine, one host of each kind
  (auth server, allowed, subdomain of it, blocked, other), two configurations
  (passthrough without proxy, proxy without passthrough), one opened destination, which
  may be all of them: both files have a global rule without an address.  The listed domain
  and its subdomain resolve to an address no rule has.  Inherited clients are any. Crashes
  are not bounded.
* `conf_file`: `MaxLines = 6`, which holds two server blocks with an option each, a
  rule set that is opened twice, and lists that repeat the first, the last and a
  middle entry.  Each vocabulary is about one parser; the parsers share only the list
  of lines.
* `frontends`: two workers, two handlers and two threads altogether, two connections,
  two `wdctl`, one machine.  Every race on the static variables, the lock, a child or
  a descriptor is between two threads.  `MaxFds = 3` is two connections and one
  socket to the auth server; `elsewhere` takes them away in the scenarios about the
  limit.  The handlers and workers are bounded by `MaxThreads`, and a further request
  makes the gateway terminate, as in the code.
* Symmetry (of handlers) is used only in `sessions`, which has no liveness property;
  the abstract specification does not name handlers.

### Fairness

`ClientSessions`: strong fairness of each handler's and the sync thread's steps.  A
step that waits for the mutex is enabled infinitely often; that a waiting thread
eventually gets it is what the scheduler and the mutex give in practice.  Requests
end: `http_get` gives up 30 s after the last byte.  Time passes (weak fairness).
Requests need not arrive: `Arrival` is unfair. `AuthServers`: the same for every
thread's steps; `thread_ping` never stops calling (weak fairness of `Call(Ping)`),
workers need not call; time passes. `Restart`: weak fairness of each command's
thread, of each new process and of the parent's termination, which are threads that
run when they can; the send needs the lock, which here only another command holds.
Sessions, commands, stops and failures are unfair. `FrontEnds`: weak fairness of
every worker's and handler's steps, of the main thread, the listener, the exit once
asked for, the kernel (children end, signals are delivered) and the `wdctl` processes
together.  A worker that reads is never stuck, because its wait ends after ten
seconds, nor is `http_get`, which gives up after thirty. Browsers need not send
anything and users need not interrupt.  Weak fairness is enough for the lock, since
requests here are finitely many.

## 4. Proofs

All hold for any sets of threads, addresses, MACs, tokens, servers and for any
bounds, from the named assumptions on the constants alone.

`ClientSessionsProofs`.  Three layers of inductive invariant:
* `TypeInv` = `TypeOK` and `LocalsOK`: which locals are in use at which label.
  A step reads the node of `cur[t]`, so its type needs to know that `cur[t]` is
  an id there.  Gives `TypeCorrect`.
* `NodesInv`: `LockOK` (a thread at an iptables command holds the lock),
  `OnList` (its node is on the list), `NodesAccounted`, `LogoutReportedOnce`.
  `NodesAccounted` alone is not inductive: that a node is removed once follows
  from the lock being held from the look-up to the removal.  Gives `NodesSafe`
  and `ReportsSafe`.
* `AccessInv`: `SessionsUnique`, `AccessNeedsGrant` and `VerdictGranted` (a
  verdict waiting for the lock was granted to the id in `cur`).  Gives
  `AccessSafe` and `SessionsSafe`.

`SessionsRefinement`.  `Refinement`: `Spec => ImplementsSessions`.  A step that adds a
client is `Begin`, a reply is `Entitle`, a change of mark `Grant` or `Withdraw`, the
last command of a logout `End`, the report `Report`, and everything else does not
show.  It needs the three invariants above and `DeniedFirst`: a client that a thread
is about to take off the list has no mark any more, which holds because the lock is
kept from `fw_deny` to the removal.

`ClientSessionsProofs`, on the rules.  Assuming `ExactMentions`, that no address is part of
another's text (`sessions_substring` shows that the assumption is needed):
* `RulesSafe`: the OUTGOING chain agrees with the list whenever it is unlocked and
  nothing failed.  In the middle of a grant or denial the chain differs from the
  list by what the lock holder has still to do; the inductive invariant
  `RulesExact` states the number of rules of each kind as installed plus left
  over, and `MarksOK` that a mark to clear is not the mark being granted to a
  second rule.
* `IncomingSafe`: the same for the INCOMING chain, whose rules name an address and
  no MAC, so that it needs `OneMachine`, that an address is one machine's;
  `sessions_shared_ip` shows what happens otherwise.  `IncomingExact` counts
  rules as `RulesExact` does, and `ArpOK` says that a client on the list has the
  MAC its address had, which makes the address a key of the list.
* `NoGap`: `NoServiceGap`, an action property.  A client with access is without a
  rule only while somebody is at `grant_out`; that thread holds the lock, so
  nobody else changes the chain, and its own next command adds the rule.

`AuthServersProofs`.  The invariant says who holds the lock at which label
(`HolderOK`), that after `level - 1` failures the list is the original rotated
by as many places and `tried` its first `level - 1` members (`SearchOK`), that
the list stays a permutation of the servers, and that sockets are where
the labels say.  Gives `AuthTypeCorrect`, `SearchComplete`, `WhitelistSafe`,
`PassthroughSafe`.

`RestartProofs`.  The inductive invariant follows a connection from the new
process to the sender: `CommandsOK` and `ConnectionsOK` (who is at which call for
whom), `WireOK`, `UnacceptedOK`, `WaitingOK`, `SendingOK` and `SentOK` (what is on
the wire is the part of the snapshot sent so far, and the snapshot was the parent's
list), `DepartureOK` (why the parent leaves), `RulesOK` (whose rules the chain
holds between one process's set-up and another's tear-down) and `SteadyOK` (a
client left alone is as it was).  `DepartureOK` has the failed `fork` as a reason of its
own.  None of the run's invariants is inductive
without the wire: that a list is complete follows from end of file being sent
after the last client.

`FrontEndsProofs`.  The invariant has one part for each shared resource: `LockOK` (who
holds the client list), `IdleOK` (an idle thread has nothing in hand), `ServedOK` and
`QueueOK` (a connection is in the queue, at one worker, or done), `FetchOK` and
`CountOK` (where a socket is open, and how many), `AnswersOK` and `StatusOK` (a page of
the administrator is only written after the check of the credentials, which are those of
the request being read, not the static variables').  The count holds up to the hand-over
of a restart (`doubled`); a handler in the middle of one has two descriptors.
`SuccessIsReal` is an action property of `execute` and the signal handler.

For `AnswersAreOwn`, `PagesOK` follows the path of a request through the search for
its directory: unless somebody else has called `strtok` in between, what is left
of it (`SaveOK`), the directory reached (`WalkOK`) and the entry found (`PlaceOK`)
are those of the request, and an answer is given once (`OnceOK`, `ShownOK`).

`PacketFilterProofs`.  `ResetIsClean`: `Spec => []StartsClean`, for every
configuration, list of trusted machines and set of auth servers.
`TablesFit` says what the tables may hold at any time, in the middle of a set-up
or tear-down or after a crash there: chains of the gateway (`Used`), jumps to them
(`Links`) and, once in each chain of the system, the rule of the other programs.
`Fit` says that the commands still to be run keep it so, for both scripts.
`Resetting` says that what a command of the reset is for has been achieved or the
command is still in `todo`, and that in each table nothing is unlinked or flushed
after the first deletion; without the order a deletion may be refused.  The
scripts have as many commands as there are rules, machines and servers; they are
reasoned about as sets of elements (`Cat`, `ToSet`), which needs no induction.
Assumed: finitely many trusted machines and servers, rule sets that are
sequences of rules as `_parse_firewall_rule` makes them (`ConfRules`), and
`GoneAssumption`, that the mark for a missing chain is no list of rules.
`filter_edited` shows that the theorem does not hold of `EditedSpec`.

`PacketVerdictsProofs`.  `PolicyIsFollowed` and `StrangersMeetPortal`, from the same
assumptions, that is for every configuration and every set of machines, hosts and
servers.
* What the properties need to know of the tables is `Served`: the chains that
  `iptables_fw_init` fills once are those rules in that order; the trusted machines,
  the clients, the servers, the opened hosts and the passthrough have each a chain, or
  the end of one, with just the rules of the current `clients`, `servers`, `opened` and
  `authdown`, in an order nobody promises.  No client has two rules of the same mark
  (`IsInjective`), or removing one would leave the other; and a machine inherited without
  access has its rule with the mark 0 before the one it gets later (`ZeroFirst`), or the
  mark 0, being the last one set, would stay.
* `Served` is not inductive while the tables are built.  `ServeInv` says then that the
  commands in `todo` make tables of which it holds (`Builds`: there is a run over them),
  so each command takes one step of that run.  `FwInit` begins it at `Base`, which is
  where `CleanAtEnd`, the core of `ResetIsClean`, comes in: on tables that a
  crash left dirty the script would build something else.  `MangleBuilt`, `NatBuilt`
  and `FilterBuilt` follow the script chain by chain, and `RestoreServes` what it appends
  for inherited clients, in whatever order.
* While the gateway serves, each function that changes a chain keeps `Served`
  (`AllowServes`, `DenyServes`, `OpenServes`, `DownServes`, `AddressServes`).
* `ChainCat` and `ChainAny` say what lists of rules one after the other, and rules in
  any order, say of a packet.  With them `MarkIsClass` (mangle), `ForwardIsPolicy`
  (filter) and `NatSays` (nat) compute the three tables' answers, the chains without
  jumps first.  That a mark is the last one set and a verdict the first one given is
  used in both.

`ConfigurationProofs`.  For every set of command lines and of lines a file is
written with.  A line takes the state of the parser (function, configuration,
block) to the next one by the same function in either process (`Taken`, `Steps`).
* `RestartKeepsItsConfiguration`.  That two processes agree in the end is not
  inductive without what the first one did on the way.  `RestartInv` says that there
  are runs over the options handed on and over the lines read, as the successor will
  make them, and that the first process is at a state alike to where they are
  (`Succeeds`: all fields but `daemon`, `log_stderr` and the mark agree, and `daemon`
  too unless it is 0); the second process is exactly where they are.  The runs are
  quantified in the invariant, so the model needs no history variable.
* `ServersAreWritten` and `StartsWhenComplete`.  `FileInv`: after `n` lines the
  options and servers are what these lines say block by block (`Read`), the block
  being read is the only open one and holds what its own lines say (`Within`), and
  the servers listed so far are those of the closed blocks, ranked by the lines that
  opened them (`Listed`).  The induction is over the lines as they are read, that is
  over steps.
* `RulesAreWritten` and `TrustedAreListed`.  `ListsInv`: after `n` lines every rule set
  has a name of its own and its rules are those of the lines of that name, rank by rank
  (`Ranked`, of which `Listed` is an instance), the names are those with a rule among
  the `n` lines, and the trusted list has the entries and the order of the lists among
  them.  `RuleMeans` goes through `_parse_firewall_rule` and shows that a line of the
  grammar is accepted and means what the grammar says.  A trusted list is added entry
  by entry within one step, so this part needs induction over the entries; the lemma
  `AllNaturals` gives it for sets of numbers, which the provers can instantiate.

`StartsAssumption` says what the lines are, that `NULL` is no word, and that no
line has both a block's keyword and a closing brace: whether such a line opens or
closes depends on the ones before it, which the reading of the file as a whole does
not follow.

Assumptions of `FrontEnds` beyond the kinds of its constants:
`AdminAssumption`, that with a password set the administrator's credentials are
not those of a request without or with garbled ones (`conf.c` takes only non-empty
values; that a half-filled table does not happen to decode to them is taken for
granted); `PathsAssumption`, that the path of every request in `Scenarios` is still
a non-empty sequence of names when `_httpd_sanitiseUrl` is done with it.  That
function is a fold; what it returns for every path would take induction over
data, so it is assumed for the paths of an instance, where TLC evaluates it.

Only model-checked: all liveness (fairness and ENABLED are outside the prover's
reach).

## 5. Plan

Done: all modules above; the proofs above.  Next, in this order:

1. Failing commands in `AuthServers`; a property tying the authenticated client to
   the requesting MAC (`auth.c:134`); descriptors with numbers in `FrontEnds`, to say
   whose the second close of a restart hits (`wdctl_thread.c:334`).
2. `TrafficCounters`: counters, history and deltas over listings and restarts; the
   client list at pointer level.

## 6. Not modelled

* The text of pages, redirect URLs and requests, logging, `safe.c`, `pstring.c`,
  `debug.c`: no protocol state.
* `https_get`, which needs CyaSSL and has the control flow of `http_get`.
* The queries of `util.c` (interfaces, addresses, uptime, memory): pure I/O.
* Daemonising, the pid file and the choice of the gateway's address and id in
  `gateway.c`.
* Of `libhttpd` what the gateway never uses: files, wildcard and static content,
  access lists, cookies, and the output of variables.
* Memory layout: `restartargv` has room for `argc + 3` entries (`commandline.c:92`).
* Byte counters beyond "grew or not", and the parts the plan names.
