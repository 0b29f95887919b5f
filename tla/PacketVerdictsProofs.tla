------------------------ MODULE PacketVerdictsProofs ------------------------
(***************************************************************************)
(* PacketVerdicts, proved for every configuration and every set of         *)
(* machines, hosts and servers: while the gateway serves, what the three   *)
(* tables do to a packet is the configured policy, and a web connection    *)
(* reaches the portal when it should.                                      *)
(*                                                                         *)
(* Served says what each chain holds while the gateway serves: some chains *)
(* stay as iptables_fw_init made them, the others hold a known set of      *)
(* rules in an order nobody promises, except that a machine which was      *)
(* inherited without access has the rule with the mark 0 before any other  *)
(* that it gets later (ZeroFirst).  ServeInv says that it is so while   *)
(* the gateway serves, and that while it starts the commands still to run  *)
(* will make it so (Builds).  FwInit establishes this because the reset    *)
(* before it leaves the tables as other programs made them (CleanAtEnd of  *)
(* PacketFilterProofs); the script is then followed chain by chain (Puts). *)
(* From Served it follows what every chain says of a packet, those without *)
(* jumps first, and from these what the tables say.                        *)
(***************************************************************************)
EXTENDS PacketFilterProofs, PacketVerdicts

-----------------------------------------------------------------------------
(* The tables of a gateway that serves.                                    *)

\* The jumps of the system's chains and the rules of the gateway's own that
\* stay as iptables_fw_init made them.
MangleIn(cf) ==
    Only(HasAuthDown(cf), <<Jump(Always, "AuthDown")>>)
    \o (<<Jump(Always, "Trusted")>> \o (<<Jump(Always, "Outgoing")>> \o <<Foreign>>))
NatIn == <<Foreign>> \o <<Jump(Always, "Outgoing")>>
NatOutgoing == <<Jump(If("to", Router), "Router")>> \o <<Jump(Always, "Internet")>>
NatInternet(cf) ==
    Only(cf.proxy, <<End(Web("known"), "PROXY"), End(Web("probation"), "PROXY")>>)
    \o <<End(If("mark", "known"), "ACCEPT")>> \o <<End(If("mark", "probation"), "ACCEPT")>>
    \o <<Jump(Always, "Unknown")>>
NatUnknown(cf) ==
    <<Jump(Always, "AuthServs")>> \o <<Jump(Always, "Global")>>
    \o Only(HasAuthDown(cf), <<Jump(Always, "AuthDown")>>)
    \o <<End(If("port", "web"), "PORTAL")>>
Forward == <<Jump(Always, "Internet")>> \o <<Foreign>>
Internet(cf) ==
    <<End(If("state", "invalid"), "DROP")>> \o <<Rule(Always, "note", "TCPMSS")>>
    \o <<Jump(Always, "AuthServs")>> \o <<Jump(If("mark", "locked"), "Locked")>>
    \o <<Jump(Always, "Global")>> \o <<Jump(If("mark", "probation"), "Validate")>>
    \o <<Jump(If("mark", "known"), "Known")>>
    \o Only(HasAuthDown(cf), <<Jump(If("mark", "down"), "AuthDown")>>)
    \o <<Jump(Always, "Unknown")>>

\* The rules that come and go, in any order.
TrustedRules == {Rule(If("mac", m), "mark", "known") : m \in Trusted}
ClientRules(cl) == {MarkRule(m, cl[m]) : m \in {m \in Macs : cl[m] # NoMark}}
ZeroRules(z) == {MarkRule(m, "zero") : m \in z}
ServerRules(sv) == {ServerRule(h) : h \in sv}
OpenRules(op) == {OpenRule(h) : h \in ToSet(op)}
DownRules(down) == IF down THEN {Rule(Always, "mark", "down")} ELSE {}
AcceptRules(cf) == {r \in ToSet(cf.rules["global"]) : r.do[2] \notin {"DROP", "REJECT"}}

\* A machine marked 0 has that rule before any other: the last mark counts.
ZeroFirst(x) ==
    \A i, j \in DOMAIN x : \A m, k : x[i] = MarkRule(m, "zero") /\ x[j] = MarkRule(m, k) => i <= j

\* The chains E exist and no others do.
Standing(tb, E) ==
    /\ tb = [c \in Chains |-> tb[c]]
    /\ \A c \in E : tb[c] \in Seq(RuleType)
    /\ \A c \in Chains \ E : tb[c] = Gone

MangleServes(cf, tb, cl, z, down) ==
    /\ tb[<<"mangle", "PREROUTING">>] = MangleIn(cf)
    /\ ToSet(tb[<<"mangle", "Trusted">>]) = TrustedRules
    /\ ToSet(tb[<<"mangle", "Outgoing">>]) = ClientRules(cl) \cup ZeroRules(z)
    /\ IsInjective(tb[<<"mangle", "Outgoing">>]) /\ ZeroFirst(tb[<<"mangle", "Outgoing">>])
    /\ HasAuthDown(cf) => ToSet(tb[<<"mangle", "AuthDown">>]) = DownRules(down)
NatServes(cf, tb, sv, op) ==
    /\ tb[<<"nat", "PREROUTING">>] = NatIn
    /\ tb[<<"nat", "Outgoing">>] = NatOutgoing
    /\ tb[<<"nat", "Internet">>] = NatInternet(cf)
    /\ tb[<<"nat", "Unknown">>] = NatUnknown(cf)
    /\ ToSet(tb[<<"nat", "AuthServs">>]) = ServerRules(sv)
    /\ ToSet(tb[<<"nat", "Global">>]) = AcceptRules(cf) \cup OpenRules(op)
    /\ HasAuthDown(cf) => tb[<<"nat", "AuthDown">>] = <<End(If("mark", "down"), "ACCEPT")>>
FilterServes(cf, tb, sv, op) ==
    /\ tb[<<"filter", "FORWARD">>] = Forward
    /\ tb[<<"filter", "Internet">>] = Internet(cf)
    /\ ToSet(tb[<<"filter", "AuthServs">>]) = ServerRules(sv)
    /\ \E g \in Seq(RuleType) : /\ tb[<<"filter", "Global">>] = cf.rules["global"] \o g
                                /\ ToSet(g) = OpenRules(op)
    /\ tb[<<"filter", "Validate">>] = cf.rules["validating-users"]
    /\ tb[<<"filter", "Known">>] = cf.rules["known-users"]
    /\ HasAuthDown(cf) => tb[<<"filter", "AuthDown">>] = cf.rules["auth-is-down"]
    /\ tb[<<"filter", "Unknown">>] = cf.rules["unknown-users"] \o <<End(Always, "REJECT")>>
Served(cf, tb, cl, z, down, sv, op) ==
    /\ Standing(tb, Builtin \cup Used(cf))
    /\ MangleServes(cf, tb, cl, z, down)
    /\ NatServes(cf, tb, sv, op)
    /\ FilterServes(cf, tb, sv, op)

-----------------------------------------------------------------------------
(* What a script builds.                                                   *)

\* The commands s, one after the other, make the tables b of the tables a.
Builds(s, a, b) ==
    /\ IsSeq(s) /\ \A e \in ToSet(s) : e.op # "M"
    /\ \E run : /\ run[0] = a /\ run[Len(s)] = b
                /\ \A i \in 1 .. Len(s) : run[i] = Done(run[i - 1], s[i])

\* No command.
LEMMA BuildsNothing ==
    ASSUME NEW a PROVE Builds(<<>>, a, a)
  <1> DEFINE run == [i \in {0} |-> a]
  <1>1. run[0] = a /\ Len(<<>>) = 0
    OBVIOUS
  <1>2. \A i \in 1 .. Len(<<>>) : run[i] = Done(run[i - 1], <<>>[i])
    OBVIOUS
  <1> HIDE DEF run
  <1> QED
    BY <1>1, <1>2, EmptyTuple DEF Builds

\* One command.
LEMMA BuildsOne ==
    ASSUME NEW e, e.op # "M", NEW a PROVE Builds(<<e>>, a, Done(a, e))
  <1> DEFINE run == [i \in 0 .. 1 |-> IF i = 0 THEN a ELSE Done(a, e)]
             s == <<e>>
  <1>1. run[0] = a /\ run[1] = Done(a, e) /\ Len(s) = 1 /\ s[1] = e
    OBVIOUS
  <1> HIDE DEF run
  <1>2. IsSeq(s) /\ \A x \in ToSet(s) : x.op # "M"
    BY Tuple1
  <1> HIDE DEF s
  <1>3. \A i \in 1 .. Len(s) : run[i] = Done(run[i - 1], s[i])
    BY <1>1
  <1> QED
    BY <1>1, <1>2, <1>3 DEF Builds, s

\* One script after the other.
LEMMA BuildsCat ==
    ASSUME NEW s, NEW t, NEW a, NEW b, NEW c, Builds(s, a, b), Builds(t, b, c)
    PROVE  Builds(s \o t, a, c)
  <1>1. PICK x : /\ x[0] = a /\ x[Len(s)] = b
                 /\ \A i \in 1 .. Len(s) : x[i] = Done(x[i - 1], s[i])
    BY DEF Builds
  <1>2. PICK y : /\ y[0] = b /\ y[Len(t)] = c
                 /\ \A i \in 1 .. Len(t) : y[i] = Done(y[i - 1], t[i])
    BY DEF Builds
  <1> DEFINE m == Len(s)
             n == Len(t)
             st == s \o t
  <1>3. /\ IsSeq(st) /\ ToSet(st) = ToSet(s) \cup ToSet(t)
        /\ m \in Nat /\ n \in Nat /\ DOMAIN st = 1 .. (m + n)
        /\ \A i \in 1 .. (m + n) : st[i] = IF i <= m THEN s[i] ELSE t[i - m]
    BY Cat DEF Builds
  <1>4. Len(st) = m + n
    <2>1. Len(st) \in Nat /\ DOMAIN st = 1 .. Len(st)
      BY <1>3, SeqOver DEF IsSeq
    <2> QED
      BY <1>3, <2>1
  <1> DEFINE run == [i \in 0 .. (m + n) |-> IF i <= m THEN x[i] ELSE y[i - m]]
  <1> HIDE DEF m, n, st
  <1>5. run[0] = a
    BY <1>1, <1>3
  <1>6. run[m + n] = c
    <2>1. CASE n = 0
      BY <2>1, <1>1, <1>2, <1>3 DEF m, n
    <2>2. CASE n # 0
      <3>1. ~(m + n <= m) /\ (m + n) - m = n /\ m + n \in 0 .. (m + n)
        BY <2>2, <1>3
      <3> QED
        BY <3>1, <1>2 DEF n
    <2> QED
      BY <2>1, <2>2
  <1>7. ASSUME NEW i \in 1 .. (m + n) PROVE run[i] = Done(run[i - 1], st[i])
    <2>1. i \in Int /\ i - 1 \in 0 .. (m + n) /\ i \in 0 .. (m + n)
      BY <1>3
    <2>2. CASE i <= m
      <3>1. i \in 1 .. m /\ i - 1 <= m
        BY <2>1, <2>2, <1>3
      <3>2. run[i] = x[i] /\ run[i - 1] = x[i - 1] /\ st[i] = s[i]
        BY <2>1, <2>2, <3>1, <1>3
      <3> QED
        BY <3>1, <3>2, <1>1 DEF m
    <2>3. CASE i = m + 1
      <3>1. i - 1 = m /\ i - m = 1 /\ ~(i <= m) /\ 1 \in 1 .. n
        BY <2>3, <1>3
      <3>2. run[i] = y[1] /\ run[i - 1] = x[m] /\ st[i] = t[1]
        BY <2>1, <3>1, <1>3
      <3>3. y[1] = Done(y[1 - 1], t[1])
        BY <3>1, <1>2 DEF n
      <3> QED
        BY <3>1, <3>2, <3>3, <1>1, <1>2 DEF m
    <2>4. CASE i > m + 1
      <3>1. ~(i <= m) /\ ~(i - 1 <= m) /\ i - m \in 1 .. n /\ (i - 1) - m = (i - m) - 1
        BY <2>1, <2>4, <1>3
      <3>2. run[i] = y[i - m] /\ run[i - 1] = y[(i - m) - 1] /\ st[i] = t[i - m]
        BY <2>1, <3>1, <1>3
      <3> QED
        BY <3>1, <3>2, <1>2 DEF n
    <2> QED
      BY <2>1, <2>2, <2>3, <2>4, <1>3
  <1>8. \A e \in ToSet(st) : e.op # "M"
    BY <1>3 DEF Builds
  <1> HIDE DEF run
  <1> QED
    BY <1>3, <1>4, <1>5, <1>6, <1>7, <1>8 DEF Builds, st

\* The first command done, the others are still to be done.
LEMMA BuildsTail ==
    ASSUME NEW s, s # <<>>, NEW a, NEW b, Builds(s, a, b)
    PROVE  Head(s).op # "M" /\ Builds(Tail(s), Done(a, Head(s)), b)
  <1>1. PICK x : /\ x[0] = a /\ x[Len(s)] = b
                 /\ \A i \in 1 .. Len(s) : x[i] = Done(x[i - 1], s[i])
    BY DEF Builds
  <1> DEFINE m == Len(s)
             t == Tail(s)
             run == [i \in 0 .. (m - 1) |-> x[i + 1]]
  <1>2. /\ IsSeq(t) /\ Head(s) = s[1] /\ ToSet(s) = {Head(s)} \cup ToSet(t)
        /\ m \in Nat \ {0} /\ DOMAIN t = 1 .. (m - 1)
        /\ \A i \in 1 .. (m - 1) : t[i] = s[i + 1]
    BY HeadAndTail DEF Builds
  <1>3. Len(t) = m - 1
    <2>1. Len(t) \in Nat /\ DOMAIN t = 1 .. Len(t)
      BY <1>2, SeqOver DEF IsSeq
    <2> QED
      BY <1>2, <2>1
  <1> HIDE DEF m, t
  <1>4. x[1] = Done(a, Head(s))
    <2>1. x[1] = Done(x[1 - 1], s[1])
      BY <1>1, <1>2 DEF m
    <2> QED
      BY <2>1, <1>1, <1>2
  <1>5. run[0] = x[1] /\ run[m - 1] = b
    BY <1>1, <1>2 DEF m
  <1>6. ASSUME NEW i \in 1 .. (m - 1) PROVE run[i] = Done(run[i - 1], t[i])
    <2>1. i + 1 \in 1 .. m /\ (i + 1) - 1 = i /\ (i - 1) + 1 = i /\ i \in 0 .. (m - 1)
            /\ i - 1 \in 0 .. (m - 1)
      BY <1>2
    <2>2. x[i + 1] = Done(x[(i + 1) - 1], s[i + 1])
      BY <2>1, <1>1 DEF m
    <2> QED
      BY <2>1, <2>2, <1>2
  <1> HIDE DEF run
  <1>7. \A e \in ToSet(t) \cup {Head(s)} : e.op # "M"
    BY <1>2 DEF Builds
  <1> QED
    BY <1>2, <1>3, <1>4, <1>5, <1>6, <1>7 DEF Builds, t

\* The script has run out.
LEMMA BuildsEnd ==
    ASSUME NEW a, NEW b, Builds(<<>>, a, b) PROVE a = b
  BY DEF Builds

-----------------------------------------------------------------------------
(* What the commands of the set-up do.                                     *)

\* The script s makes the tables u of the tables tb: the chains E exist, the
\* chain c is x, and nothing else is different.
Puts(s, tb, E, c, x, u) ==
    /\ Builds(s, tb, u) /\ Standing(u, E)
    /\ u[c] = x /\ \A d \in Chains \ {c} : u[d] = tb[d]

\* A command that changes one chain.
LEMMA PutsOne ==
    ASSUME NEW tb, NEW E \in SUBSET Chains, Standing(tb, E), NEW c \in Chains,
           NEW x \in Seq(RuleType), NEW e, e.op # "M", Done(tb, e) = [tb EXCEPT ![c] = x]
    PROVE  Puts(<<e>>, tb, E \cup {c}, c, x, Done(tb, e))
  <1> DEFINE u == Done(tb, e)
  <1>1. tb = [d \in Chains |-> tb[d]]
    BY DEF Standing
  <1>2. u = [d \in Chains |-> IF d = c THEN x ELSE tb[d]]
    BY <1>1
  <1> HIDE DEF u
  <1>3. u[c] = x /\ \A d \in Chains \ {c} : u[d] = tb[d]
    BY <1>2
  <1>4. u = [d \in Chains |-> u[d]]
    BY <1>2
  <1>5. Standing(u, E \cup {c})
    BY <1>3, <1>4 DEF Standing
  <1>6. Builds(<<e>>, tb, u)
    BY BuildsOne DEF u
  <1> QED
    BY <1>3, <1>5, <1>6 DEF Puts, u

\* A chain is made.
LEMMA Making ==
    ASSUME NEW tb, NEW E \in SUBSET Chains, Standing(tb, E),
           NEW t, NEW n, <<t, n>> \in Chains \ E
    PROVE  \E u : Puts(<<New(t, n)>>, tb, E \cup {<<t, n>>}, <<t, n>>, <<>>, u)
  <1> DEFINE e == New(t, n)
             c == <<t, n>>
             x == <<>>
  <1>1. e.op = "N" /\ e.at = c
    BY DEF New
  <1>2. c \in Chains /\ c \notin E /\ x \in Seq(RuleType)
    OBVIOUS
  <1> HIDE DEF e, c
  <1>3. ~Exists(tb, c)
    BY <1>2 DEF Standing, Exists
  <1>4. Done(tb, e) = [tb EXCEPT ![c] = x]
    BY <1>1, <1>3 DEF Done
  <1> HIDE DEF x
  <1>5. Puts(<<e>>, tb, E \cup {c}, c, x, Done(tb, e))
    BY <1>1, <1>2, <1>4, PutsOne
  <1> QED
    BY <1>5 DEF e, c, x

\* A rule is added at the end of a chain or at its beginning.
LEMMA Adding ==
    ASSUME NEW tb, NEW E \in SUBSET Chains, Standing(tb, E),
           NEW t, NEW n, <<t, n>> \in E, NEW r \in RuleType,
           r.do[1] = "go" => <<t, r.do[2]>> \in E
    PROVE  /\ \E u : Puts(<<App(t, n, r)>>, tb, E, <<t, n>>, tb[<<t, n>>] \o <<r>>, u)
           /\ \E u : Puts(<<Ins(t, n, r)>>, tb, E, <<t, n>>, <<r>> \o tb[<<t, n>>], u)
  <1> DEFINE c == <<t, n>>
             a == App(t, n, r)
             i == Ins(t, n, r)
             x == tb[c] \o <<r>>
             y == <<r>> \o tb[c]
  <1>1. a.op = "A" /\ a.at = c /\ a.rule = r /\ i.op = "I" /\ i.at = c /\ i.rule = r /\ c[1] = t
    BY DEF App, Ins
  <1>2. c \in Chains /\ c \in E
    OBVIOUS
  <1> HIDE DEF a, i, c
  <1>3. tb[c] \in Seq(RuleType) /\ <<r>> \in Seq(RuleType)
    BY <1>2 DEF Standing
  <1>4. \A d \in E : Exists(tb, d)
    BY GoneAssumption DEF Standing, Exists
  <1>5. Target(tb, t, r)
    BY <1>4 DEF Target
  <1>6. x \in Seq(RuleType) /\ y \in Seq(RuleType) /\ Append(tb[c], r) = x
    BY <1>3
  <1>7. Done(tb, a) = [tb EXCEPT ![c] = Append(@, r)]
    BY <1>1, <1>2, <1>4, <1>5 DEF Done
  <1>8. Done(tb, i) = [tb EXCEPT ![c] = y]
    BY <1>1, <1>2, <1>4, <1>5 DEF Done
  <1>9. Done(tb, a) = [tb EXCEPT ![c] = x]
    BY <1>6, <1>7
  <1> HIDE DEF x, y
  <1>10. E \cup {c} = E
    BY <1>2
  <1>11. Puts(<<a>>, tb, E \cup {c}, c, x, Done(tb, a))
    BY <1>1, <1>2, <1>6, <1>9, PutsOne
  <1>12. Puts(<<i>>, tb, E \cup {c}, c, y, Done(tb, i))
    BY <1>1, <1>2, <1>6, <1>8, PutsOne
  <1> QED
    BY <1>10, <1>11, <1>12 DEF x, y, a, i, c

\* Induction, for a set of numbers.
LEMMA AllNaturals ==
    ASSUME NEW P, 0 \in P, \A k \in Nat : k \in P => k + 1 \in P
    PROVE  \A k \in Nat : k \in P
  <1> DEFINE U == {m \in Nat : m \notin P}
  <1> SUFFICES ASSUME U # {} PROVE FALSE
    OBVIOUS
  <1>1. U \subseteq Nat
    OBVIOUS
  <1>2. Min(U) \in U /\ \A y \in U : Min(U) <= y
    BY <1>1, LeastNatural
  <1> DEFINE u == Min(U)
  <1>3. u \in Nat /\ u \notin P /\ u # 0 /\ \A y \in U : u <= y
    BY <1>2
  <1> HIDE DEF u
  <1>4. u - 1 \in Nat /\ (u - 1) + 1 = u /\ ~(u <= u - 1)
    BY <1>3
  <1>5. u - 1 \in U
    BY <1>3, <1>4
  <1> QED
    BY <1>3, <1>4, <1>5

\* Lists of rules one after the other.
LEMMA RulesAssociative ==
    ASSUME NEW a \in Seq(RuleType), NEW b \in Seq(RuleType), NEW c \in Seq(RuleType)
    PROVE  (a \o b) \o c = a \o (b \o c)
  BY ConcatAssociative

\* Nothing is put anywhere.
LEMMA PutsNothing ==
    ASSUME NEW tb, NEW E, Standing(tb, E), NEW c
    PROVE  /\ Puts(<<>>, tb, E, c, tb[c], tb)
           /\ \A t, n : Puts(<<Nothing(t, n)>>, tb, E, c, tb[c], tb)
  <1>1. Puts(<<>>, tb, E, c, tb[c], tb)
    BY BuildsNothing DEF Puts
  <1>2. ASSUME NEW t, NEW n PROVE Puts(<<Nothing(t, n)>>, tb, E, c, tb[c], tb)
    <2> DEFINE e == Nothing(t, n)
    <2>1. e.op = "none"
      BY DEF Nothing
    <2> HIDE DEF e
    <2>2. Done(tb, e) = tb
      BY <2>1 DEF Done
    <2>3. Builds(<<e>>, tb, tb)
      BY <2>1, <2>2, BuildsOne
    <2> QED
      BY <2>3 DEF Puts, e
  <1> QED
    BY <1>1, <1>2

\* Two scripts that change one chain.
LEMMA PutsCat ==
    ASSUME NEW s, NEW q, NEW tb, NEW u, NEW w, NEW E, NEW F, NEW c, NEW x, NEW y,
           Puts(s, tb, E, c, x, u), Puts(q, u, F, c, y, w)
    PROVE  Puts(s \o q, tb, F, c, y, w)
  <1>1. Builds(s \o q, tb, w)
    BY BuildsCat DEF Puts
  <1> QED
    BY <1>1 DEF Puts

\* The rules rs are appended to a chain, but for those not in K.
Appends(s, t, n, rs, K) ==
    /\ rs \in Seq(RuleType) /\ K \in SUBSET (1 .. Len(rs))
    /\ \A i \in 1 .. Len(rs) : rs[i].do[1] # "go"
    /\ IsSeq(s) /\ Len(s) = Len(rs)
    /\ \A i \in K : s[i] = App(t, n, rs[i])
    /\ \A i \in (1 .. Len(rs)) \ K : s[i] = Nothing(t, n)
Chosen(rs, K) == {rs[i] : i \in K}
\* Rules appended one after the other to one chain.
LEMMA Filling ==
    ASSUME NEW tb, NEW E \in SUBSET Chains, Standing(tb, E),
           NEW t, NEW n, <<t, n>> \in E,
           NEW rs, NEW K, NEW s, Appends(s, t, n, rs, K)
    PROVE  \E u, g : /\ Puts(s, tb, E, <<t, n>>, tb[<<t, n>>] \o g, u)
                     /\ g \in Seq(RuleType) /\ ToSet(g) = Chosen(rs, K)
                     /\ K = 1 .. Len(rs) => g = rs
  <1> DEFINE c == <<t, n>>
             m == Len(rs)
             pre(k) == SubSeq(s, 1, k)
             Q(k, u, g) == /\ Puts(pre(k), tb, E, c, tb[c] \o g, u)
                           /\ g \in Seq(RuleType) /\ ToSet(g) = {rs[i] : i \in K \cap (1 .. k)}
                           /\ K = 1 .. m => g = SubSeq(rs, 1, k)
             P == {k \in Nat : k <= m => \E u, g : Q(k, u, g)}
  <1>0. /\ rs \in Seq(RuleType) /\ K \in SUBSET (1 .. Len(rs))
        /\ \A i \in 1 .. m : rs[i].do[1] # "go"
    BY DEF Appends
  <1>1. m \in Nat /\ \A i \in 1 .. m : rs[i] \in RuleType
    BY <1>0
  <1>2. s \in Seq(ToSet(s)) /\ Len(s) = m
    BY DEF IsSeq, Appends
  <1>3. tb[c] \in Seq(RuleType) /\ c \in Chains
    BY DEF Standing
  <1>4. \A i \in 1 .. m : s[i] = IF i \in K THEN App(t, n, rs[i]) ELSE Nothing(t, n)
    BY DEF Appends
  <1>5. 0 \in P
    <2>1. pre(0) = <<>> /\ SubSeq(rs, 1, 0) = <<>>
      BY <1>1, <1>2, SubSeqEmpty
    <2>2. tb[c] \o <<>> = tb[c]
      BY <1>3, ConcatEmptySeq
    <2>3. Puts(pre(0), tb, E, c, tb[c] \o <<>>, tb)
      <3>1. Puts(<<>>, tb, E, c, tb[c], tb)
        BY PutsNothing
      <3> HIDE DEF pre, c
      <3> QED
        BY <3>1, <2>1, <2>2
    <2>4. <<>> \in Seq(RuleType) /\ ToSet(<<>>) = {rs[i] : i \in K \cap (1 .. 0)}
      BY EmptyTuple
    <2>5. Q(0, tb, <<>>)
      <3> HIDE DEF pre
      <3> QED
        BY <2>1, <2>3, <2>4
    <2> HIDE DEF Q
    <2> QED
      BY <2>5
  <1>6. ASSUME NEW k \in Nat, k \in P PROVE k + 1 \in P
    <2> SUFFICES ASSUME k + 1 <= m PROVE \E u, g : Q(k + 1, u, g)
      <3> HIDE DEF Q
      <3> QED
        OBVIOUS
    <2>1. k <= m /\ k + 1 \in 1 .. m
      BY <1>1
    <2>2. PICK u, g : Q(k, u, g)
      BY <1>6, <2>1
    <2> DEFINE j == k + 1
               r == rs[j]
    <2>3. pre(j) = pre(k) \o <<s[j]>>
      <3>1. pre(j) = Append(pre(k), s[j])
        BY <1>2, <2>1, SubSeqRecursiveSecond
      <3>2. pre(k) \in Seq(ToSet(s)) /\ s[j] \in ToSet(s)
        BY <1>2, <2>1
      <3> HIDE DEF pre, j
      <3> QED
        BY <3>1, <3>2, AppendIsConcat
    <2>4. SubSeq(rs, 1, j) = SubSeq(rs, 1, k) \o <<r>>
      <3>1. SubSeq(rs, 1, j) = Append(SubSeq(rs, 1, k), r)
        BY <1>0, <1>1, <2>1, SubSeqRecursiveSecond
      <3>2. SubSeq(rs, 1, k) \in Seq(RuleType) /\ r \in RuleType
        BY <1>0, <1>1, <2>1
      <3> QED
        BY <3>1, <3>2, AppendIsConcat
    <2>5. j \in 1 .. m /\ 1 .. j = (1 .. k) \cup {j} /\ r \in RuleType /\ r.do[1] # "go"
      BY <2>1, <1>0, <1>1
    <2> HIDE DEF j, pre, c
    <2>6. Puts(pre(k), tb, E, c, tb[c] \o g, u) /\ g \in Seq(RuleType)
      BY <2>2
    <2>7. Standing(u, E) /\ u[c] = tb[c] \o g
      BY <2>6 DEF Puts
    <2>8. CASE j \in K
      <3> DEFINE h == g \o <<r>>
      <3>1. PICK w : Puts(<<App(t, n, r)>>, u, E, c, u[c] \o <<r>>, w)
        BY <2>5, <2>7, Adding DEF c
      <3>2. u[c] \o <<r>> = tb[c] \o h
        <4>1. <<r>> \in Seq(RuleType)
          BY <2>5
        <4>2. (tb[c] \o g) \o <<r>> = tb[c] \o (g \o <<r>>)
          BY <4>1, <1>3, <2>6, RulesAssociative, Zenon
        <4> QED
          BY <4>2, <2>7
      <3>3. s[j] = App(t, n, r)
        BY <1>4, <2>5, <2>8
      <3>4. Puts(pre(j), tb, E, c, tb[c] \o h, w)
        <4> HIDE DEF h, r
        <4>1. Puts(pre(k) \o <<s[j]>>, tb, E, c, u[c] \o <<r>>, w)
          BY <2>6, <3>1, <3>3, PutsCat
        <4> QED
          BY <4>1, <2>3, <3>2
      <3>5. h \in Seq(RuleType)
        BY <2>5, <2>6
      <3>6. ToSet(h) = ToSet(g) \cup {r}
        BY <2>5, <2>6, SeqOver, Cat, Tuple1
      <3>7. K \cap (1 .. j) = (K \cap (1 .. k)) \cup {j}
        BY <2>5, <2>8
      <3>8. ToSet(h) = {rs[i] : i \in K \cap (1 .. j)}
        <4> DEFINE A == K \cap (1 .. k)
        <4>1. ToSet(g) = {rs[i] : i \in A}
          BY <2>2
        <4> HIDE DEF A
        <4>2. {rs[i] : i \in A \cup {j}} = {rs[i] : i \in A} \cup {r}
          OBVIOUS
        <4> QED
          BY <4>1, <4>2, <3>6, <3>7 DEF A
      <3>9. K = 1 .. m => h = SubSeq(rs, 1, j)
        BY <2>2, <2>4
      <3> HIDE DEF h
      <3>10. Q(j, w, h)
        BY <3>4, <3>5, <3>8, <3>9
      <3> HIDE DEF Q
      <3> QED
        BY <3>10 DEF j
    <2>9. CASE j \notin K
      <3>1. s[j] = Nothing(t, n)
        BY <1>4, <2>5, <2>9
      <3>2. Puts(<<s[j]>>, u, E, c, u[c], u)
        BY <3>1, <2>7, PutsNothing
      <3>3. Puts(pre(j), tb, E, c, tb[c] \o g, u)
        BY <2>3, <2>6, <2>7, <3>2, PutsCat
      <3>4. K \cap (1 .. j) = K \cap (1 .. k) /\ K # 1 .. m
        BY <2>5, <2>9
      <3>5. Q(j, u, g)
        BY <2>2, <3>3, <3>4
      <3> HIDE DEF Q
      <3> QED
        BY <3>5 DEF j
    <2> QED
      BY <2>8, <2>9
  <1>7. m \in P
    <2> HIDE DEF P, m
    <2> QED
      BY <1>1, <1>5, <1>6, AllNaturals
  <1>8. PICK u, g : Q(m, u, g)
    <2> HIDE DEF Q
    <2> QED
      BY <1>1, <1>7
  <1>9. pre(m) = s /\ SubSeq(rs, 1, m) = rs /\ K \cap (1 .. m) = K
    BY <1>0, <1>1, <1>2, SubSeqFull
  <1> HIDE DEF pre
  <1>10. /\ Puts(s, tb, E, c, tb[c] \o g, u) /\ g \in Seq(RuleType)
         /\ ToSet(g) = {rs[i] : i \in K}
         /\ K = 1 .. m => g = rs
    BY <1>8, <1>9
  <1> QED
    BY <1>10, Zenon DEF Chosen

\* A jump is added, or a rule that is none.
LEMMA AddingJump ==
    ASSUME NEW tb, NEW E \in SUBSET Chains, Standing(tb, E),
           NEW t, NEW n, <<t, n>> \in E, NEW r \in RuleType,
           NEW k, r.do = <<"go", k>>, <<t, k>> \in E
    PROVE  /\ \E u : Puts(<<App(t, n, r)>>, tb, E, <<t, n>>, tb[<<t, n>>] \o <<r>>, u)
           /\ \E u : Puts(<<Ins(t, n, r)>>, tb, E, <<t, n>>, <<r>> \o tb[<<t, n>>], u)
  <1>1. r.do[1] = "go" => <<t, r.do[2]>> \in E
    OBVIOUS
  <1> QED
    BY <1>1, Adding

\* A rule that ends the table needs no chain to go to.
LEMMA AddingEnd ==
    ASSUME NEW tb, NEW E \in SUBSET Chains, Standing(tb, E),
           NEW t, NEW n, <<t, n>> \in E, NEW r \in RuleType, r.do[1] # "go"
    PROVE  \E u : Puts(<<App(t, n, r)>>, tb, E, <<t, n>>, tb[<<t, n>>] \o <<r>>, u)
  BY Adding

\* A script that is run only under a condition.
LEMMA OnlyPuts ==
    ASSUME NEW b, NEW s, NEW tb, NEW E, Standing(tb, E), NEW c, NEW x,
           b => \E u : Puts(s, tb, E, c, x, u)
    PROVE  \E u : Puts(Only(b, s), tb, E, c, IF b THEN x ELSE tb[c], u)
  <1>1. CASE b
    BY <1>1 DEF Only
  <1>2. CASE ~b
    <2>1. Puts(<<>>, tb, E, c, tb[c], tb)
      BY PutsNothing
    <2> QED
      BY <1>2, <2>1 DEF Only
  <1> QED
    BY <1>1, <1>2

\* A chain that is made under a condition.
LEMMA OnlyMakes ==
    ASSUME NEW b, NEW tb, NEW E \in SUBSET Chains, Standing(tb, E),
           NEW t, NEW n, <<t, n>> \in Chains \ E
    PROVE  \E u : Puts(Only(b, <<New(t, n)>>), tb, IF b THEN E \cup {<<t, n>>} ELSE E,
                       <<t, n>>, IF b THEN <<>> ELSE Gone, u)
  <1>1. CASE b
    BY <1>1, Making DEF Only
  <1>2. CASE ~b
    <2>1. Puts(<<>>, tb, E, <<t, n>>, tb[<<t, n>>], tb)
      BY PutsNothing
    <2>2. tb[<<t, n>>] = Gone
      BY DEF Standing
    <2> QED
      BY <1>2, <2>1, <2>2 DEF Only
  <1> QED
    BY <1>1, <1>2

\* Conditional parts of a sequence.
LEMMA OnlyCat ==
    ASSUME NEW b, NEW S, NEW x \in Seq(S), NEW y
    PROVE  /\ x \o Only(b, y) = IF b THEN x \o y ELSE x
           /\ Only(b, y) \o x = IF b THEN y \o x ELSE x
  BY ConcatEmptySeq DEF Only

\* Tuples taken apart.
LEMMA Tuples ==
    /\ \A a, b : <<a, b>> = <<a>> \o <<b>>
    /\ \A a, b, c : <<a, b, c>> = <<a, b>> \o <<c>>
    /\ \A a, b, c, d : <<a, b, c, d>> = <<a, b, c>> \o <<d>>
    /\ \A a, b, c, d, e : <<a, b, c, d, e>> = <<a, b, c, d>> \o <<e>>
    /\ \A a, b, c, d, e, f : <<a, b, c, d, e, f>> = <<a, b, c, d, e>> \o <<f>>
    /\ \A a, b, c, d, e, f, g : <<a, b, c, d, e, f, g>> = <<a, b, c, d, e, f>> \o <<g>>
  <1>2. ASSUME NEW a, NEW b PROVE <<a, b>> = <<a>> \o <<b>>
    <2> DEFINE x == <<a>>
               y == <<b>>
               z == <<a, b>>
    <2>1. x \in Seq({a, b}) /\ y \in Seq({a, b}) /\ Len(x) = 1 /\ Len(y) = 1 /\ x[1] = a /\ y[1] = b
      OBVIOUS
    <2>2. z \in Seq({a, b}) /\ Len(z) = 2 /\ z[1] = a /\ z[2] = b
      OBVIOUS
    <2> HIDE DEF x, y, z
    <2>3. x \o y \in Seq({a, b}) /\ Len(x \o y) = 2 /\ (x \o y)[1] = a /\ (x \o y)[2] = b
      BY <2>1, ConcatProperties
    <2>4. \A i \in 1 .. 2 : i = 1 \/ i = 2
      OBVIOUS
    <2>5. z = x \o y
      BY <2>2, <2>3, <2>4, SeqEqual
    <2> QED
      BY <2>5 DEF x, y, z
  <1>3. ASSUME NEW a, NEW b, NEW c PROVE <<a, b, c>> = <<a, b>> \o <<c>>
    OBVIOUS
  <1>4. ASSUME NEW a, NEW b, NEW c, NEW d PROVE <<a, b, c, d>> = <<a, b, c>> \o <<d>>
    OBVIOUS
  <1>5. ASSUME NEW a, NEW b, NEW c, NEW d, NEW e PROVE <<a, b, c, d, e>> = <<a, b, c, d>> \o <<e>>
    OBVIOUS
  <1>6. ASSUME NEW a, NEW b, NEW c, NEW d, NEW e, NEW f PROVE <<a, b, c, d, e, f>> = <<a, b, c, d,
          e>> \o <<f>>
    OBVIOUS
  <1>7. ASSUME NEW a, NEW b, NEW c, NEW d, NEW e, NEW f, NEW g PROVE <<a, b, c, d, e, f, g>> = <<a, b,
          c, d, e, f>> \o <<g>>
    OBVIOUS
  <1> QED
    BY <1>2, <1>3, <1>4, <1>5, <1>6, <1>7

\* A rule set is loaded into the filter table.
LEMMA Loading ==
    ASSUME NEW tb, NEW E \in SUBSET Chains, Standing(tb, E), NEW cf \in Configs,
           NEW set \in RuleSets, NEW n, <<"filter", n>> \in E
    PROVE  \E u : Puts(Load(cf, "filter", set, n), tb, E, <<"filter", n>>,
                       tb[<<"filter", n>>] \o cf.rules[set], u)
  <1> DEFINE rs == cf.rules[set]
             s == Load(cf, "filter", set, n)
             K == 1 .. Len(rs)
  <1>1. rs \in Seq(ConfRules)
    BY ConfigAssumption
  <1>2. rs \in Seq(RuleType) /\ \A i \in 1 .. Len(rs) : rs[i].do[1] # "go"
    <2>1. ConfRules \subseteq RuleType
      BY JumpTypes, RuleTypes DEF Targets, Own
    <2>2. \A r \in ConfRules : r.do[1] # "go"
      BY DEF ConfRules
    <2> HIDE DEF rs
    <2> QED
      BY <1>1, <2>1, <2>2
  <1>3. DOMAIN rs = 1 .. Len(rs) /\ Len(rs) \in Nat
    BY <1>1, SeqOver
  <1>4. s = [i \in 1 .. Len(rs) |-> App("filter", n, rs[i])]
    BY <1>3 DEF Load, Compiled
  <1> HIDE DEF rs, s
  <1>5. IsSeq(s) /\ Len(s) = Len(rs)
    <2> DEFINE m == Len(rs)
    <2>1. s \in [1 .. m -> ToSet(s)] /\ m \in Nat
      BY <1>3, <1>4 DEF ToSet
    <2> HIDE DEF m
    <2>2. s \in Seq(ToSet(s)) /\ Len(s) = m
      BY <2>1
    <2> QED
      BY <2>2 DEF IsSeq, m
  <1>6. /\ \A i \in K : s[i] = App("filter", n, rs[i])
        /\ \A i \in (1 .. Len(rs)) \ K : s[i] = Nothing("filter", n)
    BY <1>4
  <1>7. K \in SUBSET (1 .. Len(rs)) /\ K = 1 .. Len(rs)
    OBVIOUS
  <1> HIDE DEF K
  <1>8. PICK u, g : /\ Puts(s, tb, E, <<"filter", n>>, tb[<<"filter", n>>] \o g, u)
                    /\ g \in Seq(RuleType) /\ ToSet(g) = Chosen(rs, K)
                    /\ K = 1 .. Len(rs) => g = rs
    <2>1. Appends(s, "filter", n, rs, K)
      BY <1>2, <1>5, <1>6, <1>7 DEF Appends
    <2> QED
      BY <2>1, Filling
  <1> QED
    BY <1>7, <1>8 DEF rs, s

\* The global rule set is loaded into the nat table, but for what rejects.
LEMMA LoadingNat ==
    ASSUME NEW tb, NEW E \in SUBSET Chains, Standing(tb, E), NEW cf \in Configs,
           <<"nat", "Global">> \in E
    PROVE  \E u, g : /\ Puts(Load(cf, "nat", "global", "Global"), tb, E, <<"nat", "Global">>,
                             tb[<<"nat", "Global">>] \o g, u)
                     /\ g \in Seq(RuleType) /\ ToSet(g) = AcceptRules(cf)
  <1> DEFINE rs == cf.rules["global"]
             s == Load(cf, "nat", "global", "Global")
             K == {i \in 1 .. Len(rs) : rs[i].do[2] \notin {"DROP", "REJECT"}}
  <1>1. rs \in Seq(ConfRules)
    BY ConfigAssumption DEF RuleSets
  <1>2. rs \in Seq(RuleType) /\ \A i \in 1 .. Len(rs) : rs[i].do[1] # "go"
    <2>1. ConfRules \subseteq RuleType
      BY JumpTypes, RuleTypes DEF Targets, Own
    <2>2. \A r \in ConfRules : r.do[1] # "go"
      BY DEF ConfRules
    <2> HIDE DEF rs
    <2> QED
      BY <1>1, <2>1, <2>2
  <1>3. DOMAIN rs = 1 .. Len(rs) /\ Len(rs) \in Nat
    BY <1>1, SeqOver
  <1>4. s = [i \in 1 .. Len(rs) |-> Compiled("nat", "Global", rs[i])]
    BY <1>3 DEF Load
  <1>a. {rs[i] : i \in K} = AcceptRules(cf)
    BY <1>3 DEF AcceptRules, ToSet
  <1> HIDE DEF rs, s
  <1>5. IsSeq(s) /\ Len(s) = Len(rs)
    <2> DEFINE m == Len(rs)
    <2>1. s \in [1 .. m -> ToSet(s)] /\ m \in Nat
      BY <1>3, <1>4 DEF ToSet
    <2> HIDE DEF m
    <2>2. s \in Seq(ToSet(s)) /\ Len(s) = m
      BY <2>1
    <2> QED
      BY <2>2 DEF IsSeq, m
  <1>6. /\ \A i \in K : s[i] = App("nat", "Global", rs[i])
        /\ \A i \in (1 .. Len(rs)) \ K : s[i] = Nothing("nat", "Global")
    BY <1>4 DEF Compiled
  <1>7. K \in SUBSET (1 .. Len(rs))
    OBVIOUS
  <1> HIDE DEF K
  <1>8. PICK u, g : /\ Puts(s, tb, E, <<"nat", "Global">>, tb[<<"nat", "Global">>] \o g, u)
                    /\ g \in Seq(RuleType) /\ ToSet(g) = Chosen(rs, K)
                    /\ K = 1 .. Len(rs) => g = rs
    <2>1. Appends(s, "nat", "Global", rs, K)
      BY <1>2, <1>5, <1>6, <1>7 DEF Appends
    <2> QED
      BY <2>1, Filling
  <1>9. ToSet(g) = AcceptRules(cf)
    BY <1>8, <1>a DEF Chosen
  <1> QED
    BY <1>8, <1>9 DEF s

\* SetToSeq leaves nothing out.
LEMMA SetToSeqIsAll ==
    ASSUME NEW S, IsFiniteSet(S)
    PROVE  ToSet(SetToSeq(S)) = S /\ IsInjective(SetToSeq(S))
  <1> DEFINE f == SetToSeq(S)
             D == 1 .. Cardinality(S)
  <1>1. Cardinality(S) \in Nat /\ ExistsBijection(D, S)
    BY FS_CardinalityType
  <1>2. PICK h \in Bijection(D, S) : TRUE
    BY <1>1 DEF ExistsBijection
  <1>3. h \in [D -> S] /\ IsInjective(h)
    BY <1>2 DEF Bijection, Injection, IsInjective
  <1>4. f \in [D -> S] /\ IsInjective(f)
    BY <1>1, <1>3 DEF SetToSeq
  <1>5. f \in Injection(D, S)
    BY <1>4 DEF Injection, IsInjective
  <1>6. Cardinality(D) = Cardinality(S)
    BY <1>1, FS_Interval
  <1> HIDE DEF f, D
  <1>7. f \in Surjection(D, S)
    BY <1>5, <1>6, FS_Injection
  <1>8. DOMAIN f = D /\ \A x \in S : \E i \in D : f[i] = x
    BY <1>4, <1>7 DEF Surjection
  <1>9. ToSet(f) = S
    BY <1>4, <1>8 DEF ToSet
  <1> QED
    BY <1>4, <1>9 DEF f

\* The trusted machines.
TrustedScript == Each(Trusted, LAMBDA m : App("mangle", "Trusted", Rule(If("mac", m), "mark", "known")))
\* The rules of the trusted machines fill their chain.
LEMMA Trusting ==
    ASSUME NEW tb, NEW E \in SUBSET Chains, Standing(tb, E), <<"mangle", "Trusted">> \in E
    PROVE  \E u, g : /\ Puts(TrustedScript, tb, E, <<"mangle", "Trusted">>,
                             tb[<<"mangle", "Trusted">>] \o g, u)
                     /\ g \in Seq(RuleType) /\ ToSet(g) = TrustedRules
  <1> DEFINE q == SetToSeq(Trusted)
             k == Cardinality(Trusted)
             rs == [i \in 1 .. k |-> Rule(If("mac", q[i]), "mark", "known")]
             s == TrustedScript
             K == 1 .. k
  <1>0. IsFiniteSet(Trusted)
    BY ConfigAssumption, FS_Subset
  <1>1. q \in [1 .. k -> Trusted] /\ k \in Nat /\ ToSet(q) = Trusted
    BY <1>0, SetToSeqIsSeq, SetToSeqIsAll
  <1>2. \A m \in Trusted : Rule(If("mac", m), "mark", "known") \in RuleType
    <2>1. <<"mark", "known">> \in Targets /\ "mac" \in Fields /\ Trusted \subseteq Values
      BY ConfigAssumption DEF Targets, Marks, Fields, Values
    <2> QED
      BY <2>1, RuleTypes
  <1>3. s = [i \in 1 .. k |-> App("mangle", "Trusted", Rule(If("mac", q[i]), "mark", "known"))]
    <2>1. DOMAIN q = 1 .. k
      BY <1>1
    <2> HIDE DEF k
    <2> QED
      BY <2>1 DEF TrustedScript, Each
  <1> HIDE DEF s, q, k
  <1>4. rs \in [1 .. k -> RuleType] /\ \A i \in 1 .. k : rs[i].do[1] # "go"
    <2>1. \A m : Rule(If("mac", m), "mark", "known").do[1] # "go"
      BY DEF Rule
    <2> QED
      BY <1>1, <1>2, <2>1
  <1>5. \A i \in 1 .. k : s[i] = App("mangle", "Trusted", rs[i])
    BY <1>3
  <1>6. ToSet(rs) = TrustedRules
    <2>1. DOMAIN q = 1 .. k /\ DOMAIN rs = 1 .. k
      BY <1>1
    <2>2. TrustedRules = {Rule(If("mac", m), "mark", "known") : m \in ToSet(q)}
      BY <1>1 DEF TrustedRules
    <2> QED
      BY <2>1, <2>2 DEF ToSet
  <1> HIDE DEF rs
  <1>7. rs \in Seq(RuleType) /\ Len(rs) = k
    BY <1>1, <1>4
  <1>8. IsSeq(s) /\ Len(s) = k
    <2>1. s \in [1 .. k -> ToSet(s)] /\ k \in Nat
      BY <1>1, <1>3 DEF ToSet
    <2>2. s \in Seq(ToSet(s)) /\ Len(s) = k
      BY <2>1
    <2> QED
      BY <2>2 DEF IsSeq
  <1>9. PICK u, g : /\ Puts(s, tb, E, <<"mangle", "Trusted">>, tb[<<"mangle", "Trusted">>] \o g, u)
                    /\ g \in Seq(RuleType) /\ ToSet(g) = Chosen(rs, K)
                    /\ K = 1 .. Len(rs) => g = rs
    <2>1. K \in SUBSET (1 .. Len(rs)) /\ \A i \in 1 .. Len(rs) : rs[i].do[1] # "go"
      BY <1>4, <1>7
    <2>2. /\ \A i \in K : s[i] = App("mangle", "Trusted", rs[i])
          /\ \A i \in (1 .. Len(rs)) \ K : s[i] = Nothing("mangle", "Trusted")
      BY <1>5, <1>7
    <2> HIDE DEF K
    <2>3. Appends(s, "mangle", "Trusted", rs, K)
      BY <1>7, <1>8, <2>1, <2>2 DEF Appends
    <2> QED
      BY <2>3, Filling
  <1>10. g = rs
    BY <1>7, <1>9
  <1> QED
    BY <1>6, <1>9, <1>10 DEF s

-----------------------------------------------------------------------------
(* The three tables as iptables_fw_init builds them.                       *)

\* The chains of a table.
MangleChains(cf) == {"mangle"} \X MangleNames(cf)
NatChains(cf) == {"nat"} \X NatNames(cf)
FilterChains(cf) == {"filter"} \X FilterNames(cf)

\* Jumps are rules, and what they jump to.
LEMMA JumpFacts ==
    ASSUME NEW n \in Own
    PROVE  /\ Jump(Always, n) \in RuleType /\ Jump(Always, n).do = <<"go", n>>
           /\ \A f \in Fields, v \in Values : Jump(If(f, v), n) \in RuleType /\ Jump(If(f, v),
                n).do = <<"go", n>>
  <1>1. <<"go", n>> \in Targets
    BY DEF Targets
  <1> QED
    BY <1>1, RuleTypes DEF Jump, Rule

\* The mangle table.
LEMMA MangleBuilt ==
    ASSUME NEW cf
    PROVE  \E u : /\ Builds(MangleTable(cf), Base, u) /\ Standing(u, Builtin \cup MangleChains(cf))
                  /\ MangleServes(cf, u, [m \in Macs |-> NoMark], {}, FALSE)
                  /\ \A d \in Chains : d[1] # "mangle" => u[d] = Base[d]
  <1> DEFINE has == HasAuthDown(cf)
             tr == <<"mangle", "Trusted">>
             out == <<"mangle", "Outgoing">>
             inc == <<"mangle", "Incoming">>
             dn == <<"mangle", "AuthDown">>
             pre == <<"mangle", "PREROUTING">>
             post == <<"mangle", "POSTROUTING">>
             E1 == Builtin \cup {tr}
             E2 == E1 \cup {out}
             E3 == E2 \cup {inc}
             E == IF has THEN E3 \cup {dn} ELSE E3
  <1>1. /\ {tr, out, inc, dn} \subseteq Chains \ Builtin /\ {pre, post} \subseteq Builtin
        /\ tr # out /\ tr # inc /\ tr # dn /\ out # inc /\ out # dn /\ inc # dn
        /\ pre # post /\ Builtin \subseteq Chains
    BY DEF Chains, Builtin, Own
  <1>2. E = Builtin \cup MangleChains(cf)
    BY DEF MangleChains, MangleNames, DownNames
  <1>3. /\ tr[1] = "mangle" /\ out[1] = "mangle" /\ inc[1] = "mangle" /\ dn[1] = "mangle"
        /\ pre[1] = "mangle" /\ post[1] = "mangle"
    OBVIOUS
  <1>4. Standing(Base, Builtin)
    <2>1. <<Foreign>> \in Seq(RuleType)
      BY JumpTypes
    <2> QED
      BY <1>1, <2>1 DEF Standing, Base
  <1> DEFINE jo == Jump(Always, "Outgoing")
             jt == Jump(Always, "Trusted")
             jd == Jump(Always, "AuthDown")
             ji == Jump(Always, "Incoming")
  <1>5. /\ jo \in RuleType /\ jo.do = <<"go", "Outgoing">> /\ jt \in RuleType /\ jt.do = <<"go", "Trusted">>
        /\ jd \in RuleType /\ jd.do = <<"go", "AuthDown">> /\ ji \in RuleType /\ ji.do = <<"go",
             "Incoming">>
    <2>1. "Outgoing" \in Own /\ "Trusted" \in Own /\ "AuthDown" \in Own /\ "Incoming" \in Own
      BY DEF Own
    <2> QED
      BY <2>1, JumpFacts
  <1> HIDE DEF has, jo, jt, jd, ji, tr, out, inc, dn, pre, post
  <1>6. /\ E1 \subseteq Chains /\ E2 \subseteq Chains /\ E3 \subseteq Chains /\ E \subseteq Chains
        /\ tr \notin Builtin /\ out \notin E1 /\ inc \notin E2 /\ dn \notin E3
        /\ {tr, out, inc, pre, post} \subseteq E /\ (has => dn \in E)
    BY <1>1
  <1> HIDE DEF E1, E2, E3, E
  <1>7. PICK t1 : Puts(<<New("mangle", "Trusted")>>, Base, E1, tr, <<>>, t1)
    BY <1>1, <1>4, Making DEF tr, E1
  <1>7s. Standing(t1, E1)
    BY <1>7 DEF Puts
  <1>8. PICK t2 : Puts(<<New("mangle", "Outgoing")>>, t1, E2, out, <<>>, t2)
    BY <1>1, <1>6, <1>7s, Making DEF out, E2
  <1>8s. Standing(t2, E2)
    BY <1>8 DEF Puts
  <1>9. PICK t3 : Puts(<<New("mangle", "Incoming")>>, t2, E3, inc, <<>>, t3)
    BY <1>1, <1>6, <1>8s, Making DEF inc, E3
  <1>9s. Standing(t3, E3)
    BY <1>9 DEF Puts
  <1>10. PICK t4 : Puts(Only(has, <<New("mangle", "AuthDown")>>), t3, E, dn, IF has THEN <<>> ELSE Gone, t4)
    BY <1>1, <1>6, <1>9s, OnlyMakes DEF dn, E
  <1>10s. Standing(t4, E)
    BY <1>10 DEF Puts
  <1>11. PICK t5 : Puts(<<Ins("mangle", "PREROUTING", jo)>>, t4, E, pre, <<jo>> \o t4[pre], t5)
    BY <1>5, <1>6, <1>10s, AddingJump DEF out, pre
  <1>11s. Standing(t5, E)
    BY <1>11 DEF Puts
  <1>12. PICK t6 : Puts(<<Ins("mangle", "PREROUTING", jt)>>, t5, E, pre, <<jt>> \o t5[pre], t6)
    BY <1>5, <1>6, <1>11s, AddingJump DEF tr, pre
  <1>12s. Standing(t6, E)
    BY <1>12 DEF Puts
  <1>13. PICK t7 : Puts(Only(has, <<Ins("mangle", "PREROUTING", jd)>>), t6, E, pre,
                        IF has THEN <<jd>> \o t6[pre] ELSE t6[pre], t7)
    <2>2. has => \E u : Puts(<<Ins("mangle", "PREROUTING", jd)>>, t6, E, pre, <<jd>> \o t6[pre], u)
      BY <1>5, <1>6, <1>12s, AddingJump DEF dn, pre
    <2> QED
      BY <1>12s, <2>2, OnlyPuts
  <1>13s. Standing(t7, E)
    BY <1>13 DEF Puts
  <1>14. PICK t8 : Puts(<<Ins("mangle", "POSTROUTING", ji)>>, t7, E, post, <<ji>> \o t7[post], t8)
    BY <1>5, <1>6, <1>13s, AddingJump DEF inc, post
  <1>14s. Standing(t8, E)
    BY <1>14 DEF Puts
  <1>15. PICK u, g : /\ Puts(TrustedScript, t8, E, tr, t8[tr] \o g, u)
                     /\ g \in Seq(RuleType) /\ ToSet(g) = TrustedRules
    BY <1>6, <1>14s, Trusting DEF tr
  <1>16. Builds(MangleTable(cf), Base, u)
    <2> DEFINE a == New("mangle", "Trusted")
               b == New("mangle", "Outgoing")
               c == New("mangle", "Incoming")
               d == Only(has, <<New("mangle", "AuthDown")>>)
               e == Ins("mangle", "PREROUTING", jo)
               f == Ins("mangle", "PREROUTING", jt)
               h == Only(has, <<Ins("mangle", "PREROUTING", jd)>>)
               i == Ins("mangle", "POSTROUTING", ji)
    <2>1. MangleTable(cf) = ((((<<a, b, c>> \o d) \o <<e, f>>) \o h) \o <<i>>) \o TrustedScript
      BY DEF MangleTable, TrustedScript, has, jo, jt, jd, ji
    <2> HIDE DEF a, b, c, d, e, f, h, i
    <2>2. /\ Builds(<<a>>, Base, t1) /\ Builds(<<b>>, t1, t2) /\ Builds(<<c>>, t2, t3) /\ Builds(d, t3, t4)
          /\ Builds(<<e>>, t4, t5) /\ Builds(<<f>>, t5, t6) /\ Builds(h, t6, t7) /\ Builds(<<i>>, t7, t8)
          /\ Builds(TrustedScript, t8, u)
      BY <1>7, <1>8, <1>9, <1>10, <1>11, <1>12, <1>13, <1>14, <1>15 DEF Puts, a, b, c, d, e, f, h, i
    <2>0. <<a, b>> = <<a>> \o <<b>> /\ <<e, f>> = <<e>> \o <<f>> /\ <<a, b, c>> = <<a, b>> \o <<c>>
      <3>1. <<a, b>> = <<a>> \o <<b>>
        BY Tuples, Zenon
      <3>2. <<e, f>> = <<e>> \o <<f>>
        BY Tuples, Zenon
      <3>3. <<a, b, c>> = <<a, b>> \o <<c>>
        OBVIOUS
      <3> QED
        BY <3>1, <3>2, <3>3
    <2>3. Builds(<<a>> \o <<b>>, Base, t2) /\ Builds(<<e>> \o <<f>>, t4, t6)
      BY <2>2, BuildsCat
    <2>9. Builds(<<a, b>>, Base, t2) /\ Builds(<<e, f>>, t4, t6)
      BY <2>0, <2>3
    <2>4. Builds(<<a, b, c>>, Base, t3)
      <3>1. Builds(<<a, b>> \o <<c>>, Base, t3)
        BY <2>2, <2>9, BuildsCat
      <3> QED
        BY <2>0, <3>1
    <2>5. Builds(<<a, b, c>> \o d, Base, t4)
      BY <2>2, <2>4, BuildsCat
    <2>6. Builds((<<a, b, c>> \o d) \o <<e, f>>, Base, t6)
      BY <2>9, <2>5, BuildsCat
    <2>7. Builds(((<<a, b, c>> \o d) \o <<e, f>>) \o h, Base, t7)
      BY <2>2, <2>6, BuildsCat
    <2>8. Builds((((<<a, b, c>> \o d) \o <<e, f>>) \o h) \o <<i>>, Base, t8)
      BY <2>2, <2>7, BuildsCat
    <2> QED
      BY <2>1, <2>2, <2>8, BuildsCat
  <1>17. /\ t1[tr] = <<>> /\ \A d \in Chains \ {tr} : t1[d] = Base[d]
         /\ t2[out] = <<>> /\ \A d \in Chains \ {out} : t2[d] = t1[d]
         /\ t3[inc] = <<>> /\ \A d \in Chains \ {inc} : t3[d] = t2[d]
         /\ t4[dn] = (IF has THEN <<>> ELSE Gone) /\ \A d \in Chains \ {dn} : t4[d] = t3[d]
         /\ t5[pre] = <<jo>> \o t4[pre] /\ \A d \in Chains \ {pre} : t5[d] = t4[d]
         /\ t6[pre] = <<jt>> \o t5[pre] /\ \A d \in Chains \ {pre} : t6[d] = t5[d]
         /\ t7[pre] = (IF has THEN <<jd>> \o t6[pre] ELSE t6[pre])
              /\ \A d \in Chains \ {pre} : t7[d] = t6[d]
         /\ t8[post] = <<ji>> \o t7[post] /\ \A d \in Chains \ {post} : t8[d] = t7[d]
         /\ u[tr] = t8[tr] \o g /\ \A d \in Chains \ {tr} : u[d] = t8[d]
         /\ Standing(u, E)
    BY <1>7, <1>8, <1>9, <1>10, <1>11, <1>12, <1>13, <1>14, <1>15 DEF Puts
  <1>18. \A d \in Chains : d[1] # "mangle" => u[d] = Base[d]
    BY <1>3, <1>17
  <1>19. u[tr] = g
    <2>1. t8[tr] = <<>>
      BY <1>1, <1>17
    <2> QED
      BY <1>15, <1>17, <2>1, ConcatEmptySeq
  <1>20. u[out] = <<>> /\ (has => u[dn] = <<>>)
    BY <1>1, <1>17
  <1>21. u[pre] = MangleIn(cf)
    <2>1. Base[pre] = <<Foreign>>
      BY <1>1 DEF Base
    <2>2. t4[pre] = <<Foreign>>
      BY <1>1, <1>17, <2>1
    <2>3. t6[pre] = <<jt>> \o (<<jo>> \o <<Foreign>>)
      BY <1>17, <2>2
    <2>4. t6[pre] \in Seq(RuleType)
      BY <1>6, <1>12s DEF Standing
    <2>5. u[pre] = IF has THEN <<jd>> \o t6[pre] ELSE t6[pre]
      BY <1>1, <1>17
    <2>6. Only(has, <<jd>>) \o t6[pre] = IF has THEN <<jd>> \o t6[pre] ELSE t6[pre]
      <3>1. CASE has
        BY <3>1 DEF Only
      <3>2. CASE ~has
        BY <3>2, <2>4, ConcatEmptySeq DEF Only
      <3> QED
        BY <3>1, <3>2
    <2> QED
      BY <2>3, <2>5, <2>6 DEF MangleIn, has, jt, jo, jd
  <1>22. MangleServes(cf, u, [m \in Macs |-> NoMark], {}, FALSE)
    <2>1. /\ ClientRules([m \in Macs |-> NoMark]) \cup ZeroRules({}) = {}
          /\ DownRules(FALSE) = {}
      BY DEF ClientRules, ZeroRules, DownRules
    <2>2. IsInjective(<<>>) /\ ZeroFirst(<<>>)
      BY DEF IsInjective, ZeroFirst
    <2> QED
      BY <1>15, <1>19, <1>20, <1>21, <2>1, <2>2, EmptyTuple DEF MangleServes, tr, out, dn, pre, has
  <1>23. Standing(u, Builtin \cup MangleChains(cf))
    BY <1>2, <1>17
  <1> QED
    BY <1>16, <1>18, <1>22, <1>23, Zenon

\* The rules that end a table, and that of TCPMSS.
EndTargets == {"ACCEPT", "DROP", "REJECT", "PORTAL", "PROXY"}
\* Rules that end the table are rules, and jump nowhere.
LEMMA EndFacts ==
    ASSUME NEW v \in EndTargets
    PROVE  /\ End(Always, v) \in RuleType /\ End(Always, v).do[1] # "go"
           /\ \A f \in Fields, x \in Values : End(If(f, x), v) \in RuleType /\ End(If(f, x), v).do[1] # "go"
           /\ \A x \in Values : End(Web(x), v) \in RuleType /\ End(Web(x), v).do[1] # "go"
  <1>1. <<"end", v>> \in Targets
    BY DEF Targets, EndTargets
  <1>2. \A w : End(w, v).do[1] # "go"
    BY DEF End, Rule
  <1> QED
    BY <1>1, <1>2, RuleTypes DEF End
\* The rule of TCPMSS, likewise.
LEMMA NoteFact ==
    Rule(Always, "note", "TCPMSS") \in RuleType /\ Rule(Always, "note", "TCPMSS").do[1] # "go"
  <1>1. <<"note", "TCPMSS">> \in Targets
    BY DEF Targets
  <1>2. Rule(Always, "note", "TCPMSS").do[1] # "go"
    BY DEF Rule
  <1> QED
    BY <1>1, <1>2, RuleTypes

\* Commands in a tuple.
LEMMA BuildsTuple2 ==
    ASSUME NEW e1, NEW e2, NEW a, NEW b, NEW c,
           Builds(<<e1>>, a, b), Builds(<<e2>>, b, c)
    PROVE  Builds(<<e1, e2>>, a, c)
  <1> DEFINE x == <<e1>>
             y == <<e2>>
             z == <<e1, e2>>
  <1>1. z = x \o y
    BY Tuples, Zenon
  <1> HIDE DEF x, y, z
  <1>2. Builds(x \o y, a, c)
    <2>1. Builds(x, a, b) /\ Builds(y, b, c)
      BY DEF x, y
    <2> QED
      BY <2>1, BuildsCat
  <1> QED
    BY <1>1, <1>2 DEF z
LEMMA BuildsTuple3 ==
    ASSUME NEW e1, NEW e2, NEW e3, NEW a, NEW b, NEW c,
           Builds(<<e1, e2>>, a, b), Builds(<<e3>>, b, c)
    PROVE  Builds(<<e1, e2, e3>>, a, c)
  <1> DEFINE x == <<e1, e2>>
             y == <<e3>>
             z == <<e1, e2, e3>>
  <1>1. z = x \o y
    OBVIOUS
  <1> HIDE DEF x, y, z
  <1>2. Builds(x \o y, a, c)
    <2>1. Builds(x, a, b) /\ Builds(y, b, c)
      BY DEF x, y
    <2> QED
      BY <2>1, BuildsCat
  <1> QED
    BY <1>1, <1>2 DEF z
LEMMA BuildsTuple4 ==
    ASSUME NEW e1, NEW e2, NEW e3, NEW e4, NEW a, NEW b, NEW c,
           Builds(<<e1, e2, e3>>, a, b), Builds(<<e4>>, b, c)
    PROVE  Builds(<<e1, e2, e3, e4>>, a, c)
  <1> DEFINE x == <<e1, e2, e3>>
             y == <<e4>>
             z == <<e1, e2, e3, e4>>
  <1>1. z = x \o y
    OBVIOUS
  <1> HIDE DEF x, y, z
  <1>2. Builds(x \o y, a, c)
    <2>1. Builds(x, a, b) /\ Builds(y, b, c)
      BY DEF x, y
    <2> QED
      BY <2>1, BuildsCat
  <1> QED
    BY <1>1, <1>2 DEF z
LEMMA BuildsTuple5 ==
    ASSUME NEW e1, NEW e2, NEW e3, NEW e4, NEW e5, NEW a, NEW b, NEW c,
           Builds(<<e1, e2, e3, e4>>, a, b), Builds(<<e5>>, b, c)
    PROVE  Builds(<<e1, e2, e3, e4, e5>>, a, c)
  <1> DEFINE x == <<e1, e2, e3, e4>>
             y == <<e5>>
             z == <<e1, e2, e3, e4, e5>>
  <1>1. z = x \o y
    OBVIOUS
  <1> HIDE DEF x, y, z
  <1>2. Builds(x \o y, a, c)
    <2>1. Builds(x, a, b) /\ Builds(y, b, c)
      BY DEF x, y
    <2> QED
      BY <2>1, BuildsCat
  <1> QED
    BY <1>1, <1>2 DEF z
LEMMA BuildsTuple6 ==
    ASSUME NEW e1, NEW e2, NEW e3, NEW e4, NEW e5, NEW e6, NEW a, NEW b, NEW c,
           Builds(<<e1, e2, e3, e4, e5>>, a, b), Builds(<<e6>>, b, c)
    PROVE  Builds(<<e1, e2, e3, e4, e5, e6>>, a, c)
  <1> DEFINE x == <<e1, e2, e3, e4, e5>>
             y == <<e6>>
             z == <<e1, e2, e3, e4, e5, e6>>
  <1>1. z = x \o y
    OBVIOUS
  <1> HIDE DEF x, y, z
  <1>2. Builds(x \o y, a, c)
    <2>1. Builds(x, a, b) /\ Builds(y, b, c)
      BY DEF x, y
    <2> QED
      BY <2>1, BuildsCat
  <1> QED
    BY <1>1, <1>2 DEF z
LEMMA BuildsTuple7 ==
    ASSUME NEW e1, NEW e2, NEW e3, NEW e4, NEW e5, NEW e6, NEW e7, NEW a, NEW b, NEW c,
           Builds(<<e1, e2, e3, e4, e5, e6>>, a, b), Builds(<<e7>>, b, c)
    PROVE  Builds(<<e1, e2, e3, e4, e5, e6, e7>>, a, c)
  <1> DEFINE x == <<e1, e2, e3, e4, e5, e6>>
             y == <<e7>>
             z == <<e1, e2, e3, e4, e5, e6, e7>>
  <1>1. z = x \o y
    OBVIOUS
  <1> HIDE DEF x, y, z
  <1>2. Builds(x \o y, a, c)
    <2>1. Builds(x, a, b) /\ Builds(y, b, c)
      BY DEF x, y
    <2> QED
      BY <2>1, BuildsCat
  <1> QED
    BY <1>1, <1>2 DEF z

\* The nat table before the rules of the global set are loaded.
NatBegun(cf, tb) ==
    /\ tb[<<"nat", "PREROUTING">>] = NatIn
    /\ tb[<<"nat", "Outgoing">>] = NatOutgoing
    /\ tb[<<"nat", "Internet">>] = NatInternet(cf)
    /\ tb[<<"nat", "Unknown">>] = NatUnknown(cf)
    /\ tb[<<"nat", "AuthServs">>] = <<>> /\ tb[<<"nat", "Global">>] = <<>>
    /\ HasAuthDown(cf) => tb[<<"nat", "AuthDown">>] = <<End(If("mark", "down"), "ACCEPT")>>
NatBuild(cf, E, tb, u) ==
    /\ Builds(NatTable(cf), tb, u) /\ Standing(u, E \cup NatChains(cf)) /\ NatBegun(cf, u)
    /\ \A d \in Chains : d[1] # "nat" => u[d] = tb[d]

\* The table t has no chains of the gateway yet.
Free(t, E) == E \subseteq Chains /\ Builtin \subseteq E /\ \A n \in Own : <<t, n>> \notin E

\* The nat table, all but the rules of the global set.
LEMMA NatBuilt ==
    ASSUME NEW cf \in Configs, NEW E0, Free("nat", E0),
           NEW tb, Standing(tb, E0), tb[<<"nat", "PREROUTING">>] = <<Foreign>>
    PROVE  \E u : NatBuild(cf, E0, tb, u)
  <1>0. E0 \in SUBSET Chains /\ Builtin \subseteq E0 /\ \A n \in Own : <<"nat", n>> \notin E0
    BY DEF Free
  <1> DEFINE has == HasAuthDown(cf)
             out == <<"nat", "Outgoing">>
             rou == <<"nat", "Router">>
             int == <<"nat", "Internet">>
             glo == <<"nat", "Global">>
             unk == <<"nat", "Unknown">>
             srv == <<"nat", "AuthServs">>
             dn == <<"nat", "AuthDown">>
             pre == <<"nat", "PREROUTING">>
             E1 == E0 \cup {out}
             E2 == E1 \cup {rou}
             E3 == E2 \cup {int}
             E4 == E3 \cup {glo}
             E5 == E4 \cup {unk}
             E6 == E5 \cup {srv}
             E == IF has THEN E6 \cup {dn} ELSE E6
  <1>1. {out, rou, int, glo, unk, srv, dn} \subseteq Chains /\ pre \in E0
    BY <1>0 DEF Chains, Builtin, Own
  <1>2. /\ out # rou /\ out # int /\ out # glo /\ out # unk /\ out # srv /\ out # dn /\ out # pre
        /\ rou # int /\ rou # glo /\ rou # unk /\ rou # srv /\ rou # dn /\ rou # pre
        /\ int # glo /\ int # unk /\ int # srv /\ int # dn /\ int # pre
        /\ glo # unk /\ glo # srv /\ glo # dn /\ glo # pre
        /\ unk # srv /\ unk # dn /\ unk # pre
        /\ srv # dn /\ srv # pre
        /\ dn # pre
    OBVIOUS
  <1>3. {out, rou, int, glo, unk, srv, dn} \cap E0 = {}
    BY <1>0 DEF Own
  <1>4. E0 \cup NatChains(cf) = E
    BY DEF NatChains, NatNames, DownNames
  <1>5. \A d \in {out, rou, int, glo, unk, srv, dn, pre} : d[1] = "nat"
    OBVIOUS
  <1> DEFINE jo == Jump(Always, "Outgoing")
             jr == Jump(If("to", Router), "Router")
             ra == End(Always, "ACCEPT")
             ji == Jump(Always, "Internet")
             pk == End(Web("known"), "PROXY")
             pp == End(Web("probation"), "PROXY")
             ak == End(If("mark", "known"), "ACCEPT")
             ap == End(If("mark", "probation"), "ACCEPT")
             ju == Jump(Always, "Unknown")
             js == Jump(Always, "AuthServs")
             jg == Jump(Always, "Global")
             jd == Jump(Always, "AuthDown")
             ad == End(If("mark", "down"), "ACCEPT")
             pw == End(If("port", "web"), "PORTAL")
  <1>6. /\ jo \in RuleType /\ jo.do = <<"go", "Outgoing">>
        /\ jr \in RuleType /\ jr.do = <<"go", "Router">>
        /\ ra \in RuleType /\ ra.do[1] # "go"
        /\ ji \in RuleType /\ ji.do = <<"go", "Internet">>
        /\ pk \in RuleType /\ pk.do[1] # "go"
        /\ pp \in RuleType /\ pp.do[1] # "go"
        /\ ak \in RuleType /\ ak.do[1] # "go"
        /\ ap \in RuleType /\ ap.do[1] # "go"
        /\ ju \in RuleType /\ ju.do = <<"go", "Unknown">>
        /\ js \in RuleType /\ js.do = <<"go", "AuthServs">>
        /\ jg \in RuleType /\ jg.do = <<"go", "Global">>
        /\ jd \in RuleType /\ jd.do = <<"go", "AuthDown">>
        /\ ad \in RuleType /\ ad.do[1] # "go"
        /\ pw \in RuleType /\ pw.do[1] # "go"
    <2>1. {"ACCEPT", "DROP", "REJECT", "PORTAL", "PROXY"} = EndTargets /\ {"Outgoing", "Router",
            "Internet", "Global", "Unknown", "AuthServs", "AuthDown"} \subseteq Own
      BY DEF EndTargets, Own
    <2>2. {"to", "mark", "port", "state"} \subseteq Fields /\ {Router, "web", "invalid", "known",
            "probation", "down", "locked"} \subseteq Values
      BY ConfigAssumption DEF Fields, Values, Marks
    <2>3. jo \in RuleType /\ jo.do = <<"go", "Outgoing">>
      BY <2>1, <2>2, JumpFacts
    <2>4. jr \in RuleType /\ jr.do = <<"go", "Router">>
      BY <2>1, <2>2, JumpFacts
    <2>5. ra \in RuleType /\ ra.do[1] # "go"
      BY <2>1, <2>2, EndFacts
    <2>6. ji \in RuleType /\ ji.do = <<"go", "Internet">>
      BY <2>1, <2>2, JumpFacts
    <2>7. pk \in RuleType /\ pk.do[1] # "go"
      BY <2>1, <2>2, EndFacts
    <2>8. pp \in RuleType /\ pp.do[1] # "go"
      BY <2>1, <2>2, EndFacts
    <2>9. ak \in RuleType /\ ak.do[1] # "go"
      BY <2>1, <2>2, EndFacts
    <2>10. ap \in RuleType /\ ap.do[1] # "go"
      BY <2>1, <2>2, EndFacts
    <2>11. ju \in RuleType /\ ju.do = <<"go", "Unknown">>
      BY <2>1, <2>2, JumpFacts
    <2>12. js \in RuleType /\ js.do = <<"go", "AuthServs">>
      BY <2>1, <2>2, JumpFacts
    <2>13. jg \in RuleType /\ jg.do = <<"go", "Global">>
      BY <2>1, <2>2, JumpFacts
    <2>14. jd \in RuleType /\ jd.do = <<"go", "AuthDown">>
      BY <2>1, <2>2, JumpFacts
    <2>15. ad \in RuleType /\ ad.do[1] # "go"
      BY <2>1, <2>2, EndFacts
    <2>16. pw \in RuleType /\ pw.do[1] # "go"
      BY <2>1, <2>2, EndFacts
    <2> QED
      BY <2>3, <2>4, <2>5, <2>6, <2>7, <2>8, <2>9, <2>10, <2>11, <2>12, <2>13, <2>14, <2>15, <2>16
  <1> HIDE DEF has, jo, jr, ra, ji, pk, pp, ak, ap, ju, js, jg, jd, ad, pw, out, rou, int, glo, unk,
        srv, dn, pre
  <1>7. /\ E1 \subseteq Chains /\ E2 \subseteq Chains /\ E3 \subseteq Chains /\ E4 \subseteq Chains
             /\ E5 \subseteq Chains /\ E6 \subseteq Chains /\ E \subseteq Chains
        /\ out \notin E0 /\ rou \notin E1 /\ int \notin E2 /\ glo \notin E3 /\ unk \notin E4
             /\ srv \notin E5 /\ dn \notin E6
        /\ {out, rou, int, glo, unk, srv, pre} \subseteq E /\ (has => dn \in E) /\ E0 \subseteq E
    BY <1>0, <1>1, <1>2, <1>3
  <1> HIDE DEF E1, E2, E3, E4, E5, E6, E
  <1>8. PICK t1 : Puts(<<New("nat", "Outgoing")>>, tb, E1, out, <<>>, t1)
    BY <1>1, <1>7, Making DEF out, E1
  <1>8s. Standing(t1, E1)
    BY <1>8 DEF Puts
  <1>9. PICK t2 : Puts(<<New("nat", "Router")>>, t1, E2, rou, <<>>, t2)
    BY <1>1, <1>7, <1>8s, Making DEF rou, E2
  <1>9s. Standing(t2, E2)
    BY <1>9 DEF Puts
  <1>10. PICK t3 : Puts(<<New("nat", "Internet")>>, t2, E3, int, <<>>, t3)
    BY <1>1, <1>7, <1>9s, Making DEF int, E3
  <1>10s. Standing(t3, E3)
    BY <1>10 DEF Puts
  <1>11. PICK t4 : Puts(<<New("nat", "Global")>>, t3, E4, glo, <<>>, t4)
    BY <1>1, <1>7, <1>10s, Making DEF glo, E4
  <1>11s. Standing(t4, E4)
    BY <1>11 DEF Puts
  <1>12. PICK t5 : Puts(<<New("nat", "Unknown")>>, t4, E5, unk, <<>>, t5)
    BY <1>1, <1>7, <1>11s, Making DEF unk, E5
  <1>12s. Standing(t5, E5)
    BY <1>12 DEF Puts
  <1>13. PICK t6 : Puts(<<New("nat", "AuthServs")>>, t5, E6, srv, <<>>, t6)
    BY <1>1, <1>7, <1>12s, Making DEF srv, E6
  <1>13s. Standing(t6, E6)
    BY <1>13 DEF Puts
  <1>14. PICK t7 : Puts(Only(has, <<New("nat", "AuthDown")>>), t6, E, dn, IF has THEN <<>> ELSE Gone, t7)
    BY <1>1, <1>7, <1>13s, OnlyMakes DEF dn, E
  <1>14s. Standing(t7, E)
    BY <1>14 DEF Puts
  <1>15. PICK t8 : Puts(<<App("nat", "PREROUTING", jo)>>, t7, E, pre, t7[pre] \o <<jo>>, t8)
    BY <1>6, <1>7, <1>14s, AddingJump DEF pre, out
  <1>15s. Standing(t8, E)
    BY <1>15 DEF Puts
  <1>16. PICK t9 : Puts(<<App("nat", "Outgoing", jr)>>, t8, E, out, t8[out] \o <<jr>>, t9)
    BY <1>6, <1>7, <1>15s, AddingJump DEF out, rou
  <1>16s. Standing(t9, E)
    BY <1>16 DEF Puts
  <1>17. PICK t10 : Puts(<<App("nat", "Router", ra)>>, t9, E, rou, t9[rou] \o <<ra>>, t10)
    BY <1>6, <1>7, <1>16s, AddingEnd DEF rou
  <1>17s. Standing(t10, E)
    BY <1>17 DEF Puts
  <1>18. PICK t11 : Puts(<<App("nat", "Outgoing", ji)>>, t10, E, out, t10[out] \o <<ji>>, t11)
    BY <1>6, <1>7, <1>17s, AddingJump DEF out, int
  <1>18s. Standing(t11, E)
    BY <1>18 DEF Puts
  <1>19. PICK t12 : Puts(Only(cf.proxy, <<App("nat", "Internet", pk), App("nat", "Internet", pp)>>),
           t11, E, int,
                        IF cf.proxy THEN (t11[int] \o <<pk>>) \o <<pp>> ELSE t11[int], t12)
    <2> DEFINE a == App("nat", "Internet", pk)
               b == App("nat", "Internet", pp)
    <2>1. PICK v : Puts(<<a>>, t11, E, int, t11[int] \o <<pk>>, v)
      BY <1>6, <1>7, <1>18s, AddingEnd DEF int
    <2>2. Standing(v, E) /\ v[int] = t11[int] \o <<pk>>
      BY <2>1 DEF Puts
    <2>3. PICK x : Puts(<<b>>, v, E, int, v[int] \o <<pp>>, x)
      BY <1>6, <1>7, <2>2, AddingEnd DEF int
    <2> HIDE DEF a, b
    <2>4. <<a, b>> = <<a>> \o <<b>>
      BY Tuples, Zenon
    <2>5. Puts(<<a>> \o <<b>>, t11, E, int, v[int] \o <<pp>>, x)
      BY <2>1, <2>3, PutsCat
    <2>6. Puts(<<a, b>>, t11, E, int, (t11[int] \o <<pk>>) \o <<pp>>, x)
      BY <2>2, <2>4, <2>5
    <2>7. cf.proxy => \E y : Puts(<<a, b>>, t11, E, int, (t11[int] \o <<pk>>) \o <<pp>>, y)
      BY <2>6
    <2> QED
      BY <1>18s, <2>7, OnlyPuts DEF a, b
  <1>19s. Standing(t12, E)
    BY <1>19 DEF Puts
  <1>20. PICK t13 : Puts(<<App("nat", "Internet", ak)>>, t12, E, int, t12[int] \o <<ak>>, t13)
    BY <1>6, <1>7, <1>19s, AddingEnd DEF int
  <1>20s. Standing(t13, E)
    BY <1>20 DEF Puts
  <1>21. PICK t14 : Puts(<<App("nat", "Internet", ap)>>, t13, E, int, t13[int] \o <<ap>>, t14)
    BY <1>6, <1>7, <1>20s, AddingEnd DEF int
  <1>21s. Standing(t14, E)
    BY <1>21 DEF Puts
  <1>22. PICK t15 : Puts(<<App("nat", "Internet", ju)>>, t14, E, int, t14[int] \o <<ju>>, t15)
    BY <1>6, <1>7, <1>21s, AddingJump DEF int, unk
  <1>22s. Standing(t15, E)
    BY <1>22 DEF Puts
  <1>23. PICK t16 : Puts(<<App("nat", "Unknown", js)>>, t15, E, unk, t15[unk] \o <<js>>, t16)
    BY <1>6, <1>7, <1>22s, AddingJump DEF unk, srv
  <1>23s. Standing(t16, E)
    BY <1>23 DEF Puts
  <1>24. PICK t17 : Puts(<<App("nat", "Unknown", jg)>>, t16, E, unk, t16[unk] \o <<jg>>, t17)
    BY <1>6, <1>7, <1>23s, AddingJump DEF unk, glo
  <1>24s. Standing(t17, E)
    BY <1>24 DEF Puts
  <1>25. PICK t18 : Puts(Only(has, <<App("nat", "Unknown", jd)>>), t17, E, unk, IF has THEN t17[unk]
           \o <<jd>> ELSE t17[unk], t18)
    <2>1. has => \E v : Puts(<<App("nat", "Unknown", jd)>>, t17, E, unk, t17[unk] \o <<jd>>, v)
      BY <1>6, <1>7, <1>24s, AddingJump DEF unk, dn
    <2> QED
      BY <1>24s, <2>1, OnlyPuts
  <1>25s. Standing(t18, E)
    BY <1>25 DEF Puts
  <1>26. PICK t19 : Puts(Only(has, <<App("nat", "AuthDown", ad)>>), t18, E, dn, IF has THEN t18[dn]
           \o <<ad>> ELSE t18[dn], t19)
    <2>1. has => \E v : Puts(<<App("nat", "AuthDown", ad)>>, t18, E, dn, t18[dn] \o <<ad>>, v)
      BY <1>6, <1>7, <1>25s, AddingEnd DEF dn
    <2> QED
      BY <1>25s, <2>1, OnlyPuts
  <1>26s. Standing(t19, E)
    BY <1>26 DEF Puts
  <1>27. PICK u : Puts(<<App("nat", "Unknown", pw)>>, t19, E, unk, t19[unk] \o <<pw>>, u)
    BY <1>6, <1>7, <1>26s, AddingEnd DEF unk
  <1>27s. Standing(u, E)
    BY <1>27 DEF Puts
  <1>28. Builds(NatTable(cf), tb, u)
    <2> DEFINE p1 == <<New("nat", "Outgoing"), New("nat", "Router"), New("nat", "Internet"), New("nat",
                 "Global"), New("nat", "Unknown"), New("nat", "AuthServs")>>
               p2 == Only(has, <<New("nat", "AuthDown")>>)
               p3 == <<App("nat", "PREROUTING", jo), App("nat", "Outgoing", jr), App("nat", "Router",
                 ra), App("nat", "Outgoing", ji)>>
               p4 == Only(cf.proxy, <<App("nat", "Internet", pk), App("nat", "Internet", pp)>>)
               p5 == <<App("nat", "Internet", ak), App("nat", "Internet", ap), App("nat", "Internet",
                 ju), App("nat", "Unknown", js), App("nat", "Unknown", jg)>>
               p6 == Only(has, <<App("nat", "Unknown", jd)>>) \o Only(has, <<App("nat", "AuthDown", ad)>>)
               p7 == <<App("nat", "Unknown", pw)>>
    <2>0. Only(has, <<App("nat", "Unknown", jd), App("nat", "AuthDown", ad)>>) = p6
      <3> DEFINE x == App("nat", "Unknown", jd)
                 y == App("nat", "AuthDown", ad)
      <3> HIDE DEF x, y
      <3>1. <<x, y>> = <<x>> \o <<y>>
        BY Tuples, Zenon
      <3>2. Only(has, <<x, y>>) = Only(has, <<x>>) \o Only(has, <<y>>)
        <4>1. <<>> \o <<>> = <<>>
          BY ConcatEmptySeq, EmptyTuple
        <4> QED
          BY <3>1, <4>1 DEF Only
      <3> QED
        BY <3>2 DEF x, y
    <2>1. NatTable(cf) = (((((p1 \o p2) \o p3) \o p4) \o p5) \o p6) \o p7
      <3> HIDE DEF p6
      <3> QED
        BY <2>0 DEF NatTable, has, jo, jr, ra, ji, pk, pp, ak, ap, ju, js, jg, jd, ad, pw
    <2>2. Builds(p1, tb, t6)
      <3> DEFINE c1 == New("nat", "Outgoing")
                 c2 == New("nat", "Router")
                 c3 == New("nat", "Internet")
                 c4 == New("nat", "Global")
                 c5 == New("nat", "Unknown")
                 c6 == New("nat", "AuthServs")
      <3>1. Builds(<<c1>>, tb, t1)
        BY <1>8 DEF Puts
      <3>2. Builds(<<c2>>, t1, t2)
        BY <1>9 DEF Puts
      <3>3. Builds(<<c3>>, t2, t3)
        BY <1>10 DEF Puts
      <3>4. Builds(<<c4>>, t3, t4)
        BY <1>11 DEF Puts
      <3>5. Builds(<<c5>>, t4, t5)
        BY <1>12 DEF Puts
      <3>6. Builds(<<c6>>, t5, t6)
        BY <1>13 DEF Puts
      <3> HIDE DEF c1, c2, c3, c4, c5, c6
      <3>7. Builds(<<c1, c2>>, tb, t2)
        BY <3>1, <3>2, BuildsTuple2
      <3>8. Builds(<<c1, c2, c3>>, tb, t3)
        BY <3>7, <3>3, BuildsTuple3
      <3>9. Builds(<<c1, c2, c3, c4>>, tb, t4)
        BY <3>8, <3>4, BuildsTuple4
      <3>10. Builds(<<c1, c2, c3, c4, c5>>, tb, t5)
        BY <3>9, <3>5, BuildsTuple5
      <3>11. Builds(<<c1, c2, c3, c4, c5, c6>>, tb, t6)
        BY <3>10, <3>6, BuildsTuple6
      <3> QED
        BY <3>11 DEF c1, c2, c3, c4, c5, c6
    <2>3. Builds(p2, t6, t7)
      BY <1>14 DEF Puts
    <2>4. Builds(p3, t7, t11)
      <3> DEFINE c1 == App("nat", "PREROUTING", jo)
                 c2 == App("nat", "Outgoing", jr)
                 c3 == App("nat", "Router", ra)
                 c4 == App("nat", "Outgoing", ji)
      <3>1. Builds(<<c1>>, t7, t8)
        BY <1>15 DEF Puts
      <3>2. Builds(<<c2>>, t8, t9)
        BY <1>16 DEF Puts
      <3>3. Builds(<<c3>>, t9, t10)
        BY <1>17 DEF Puts
      <3>4. Builds(<<c4>>, t10, t11)
        BY <1>18 DEF Puts
      <3> HIDE DEF c1, c2, c3, c4
      <3>5. Builds(<<c1, c2>>, t7, t9)
        BY <3>1, <3>2, BuildsTuple2
      <3>6. Builds(<<c1, c2, c3>>, t7, t10)
        BY <3>5, <3>3, BuildsTuple3
      <3>7. Builds(<<c1, c2, c3, c4>>, t7, t11)
        BY <3>6, <3>4, BuildsTuple4
      <3> QED
        BY <3>7 DEF c1, c2, c3, c4
    <2>5. Builds(p4, t11, t12)
      BY <1>19 DEF Puts
    <2>6. Builds(p5, t12, t17)
      <3> DEFINE c1 == App("nat", "Internet", ak)
                 c2 == App("nat", "Internet", ap)
                 c3 == App("nat", "Internet", ju)
                 c4 == App("nat", "Unknown", js)
                 c5 == App("nat", "Unknown", jg)
      <3>1. Builds(<<c1>>, t12, t13)
        BY <1>20 DEF Puts
      <3>2. Builds(<<c2>>, t13, t14)
        BY <1>21 DEF Puts
      <3>3. Builds(<<c3>>, t14, t15)
        BY <1>22 DEF Puts
      <3>4. Builds(<<c4>>, t15, t16)
        BY <1>23 DEF Puts
      <3>5. Builds(<<c5>>, t16, t17)
        BY <1>24 DEF Puts
      <3> HIDE DEF c1, c2, c3, c4, c5
      <3>6. Builds(<<c1, c2>>, t12, t14)
        BY <3>1, <3>2, BuildsTuple2
      <3>7. Builds(<<c1, c2, c3>>, t12, t15)
        BY <3>6, <3>3, BuildsTuple3
      <3>8. Builds(<<c1, c2, c3, c4>>, t12, t16)
        BY <3>7, <3>4, BuildsTuple4
      <3>9. Builds(<<c1, c2, c3, c4, c5>>, t12, t17)
        BY <3>8, <3>5, BuildsTuple5
      <3> QED
        BY <3>9 DEF c1, c2, c3, c4, c5
    <2>7. Builds(p6, t17, t19)
      <3>1. Builds(Only(has, <<App("nat", "Unknown", jd)>>), t17, t18)
        BY <1>25 DEF Puts
      <3>2. Builds(Only(has, <<App("nat", "AuthDown", ad)>>), t18, t19)
        BY <1>26 DEF Puts
      <3> QED
        BY <3>1, <3>2, BuildsCat
    <2>8. Builds(p7, t19, u)
      BY <1>27 DEF Puts
    <2> HIDE DEF p1, p2, p3, p4, p5, p6, p7
    <2>9. Builds(p1 \o p2, tb, t7)
      BY <2>2, <2>3, BuildsCat
    <2>10. Builds((p1 \o p2) \o p3, tb, t11)
      BY <2>9, <2>4, BuildsCat
    <2>11. Builds(((p1 \o p2) \o p3) \o p4, tb, t12)
      BY <2>10, <2>5, BuildsCat
    <2>12. Builds((((p1 \o p2) \o p3) \o p4) \o p5, tb, t17)
      BY <2>11, <2>6, BuildsCat
    <2>13. Builds(((((p1 \o p2) \o p3) \o p4) \o p5) \o p6, tb, t19)
      BY <2>12, <2>7, BuildsCat
    <2>14. Builds((((((p1 \o p2) \o p3) \o p4) \o p5) \o p6) \o p7, tb, u)
      BY <2>13, <2>8, BuildsCat
    <2> QED
      BY <2>1, <2>14
  <1>29. /\ t1[out] = <<>>
         /\ t2[rou] = <<>>
         /\ t3[int] = <<>>
         /\ t4[glo] = <<>>
         /\ t5[unk] = <<>>
         /\ t6[srv] = <<>>
         /\ t7[dn] = (IF has THEN <<>> ELSE Gone)
         /\ t8[pre] = t7[pre] \o <<jo>>
         /\ t9[out] = t8[out] \o <<jr>>
         /\ t10[rou] = t9[rou] \o <<ra>>
         /\ t11[out] = t10[out] \o <<ji>>
         /\ t12[int] = (IF cf.proxy THEN (t11[int] \o <<pk>>) \o <<pp>> ELSE t11[int])
         /\ t13[int] = t12[int] \o <<ak>>
         /\ t14[int] = t13[int] \o <<ap>>
         /\ t15[int] = t14[int] \o <<ju>>
         /\ t16[unk] = t15[unk] \o <<js>>
         /\ t17[unk] = t16[unk] \o <<jg>>
         /\ t18[unk] = (IF has THEN t17[unk] \o <<jd>> ELSE t17[unk])
         /\ t19[dn] = (IF has THEN t18[dn] \o <<ad>> ELSE t18[dn])
         /\ u[unk] = t19[unk] \o <<pw>>
    BY <1>8, <1>9, <1>10, <1>11, <1>12, <1>13, <1>14, <1>15, <1>16, <1>17, <1>18, <1>19, <1>20, <1>21,
         <1>22, <1>23, <1>24, <1>25, <1>26, <1>27 DEF Puts
  <1>30. /\ \A d \in Chains \ {out} : t1[d] = tb[d]
         /\ \A d \in Chains \ {rou} : t2[d] = t1[d]
         /\ \A d \in Chains \ {int} : t3[d] = t2[d]
         /\ \A d \in Chains \ {glo} : t4[d] = t3[d]
         /\ \A d \in Chains \ {unk} : t5[d] = t4[d]
         /\ \A d \in Chains \ {srv} : t6[d] = t5[d]
         /\ \A d \in Chains \ {dn} : t7[d] = t6[d]
         /\ \A d \in Chains \ {pre} : t8[d] = t7[d]
         /\ \A d \in Chains \ {out} : t9[d] = t8[d]
         /\ \A d \in Chains \ {rou} : t10[d] = t9[d]
         /\ \A d \in Chains \ {out} : t11[d] = t10[d]
         /\ \A d \in Chains \ {int} : t12[d] = t11[d]
         /\ \A d \in Chains \ {int} : t13[d] = t12[d]
         /\ \A d \in Chains \ {int} : t14[d] = t13[d]
         /\ \A d \in Chains \ {int} : t15[d] = t14[d]
         /\ \A d \in Chains \ {unk} : t16[d] = t15[d]
         /\ \A d \in Chains \ {unk} : t17[d] = t16[d]
         /\ \A d \in Chains \ {unk} : t18[d] = t17[d]
         /\ \A d \in Chains \ {dn} : t19[d] = t18[d]
         /\ \A d \in Chains \ {unk} : u[d] = t19[d]
    BY <1>8, <1>9, <1>10, <1>11, <1>12, <1>13, <1>14, <1>15, <1>16, <1>17, <1>18, <1>19, <1>20, <1>21,
         <1>22, <1>23, <1>24, <1>25, <1>26, <1>27 DEF Puts
  <1>31. t8[out] = t1[out] /\ t10[out] = t9[out] /\ u[out] = t11[out]
    <2>1. out \in Chains /\ out # rou /\ out # int /\ out # glo /\ out # unk /\ out # srv
            /\ out # dn /\ out # pre
      BY <1>0, <1>1, <1>2
    <2> QED
      BY <2>1, <1>30
  <1>32. t1[rou] = tb[rou] /\ t9[rou] = t2[rou] /\ u[rou] = t10[rou]
    <2>1. rou \in Chains /\ rou # out /\ rou # int /\ rou # glo /\ rou # unk /\ rou # srv
            /\ rou # dn /\ rou # pre
      BY <1>0, <1>1, <1>2
    <2> QED
      BY <2>1, <1>30
  <1>33. t2[int] = tb[int] /\ t11[int] = t3[int] /\ u[int] = t15[int]
    <2>1. int \in Chains /\ int # out /\ int # rou /\ int # glo /\ int # unk /\ int # srv
            /\ int # dn /\ int # pre
      BY <1>0, <1>1, <1>2
    <2> QED
      BY <2>1, <1>30
  <1>34. t3[glo] = tb[glo] /\ u[glo] = t4[glo]
    <2>1. glo \in Chains /\ glo # out /\ glo # rou /\ glo # int /\ glo # unk /\ glo # srv
            /\ glo # dn /\ glo # pre
      BY <1>0, <1>1, <1>2
    <2> QED
      BY <2>1, <1>30
  <1>35. t4[unk] = tb[unk] /\ t15[unk] = t5[unk] /\ t19[unk] = t18[unk]
    <2>1. unk \in Chains /\ unk # out /\ unk # rou /\ unk # int /\ unk # glo /\ unk # srv
            /\ unk # dn /\ unk # pre
      BY <1>0, <1>1, <1>2
    <2> QED
      BY <2>1, <1>30
  <1>36. t5[srv] = tb[srv] /\ u[srv] = t6[srv]
    <2>1. srv \in Chains /\ srv # out /\ srv # rou /\ srv # int /\ srv # glo /\ srv # unk
            /\ srv # dn /\ srv # pre
      BY <1>0, <1>1, <1>2
    <2> QED
      BY <2>1, <1>30
  <1>37. t6[dn] = tb[dn] /\ t18[dn] = t7[dn] /\ u[dn] = t19[dn]
    <2>1. dn \in Chains /\ dn # out /\ dn # rou /\ dn # int /\ dn # glo /\ dn # unk /\ dn # srv /\ dn # pre
      BY <1>0, <1>1, <1>2
    <2> QED
      BY <2>1, <1>30
  <1>38. t7[pre] = tb[pre] /\ u[pre] = t8[pre]
    <2>1. pre \in Chains /\ pre # out /\ pre # rou /\ pre # int /\ pre # glo /\ pre # unk
            /\ pre # srv /\ pre # dn
      BY <1>0, <1>1, <1>2
    <2> QED
      BY <2>1, <1>30
  <1>39. \A d \in Chains : d[1] # "nat" => u[d] = tb[d]
    <2> TAKE d \in Chains
    <2> HAVE d[1] # "nat"
    <2>1. d \notin {out, rou, int, glo, unk, srv, dn, pre}
      BY <1>5
    <2> QED
      BY <2>1, <1>30
  <1>40. u[pre] = NatIn
    BY <1>38, <1>29 DEF NatIn, jo, pre
  <1>41. u[out] = NatOutgoing
    <2>1. <<>> \o <<jr>> = <<jr>>
      OBVIOUS
    <2> QED
      BY <2>1, <1>31, <1>29 DEF NatOutgoing, jr, ji
  <1>42. u[int] = NatInternet(cf)
    <2> DEFINE p == Only(cf.proxy, <<pk, pp>>)
    <2>1. t11[int] = <<>>
      BY <1>33, <1>29
    <2>2. t12[int] = p
      <3>1. <<>> \o <<pk>> = <<pk>>
        OBVIOUS
      <3>2. <<pk, pp>> = <<pk>> \o <<pp>>
        BY Tuples, Zenon
      <3>3. t12[int] = IF cf.proxy THEN (t11[int] \o <<pk>>) \o <<pp>> ELSE t11[int]
        BY <1>29
      <3> QED
        BY <2>1, <3>1, <3>2, <3>3 DEF Only
    <2> HIDE DEF p
    <2>3. u[int] = ((p \o <<ak>>) \o <<ap>>) \o <<ju>>
      BY <2>2, <1>29, <1>33
    <2> QED
      BY <2>3 DEF NatInternet, pk, pp, ak, ap, ju, p
  <1>43. u[unk] = NatUnknown(cf)
    <2> DEFINE s == <<js>> \o <<jg>>
               p == Only(has, <<jd>>)
    <2>2. t17[unk] = s
      <3>1. <<>> \o <<js>> = <<js>>
        OBVIOUS
      <3> QED
        BY <3>1, <1>29, <1>35
    <2>3. t18[unk] = s \o p
      <3>1. s \in Seq(RuleType)
        BY <1>6
      <3>4. t18[unk] = IF has THEN s \o <<jd>> ELSE s
        BY <2>2, <1>29
      <3> HIDE DEF s
      <3>2. CASE has
        BY <3>2, <3>4 DEF Only
      <3>3. CASE ~has
        <4>1. s \o <<>> = s
          BY <3>1, ConcatEmptySeq
        <4> QED
          BY <3>3, <4>1, <3>4 DEF Only
      <3> QED
        BY <3>2, <3>3
    <2> HIDE DEF s, p
    <2>4. u[unk] = (s \o p) \o <<pw>>
      BY <2>3, <1>29, <1>35
    <2> QED
      BY <2>4 DEF NatUnknown, js, jg, jd, pw, has, s, p
  <1>44. u[srv] = <<>> /\ u[glo] = <<>>
    BY <1>29, <1>36, <1>34
  <1>45. has => u[dn] = <<ad>>
    <2>1. <<>> \o <<ad>> = <<ad>>
      OBVIOUS
    <2>2. has => t18[dn] = <<>> /\ t19[dn] = t18[dn] \o <<ad>>
      BY <1>29, <1>37
    <2> QED
      BY <2>1, <2>2, <1>37
  <1>46. NatBegun(cf, u)
    BY <1>40, <1>41, <1>42, <1>43, <1>44, <1>45 DEF NatBegun, pre, out, int, unk, srv, glo, dn, has, ad
  <1>47. Builds(NatTable(cf), tb, u)
    BY <1>28
  <1> QED
    BY <1>4, <1>27s, <1>39, <1>46, <1>47, Zenon DEF NatBuild

FilterBuild(cf, E, tb, u) ==
    /\ Builds(FilterTable(cf), tb, u) /\ Standing(u, E \cup FilterChains(cf))
    /\ FilterServes(cf, u, {}, <<>>)
    /\ ToSet(u[<<"nat", "Global">>]) = AcceptRules(cf)
    /\ \A d \in Chains : (d[1] # "filter" /\ d # <<"nat", "Global">>) => u[d] = tb[d]

\* There are no servers yet.
LEMMA NoServers ==
    ASSUME servers = {} PROVE SetAuthServers(servers) = <<>>
  <1> DEFINE s == SetToSeq({})
  <1>1. IsFiniteSet({}) /\ Cardinality({}) = 0
    BY FS_EmptySet
  <1>2. s \in [1 .. 0 -> {}]
    BY <1>1, SetToSeqIsSeq
  <1> HIDE DEF s
  <1>3. Len(s) = 0
    <2>1. s \in Seq({})
      BY <1>2
    <2> QED
      BY <1>2, <2>1
  <1>4. SetToSeq(servers) = s
    BY DEF s
  <1>5. SetAuthServers(servers) =
           [i \in 1 .. (2 * Len(s)) |->
              App(IF i % 2 = 1 THEN "filter" ELSE "nat", "AuthServs", ServerRule(s[(i + 1) \div 2]))]
    BY <1>4 DEF SetAuthServers
  <1> QED
    BY <1>3, <1>5

\* The filter table, and the rules of the global set in the nat table.
LEMMA FilterBuilt ==
    ASSUME NEW cf \in Configs, NEW E0, Free("filter", E0),
           <<"nat", "Global">> \in E0, servers = {},
           NEW tb, Standing(tb, E0), tb[<<"nat", "Global">>] = <<>>, tb[<<"filter",
             "FORWARD">>] = <<Foreign>>
    PROVE  \E u : FilterBuild(cf, E0, tb, u)
  <1>0. E0 \in SUBSET Chains /\ Builtin \subseteq E0 /\ \A n \in Own : <<"filter", n>> \notin E0
    BY DEF Free
  <1> DEFINE has == HasAuthDown(cf)
             int == <<"filter", "Internet">>
             srv == <<"filter", "AuthServs">>
             loc == <<"filter", "Locked">>
             glo == <<"filter", "Global">>
             val == <<"filter", "Validate">>
             kno == <<"filter", "Known">>
             unk == <<"filter", "Unknown">>
             dn == <<"filter", "AuthDown">>
             fwd == <<"filter", "FORWARD">>
             ng == <<"nat", "Global">>
             E1 == E0 \cup {int}
             E2 == E1 \cup {srv}
             E3 == E2 \cup {loc}
             E4 == E3 \cup {glo}
             E5 == E4 \cup {val}
             E6 == E5 \cup {kno}
             E7 == E6 \cup {unk}
             E == IF has THEN E7 \cup {dn} ELSE E7
  <1>1. {int, srv, loc, glo, val, kno, unk, dn} \subseteq Chains /\ fwd \in E0
    BY <1>0 DEF Chains, Builtin, Own
  <1>2. /\ int # srv /\ int # loc /\ int # glo /\ int # val /\ int # kno /\ int # unk /\ int # dn
             /\ int # fwd
        /\ srv # loc /\ srv # glo /\ srv # val /\ srv # kno /\ srv # unk /\ srv # dn /\ srv # fwd
        /\ loc # glo /\ loc # val /\ loc # kno /\ loc # unk /\ loc # dn /\ loc # fwd
        /\ glo # val /\ glo # kno /\ glo # unk /\ glo # dn /\ glo # fwd
        /\ val # kno /\ val # unk /\ val # dn /\ val # fwd
        /\ kno # unk /\ kno # dn /\ kno # fwd
        /\ unk # dn /\ unk # fwd
        /\ dn # fwd
    OBVIOUS
  <1>e. ng \in E0 /\ ng \in Chains
        /\ ng # int /\ ng # srv /\ ng # loc /\ ng # glo /\ ng # val /\ ng # kno /\ ng # unk
             /\ ng # dn /\ ng # fwd
    BY DEF Chains, Own
  <1>3. {int, srv, loc, glo, val, kno, unk, dn} \cap E0 = {}
    BY <1>0 DEF Own
  <1>4. E0 \cup FilterChains(cf) = E
    BY DEF FilterChains, FilterNames, DownNames
  <1>5. \A d \in {int, srv, loc, glo, val, kno, unk, dn, fwd} : d[1] = "filter"
    OBVIOUS
  <1> DEFINE ji == Jump(Always, "Internet")
             iv == End(If("state", "invalid"), "DROP")
             tc == Rule(Always, "note", "TCPMSS")
             js == Jump(Always, "AuthServs")
             jl == Jump(If("mark", "locked"), "Locked")
             jg == Jump(Always, "Global")
             jv == Jump(If("mark", "probation"), "Validate")
             jk == Jump(If("mark", "known"), "Known")
             jd == Jump(If("mark", "down"), "AuthDown")
             ju == Jump(Always, "Unknown")
             rj == End(Always, "REJECT")
  <1>6. /\ ji \in RuleType /\ ji.do = <<"go", "Internet">>
        /\ iv \in RuleType /\ iv.do[1] # "go"
        /\ tc \in RuleType /\ tc.do[1] # "go"
        /\ js \in RuleType /\ js.do = <<"go", "AuthServs">>
        /\ jl \in RuleType /\ jl.do = <<"go", "Locked">>
        /\ jg \in RuleType /\ jg.do = <<"go", "Global">>
        /\ jv \in RuleType /\ jv.do = <<"go", "Validate">>
        /\ jk \in RuleType /\ jk.do = <<"go", "Known">>
        /\ jd \in RuleType /\ jd.do = <<"go", "AuthDown">>
        /\ ju \in RuleType /\ ju.do = <<"go", "Unknown">>
        /\ rj \in RuleType /\ rj.do[1] # "go"
    <2>1. {"ACCEPT", "DROP", "REJECT", "PORTAL", "PROXY"} = EndTargets /\ {"Internet", "AuthServs",
            "Locked", "Global", "Validate", "Known", "Unknown", "AuthDown"} \subseteq Own
      BY DEF EndTargets, Own
    <2>2. {"to", "mark", "port", "state"} \subseteq Fields /\ {Router, "web", "invalid", "known",
            "probation", "down", "locked"} \subseteq Values
      BY ConfigAssumption DEF Fields, Values, Marks
    <2>3. ji \in RuleType /\ ji.do = <<"go", "Internet">>
      BY <2>1, <2>2, JumpFacts
    <2>4. iv \in RuleType /\ iv.do[1] # "go"
      BY <2>1, <2>2, EndFacts
    <2>5. tc \in RuleType /\ tc.do[1] # "go"
      BY <2>1, <2>2, NoteFact
    <2>6. js \in RuleType /\ js.do = <<"go", "AuthServs">>
      BY <2>1, <2>2, JumpFacts
    <2>7. jl \in RuleType /\ jl.do = <<"go", "Locked">>
      BY <2>1, <2>2, JumpFacts
    <2>8. jg \in RuleType /\ jg.do = <<"go", "Global">>
      BY <2>1, <2>2, JumpFacts
    <2>9. jv \in RuleType /\ jv.do = <<"go", "Validate">>
      BY <2>1, <2>2, JumpFacts
    <2>10. jk \in RuleType /\ jk.do = <<"go", "Known">>
      BY <2>1, <2>2, JumpFacts
    <2>11. jd \in RuleType /\ jd.do = <<"go", "AuthDown">>
      BY <2>1, <2>2, JumpFacts
    <2>12. ju \in RuleType /\ ju.do = <<"go", "Unknown">>
      BY <2>1, <2>2, JumpFacts
    <2>13. rj \in RuleType /\ rj.do[1] # "go"
      BY <2>1, <2>2, EndFacts
    <2> QED
      BY <2>3, <2>4, <2>5, <2>6, <2>7, <2>8, <2>9, <2>10, <2>11, <2>12, <2>13
  <1> HIDE DEF has, ji, iv, tc, js, jl, jg, jv, jk, jd, ju, rj, int, srv, loc, glo, val, kno, unk, dn,
        fwd, ng
  <1>7. /\ E1 \subseteq Chains /\ E2 \subseteq Chains /\ E3 \subseteq Chains /\ E4 \subseteq Chains
             /\ E5 \subseteq Chains /\ E6 \subseteq Chains /\ E7 \subseteq Chains /\ E \subseteq Chains
        /\ int \notin E0 /\ srv \notin E1 /\ loc \notin E2 /\ glo \notin E3 /\ val \notin E4
             /\ kno \notin E5 /\ unk \notin E6 /\ dn \notin E7
        /\ {int, srv, loc, glo, val, kno, unk, fwd} \subseteq E /\ (has => dn \in E) /\ E0 \subseteq E
    BY <1>0, <1>1, <1>2, <1>3
  <1> HIDE DEF E1, E2, E3, E4, E5, E6, E7, E
  <1>8. PICK t1 : Puts(<<New("filter", "Internet")>>, tb, E1, int, <<>>, t1)
    BY <1>1, <1>7, Making DEF int, E1
  <1>8s. Standing(t1, E1)
    BY <1>8 DEF Puts
  <1>9. PICK t2 : Puts(<<New("filter", "AuthServs")>>, t1, E2, srv, <<>>, t2)
    BY <1>1, <1>7, <1>8s, Making DEF srv, E2
  <1>9s. Standing(t2, E2)
    BY <1>9 DEF Puts
  <1>10. PICK t3 : Puts(<<New("filter", "Locked")>>, t2, E3, loc, <<>>, t3)
    BY <1>1, <1>7, <1>9s, Making DEF loc, E3
  <1>10s. Standing(t3, E3)
    BY <1>10 DEF Puts
  <1>11. PICK t4 : Puts(<<New("filter", "Global")>>, t3, E4, glo, <<>>, t4)
    BY <1>1, <1>7, <1>10s, Making DEF glo, E4
  <1>11s. Standing(t4, E4)
    BY <1>11 DEF Puts
  <1>12. PICK t5 : Puts(<<New("filter", "Validate")>>, t4, E5, val, <<>>, t5)
    BY <1>1, <1>7, <1>11s, Making DEF val, E5
  <1>12s. Standing(t5, E5)
    BY <1>12 DEF Puts
  <1>13. PICK t6 : Puts(<<New("filter", "Known")>>, t5, E6, kno, <<>>, t6)
    BY <1>1, <1>7, <1>12s, Making DEF kno, E6
  <1>13s. Standing(t6, E6)
    BY <1>13 DEF Puts
  <1>14. PICK t7 : Puts(<<New("filter", "Unknown")>>, t6, E7, unk, <<>>, t7)
    BY <1>1, <1>7, <1>13s, Making DEF unk, E7
  <1>14s. Standing(t7, E7)
    BY <1>14 DEF Puts
  <1>15. PICK t8 : Puts(Only(has, <<New("filter", "AuthDown")>>), t7, E, dn, IF has THEN <<>> ELSE Gone, t8)
    BY <1>1, <1>7, <1>14s, OnlyMakes DEF dn, E
  <1>15s. Standing(t8, E)
    BY <1>15 DEF Puts
  <1>16. PICK t9 : Puts(<<Ins("filter", "FORWARD", ji)>>, t8, E, fwd, <<ji>> \o t8[fwd], t9)
    BY <1>6, <1>7, <1>15s, AddingJump DEF fwd, int
  <1>16s. Standing(t9, E)
    BY <1>16 DEF Puts
  <1>17. PICK t10 : Puts(<<App("filter", "Internet", iv)>>, t9, E, int, t9[int] \o <<iv>>, t10)
    BY <1>6, <1>7, <1>16s, AddingEnd DEF int
  <1>17s. Standing(t10, E)
    BY <1>17 DEF Puts
  <1>18. PICK t11 : Puts(<<App("filter", "Internet", tc)>>, t10, E, int, t10[int] \o <<tc>>, t11)
    BY <1>6, <1>7, <1>17s, AddingEnd DEF int
  <1>18s. Standing(t11, E)
    BY <1>18 DEF Puts
  <1>19. PICK t12 : Puts(<<App("filter", "Internet", js)>>, t11, E, int, t11[int] \o <<js>>, t12)
    BY <1>6, <1>7, <1>18s, AddingJump DEF int, srv
  <1>19s. Standing(t12, E)
    BY <1>19 DEF Puts
  <1>20. PICK t13 : Puts(SetAuthServers(servers), t12, E, srv, t12[srv], t13)
    BY <1>19s, NoServers, PutsNothing
  <1>20s. Standing(t13, E)
    BY <1>20 DEF Puts
  <1>21. PICK t14 : Puts(<<App("filter", "Internet", jl)>>, t13, E, int, t13[int] \o <<jl>>, t14)
    BY <1>6, <1>7, <1>20s, AddingJump DEF int, loc
  <1>21s. Standing(t14, E)
    BY <1>21 DEF Puts
  <1>22. PICK t15 : Puts(Load(cf, "filter", "locked-users", "Locked"), t14, E, loc, t14[loc]
           \o cf.rules["locked-users"], t15)
    <2>1. "locked-users" \in RuleSets
      BY DEF RuleSets
    <2> QED
      BY <1>7, <1>21s, <2>1, Loading DEF loc
  <1>22s. Standing(t15, E)
    BY <1>22 DEF Puts
  <1>23. PICK t16 : Puts(<<App("filter", "Internet", jg)>>, t15, E, int, t15[int] \o <<jg>>, t16)
    BY <1>6, <1>7, <1>22s, AddingJump DEF int, glo
  <1>23s. Standing(t16, E)
    BY <1>23 DEF Puts
  <1>24. PICK t17 : Puts(Load(cf, "filter", "global", "Global"), t16, E, glo, t16[glo]
           \o cf.rules["global"], t17)
    <2>1. "global" \in RuleSets
      BY DEF RuleSets
    <2> QED
      BY <1>7, <1>23s, <2>1, Loading DEF glo
  <1>24s. Standing(t17, E)
    BY <1>24 DEF Puts
  <1>25. PICK t18, g : /\ Puts(Load(cf, "nat", "global", "Global"), t17, E, ng, t17[ng] \o g, t18)
                      /\ g \in Seq(RuleType) /\ ToSet(g) = AcceptRules(cf)
    BY <1>7, <1>e, <1>24s, LoadingNat DEF ng
  <1>25s. Standing(t18, E)
    BY <1>25 DEF Puts
  <1>26. PICK t19 : Puts(<<App("filter", "Internet", jv)>>, t18, E, int, t18[int] \o <<jv>>, t19)
    BY <1>6, <1>7, <1>25s, AddingJump DEF int, val
  <1>26s. Standing(t19, E)
    BY <1>26 DEF Puts
  <1>27. PICK t20 : Puts(Load(cf, "filter", "validating-users", "Validate"), t19, E, val, t19[val]
           \o cf.rules["validating-users"], t20)
    <2>1. "validating-users" \in RuleSets
      BY DEF RuleSets
    <2> QED
      BY <1>7, <1>26s, <2>1, Loading DEF val
  <1>27s. Standing(t20, E)
    BY <1>27 DEF Puts
  <1>28. PICK t21 : Puts(<<App("filter", "Internet", jk)>>, t20, E, int, t20[int] \o <<jk>>, t21)
    BY <1>6, <1>7, <1>27s, AddingJump DEF int, kno
  <1>28s. Standing(t21, E)
    BY <1>28 DEF Puts
  <1>29. PICK t22 : Puts(Load(cf, "filter", "known-users", "Known"), t21, E, kno, t21[kno]
           \o cf.rules["known-users"], t22)
    <2>1. "known-users" \in RuleSets
      BY DEF RuleSets
    <2> QED
      BY <1>7, <1>28s, <2>1, Loading DEF kno
  <1>29s. Standing(t22, E)
    BY <1>29 DEF Puts
  <1>30. PICK t23 : Puts(Only(has, <<App("filter", "Internet", jd)>>), t22, E, int,
           IF has THEN t22[int] \o <<jd>> ELSE t22[int], t23)
    <2>1. has => \E v : Puts(<<App("filter", "Internet", jd)>>, t22, E, int, t22[int] \o <<jd>>, v)
      BY <1>6, <1>7, <1>29s, AddingJump DEF int, dn
    <2> QED
      BY <1>29s, <2>1, OnlyPuts
  <1>30s. Standing(t23, E)
    BY <1>30 DEF Puts
  <1>31. PICK t24 : Puts(Load(cf, "filter", "auth-is-down", "AuthDown"), t23, E, dn,
                        IF has THEN t23[dn] \o cf.rules["auth-is-down"] ELSE t23[dn], t24)
    <2>1. CASE has
      <3>1. "auth-is-down" \in RuleSets
        BY DEF RuleSets
      <3> QED
        BY <2>1, <3>1, <1>7, <1>30s, Loading DEF dn
    <2>2. CASE ~has
      <3>1. Load(cf, "filter", "auth-is-down", "AuthDown") = <<>>
        BY <2>2 DEF Load, HasAuthDown, has
      <3>2. Puts(<<>>, t23, E, dn, t23[dn], t23)
        BY <1>30s, PutsNothing
      <3> QED
        BY <2>2, <3>1, <3>2
    <2> QED
      BY <2>1, <2>2
  <1>31s. Standing(t24, E)
    BY <1>31 DEF Puts
  <1>32. PICK t25 : Puts(<<App("filter", "Internet", ju)>>, t24, E, int, t24[int] \o <<ju>>, t25)
    BY <1>6, <1>7, <1>31s, AddingJump DEF int, unk
  <1>32s. Standing(t25, E)
    BY <1>32 DEF Puts
  <1>33. PICK t26 : Puts(Load(cf, "filter", "unknown-users", "Unknown"), t25, E, unk, t25[unk]
           \o cf.rules["unknown-users"], t26)
    <2>1. "unknown-users" \in RuleSets
      BY DEF RuleSets
    <2> QED
      BY <1>7, <1>32s, <2>1, Loading DEF unk
  <1>33s. Standing(t26, E)
    BY <1>33 DEF Puts
  <1>34. PICK u : Puts(<<App("filter", "Unknown", rj)>>, t26, E, unk, t26[unk] \o <<rj>>, u)
    BY <1>6, <1>7, <1>33s, AddingEnd DEF unk
  <1>34s. Standing(u, E)
    BY <1>34 DEF Puts
  <1>35. Builds(FilterTable(cf), tb, u)
    <2> DEFINE p1 == <<New("filter", "Internet"), New("filter", "AuthServs"), New("filter", "Locked"),
                 New("filter", "Global"), New("filter", "Validate"), New("filter", "Known"),
                 New("filter", "Unknown")>>
               p2 == Only(has, <<New("filter", "AuthDown")>>)
               p3 == <<Ins("filter", "FORWARD", ji), App("filter", "Internet", iv), App("filter",
                 "Internet", tc), App("filter", "Internet", js)>>
               p4 == SetAuthServers(servers)
               p5 == <<App("filter", "Internet", jl)>>
               p6 == Load(cf, "filter", "locked-users", "Locked")
               p7 == <<App("filter", "Internet", jg)>>
               p8 == Load(cf, "filter", "global", "Global")
               p9 == Load(cf, "nat", "global", "Global")
               p10 == <<App("filter", "Internet", jv)>>
               p11 == Load(cf, "filter", "validating-users", "Validate")
               p12 == <<App("filter", "Internet", jk)>>
               p13 == Load(cf, "filter", "known-users", "Known")
               p14 == Only(has, <<App("filter", "Internet", jd)>>)
               p15 == Load(cf, "filter", "auth-is-down", "AuthDown")
               p16 == <<App("filter", "Internet", ju)>>
               p17 == Load(cf, "filter", "unknown-users", "Unknown")
               p18 == <<App("filter", "Unknown", rj)>>
    <2>1. FilterTable(cf) = ((((((((((((((((p1 \o p2) \o p3) \o p4) \o p5) \o p6) \o p7) \o p8)
            \o p9) \o p10) \o p11) \o p12) \o p13) \o p14) \o p15) \o p16) \o p17) \o p18
      BY DEF FilterTable, has, ji, iv, tc, js, jl, jg, jv, jk, jd, ju, rj
    <2>2. Builds(p1, tb, t7)
      <3> DEFINE c1 == New("filter", "Internet")
                 c2 == New("filter", "AuthServs")
                 c3 == New("filter", "Locked")
                 c4 == New("filter", "Global")
                 c5 == New("filter", "Validate")
                 c6 == New("filter", "Known")
                 c7 == New("filter", "Unknown")
      <3>1. Builds(<<c1>>, tb, t1)
        BY <1>8 DEF Puts
      <3>2. Builds(<<c2>>, t1, t2)
        BY <1>9 DEF Puts
      <3>3. Builds(<<c3>>, t2, t3)
        BY <1>10 DEF Puts
      <3>4. Builds(<<c4>>, t3, t4)
        BY <1>11 DEF Puts
      <3>5. Builds(<<c5>>, t4, t5)
        BY <1>12 DEF Puts
      <3>6. Builds(<<c6>>, t5, t6)
        BY <1>13 DEF Puts
      <3>7. Builds(<<c7>>, t6, t7)
        BY <1>14 DEF Puts
      <3> HIDE DEF c1, c2, c3, c4, c5, c6, c7
      <3>8. Builds(<<c1, c2>>, tb, t2)
        BY <3>1, <3>2, BuildsTuple2
      <3>9. Builds(<<c1, c2, c3>>, tb, t3)
        BY <3>8, <3>3, BuildsTuple3
      <3>10. Builds(<<c1, c2, c3, c4>>, tb, t4)
        BY <3>9, <3>4, BuildsTuple4
      <3>11. Builds(<<c1, c2, c3, c4, c5>>, tb, t5)
        BY <3>10, <3>5, BuildsTuple5
      <3>12. Builds(<<c1, c2, c3, c4, c5, c6>>, tb, t6)
        BY <3>11, <3>6, BuildsTuple6
      <3>13. Builds(<<c1, c2, c3, c4, c5, c6, c7>>, tb, t7)
        BY <3>12, <3>7, BuildsTuple7
      <3> QED
        BY <3>13 DEF c1, c2, c3, c4, c5, c6, c7
    <2>3. Builds(p2, t7, t8)
      BY <1>15 DEF Puts
    <2>4. Builds(p3, t8, t12)
      <3> DEFINE c1 == Ins("filter", "FORWARD", ji)
                 c2 == App("filter", "Internet", iv)
                 c3 == App("filter", "Internet", tc)
                 c4 == App("filter", "Internet", js)
      <3>1. Builds(<<c1>>, t8, t9)
        BY <1>16 DEF Puts
      <3>2. Builds(<<c2>>, t9, t10)
        BY <1>17 DEF Puts
      <3>3. Builds(<<c3>>, t10, t11)
        BY <1>18 DEF Puts
      <3>4. Builds(<<c4>>, t11, t12)
        BY <1>19 DEF Puts
      <3> HIDE DEF c1, c2, c3, c4
      <3>5. Builds(<<c1, c2>>, t8, t10)
        BY <3>1, <3>2, BuildsTuple2
      <3>6. Builds(<<c1, c2, c3>>, t8, t11)
        BY <3>5, <3>3, BuildsTuple3
      <3>7. Builds(<<c1, c2, c3, c4>>, t8, t12)
        BY <3>6, <3>4, BuildsTuple4
      <3> QED
        BY <3>7 DEF c1, c2, c3, c4
    <2>5. Builds(p4, t12, t13)
      BY <1>20 DEF Puts
    <2>6. Builds(p5, t13, t14)
      BY <1>21 DEF Puts
    <2>7. Builds(p6, t14, t15)
      BY <1>22 DEF Puts
    <2>8. Builds(p7, t15, t16)
      BY <1>23 DEF Puts
    <2>9. Builds(p8, t16, t17)
      BY <1>24 DEF Puts
    <2>10. Builds(p9, t17, t18)
      BY <1>25 DEF Puts
    <2>11. Builds(p10, t18, t19)
      BY <1>26 DEF Puts
    <2>12. Builds(p11, t19, t20)
      BY <1>27 DEF Puts
    <2>13. Builds(p12, t20, t21)
      BY <1>28 DEF Puts
    <2>14. Builds(p13, t21, t22)
      BY <1>29 DEF Puts
    <2>15. Builds(p14, t22, t23)
      BY <1>30 DEF Puts
    <2>16. Builds(p15, t23, t24)
      BY <1>31 DEF Puts
    <2>17. Builds(p16, t24, t25)
      BY <1>32 DEF Puts
    <2>18. Builds(p17, t25, t26)
      BY <1>33 DEF Puts
    <2>19. Builds(p18, t26, u)
      BY <1>34 DEF Puts
    <2> HIDE DEF p1, p2, p3, p4, p5, p6, p7, p8, p9, p10, p11, p12, p13, p14, p15, p16, p17, p18
    <2>20. Builds(p1 \o p2, tb, t8)
      BY <2>2, <2>3, BuildsCat
    <2>21. Builds((p1 \o p2) \o p3, tb, t12)
      BY <2>20, <2>4, BuildsCat
    <2>22. Builds(((p1 \o p2) \o p3) \o p4, tb, t13)
      BY <2>21, <2>5, BuildsCat
    <2>23. Builds((((p1 \o p2) \o p3) \o p4) \o p5, tb, t14)
      BY <2>22, <2>6, BuildsCat
    <2>24. Builds(((((p1 \o p2) \o p3) \o p4) \o p5) \o p6, tb, t15)
      BY <2>23, <2>7, BuildsCat
    <2>25. Builds((((((p1 \o p2) \o p3) \o p4) \o p5) \o p6) \o p7, tb, t16)
      BY <2>24, <2>8, BuildsCat
    <2>26. Builds(((((((p1 \o p2) \o p3) \o p4) \o p5) \o p6) \o p7) \o p8, tb, t17)
      BY <2>25, <2>9, BuildsCat
    <2>27. Builds((((((((p1 \o p2) \o p3) \o p4) \o p5) \o p6) \o p7) \o p8) \o p9, tb, t18)
      BY <2>26, <2>10, BuildsCat
    <2>28. Builds(((((((((p1 \o p2) \o p3) \o p4) \o p5) \o p6) \o p7) \o p8) \o p9) \o p10, tb, t19)
      BY <2>27, <2>11, BuildsCat
    <2>29. Builds((((((((((p1 \o p2) \o p3) \o p4) \o p5) \o p6) \o p7) \o p8) \o p9) \o p10) \o p11,
             tb, t20)
      BY <2>28, <2>12, BuildsCat
    <2>30. Builds(((((((((((p1 \o p2) \o p3) \o p4) \o p5) \o p6) \o p7) \o p8) \o p9) \o p10)
             \o p11) \o p12, tb, t21)
      BY <2>29, <2>13, BuildsCat
    <2>31. Builds((((((((((((p1 \o p2) \o p3) \o p4) \o p5) \o p6) \o p7) \o p8) \o p9) \o p10)
             \o p11) \o p12) \o p13, tb, t22)
      BY <2>30, <2>14, BuildsCat
    <2>32. Builds(((((((((((((p1 \o p2) \o p3) \o p4) \o p5) \o p6) \o p7) \o p8) \o p9) \o p10)
             \o p11) \o p12) \o p13) \o p14, tb, t23)
      BY <2>31, <2>15, BuildsCat
    <2>33. Builds((((((((((((((p1 \o p2) \o p3) \o p4) \o p5) \o p6) \o p7) \o p8) \o p9) \o p10)
             \o p11) \o p12) \o p13) \o p14) \o p15, tb, t24)
      BY <2>32, <2>16, BuildsCat
    <2>34. Builds(((((((((((((((p1 \o p2) \o p3) \o p4) \o p5) \o p6) \o p7) \o p8) \o p9) \o p10)
             \o p11) \o p12) \o p13) \o p14) \o p15) \o p16, tb, t25)
      BY <2>33, <2>17, BuildsCat
    <2>35. Builds((((((((((((((((p1 \o p2) \o p3) \o p4) \o p5) \o p6) \o p7) \o p8) \o p9) \o p10)
             \o p11) \o p12) \o p13) \o p14) \o p15) \o p16) \o p17, tb, t26)
      BY <2>34, <2>18, BuildsCat
    <2>36. Builds(((((((((((((((((p1 \o p2) \o p3) \o p4) \o p5) \o p6) \o p7) \o p8) \o p9) \o p10)
             \o p11) \o p12) \o p13) \o p14) \o p15) \o p16) \o p17) \o p18, tb, u)
      BY <2>35, <2>19, BuildsCat
    <2> QED
      BY <2>1, <2>36
  <1>36. /\ t1[int] = <<>>
         /\ t2[srv] = <<>>
         /\ t3[loc] = <<>>
         /\ t4[glo] = <<>>
         /\ t5[val] = <<>>
         /\ t6[kno] = <<>>
         /\ t7[unk] = <<>>
         /\ t8[dn] = (IF has THEN <<>> ELSE Gone)
         /\ t9[fwd] = <<ji>> \o t8[fwd]
         /\ t10[int] = t9[int] \o <<iv>>
         /\ t11[int] = t10[int] \o <<tc>>
         /\ t12[int] = t11[int] \o <<js>>
         /\ t13[srv] = t12[srv]
         /\ t14[int] = t13[int] \o <<jl>>
         /\ t15[loc] = t14[loc] \o cf.rules["locked-users"]
         /\ t16[int] = t15[int] \o <<jg>>
         /\ t17[glo] = t16[glo] \o cf.rules["global"]
         /\ t18[ng] = t17[ng] \o g
         /\ t19[int] = t18[int] \o <<jv>>
         /\ t20[val] = t19[val] \o cf.rules["validating-users"]
         /\ t21[int] = t20[int] \o <<jk>>
         /\ t22[kno] = t21[kno] \o cf.rules["known-users"]
         /\ t23[int] = (IF has THEN t22[int] \o <<jd>> ELSE t22[int])
         /\ t24[dn] = (IF has THEN t23[dn] \o cf.rules["auth-is-down"] ELSE t23[dn])
         /\ t25[int] = t24[int] \o <<ju>>
         /\ t26[unk] = t25[unk] \o cf.rules["unknown-users"]
         /\ u[unk] = t26[unk] \o <<rj>>
    BY <1>8, <1>9, <1>10, <1>11, <1>12, <1>13, <1>14, <1>15, <1>16, <1>17, <1>18, <1>19, <1>20, <1>21,
         <1>22, <1>23, <1>24, <1>25, <1>26, <1>27, <1>28, <1>29, <1>30, <1>31, <1>32, <1>33, <1>34 DEF Puts
  <1>37. /\ \A d \in Chains \ {int} : t1[d] = tb[d]
         /\ \A d \in Chains \ {srv} : t2[d] = t1[d]
         /\ \A d \in Chains \ {loc} : t3[d] = t2[d]
         /\ \A d \in Chains \ {glo} : t4[d] = t3[d]
         /\ \A d \in Chains \ {val} : t5[d] = t4[d]
         /\ \A d \in Chains \ {kno} : t6[d] = t5[d]
         /\ \A d \in Chains \ {unk} : t7[d] = t6[d]
         /\ \A d \in Chains \ {dn} : t8[d] = t7[d]
         /\ \A d \in Chains \ {fwd} : t9[d] = t8[d]
         /\ \A d \in Chains \ {int} : t10[d] = t9[d]
         /\ \A d \in Chains \ {int} : t11[d] = t10[d]
         /\ \A d \in Chains \ {int} : t12[d] = t11[d]
         /\ \A d \in Chains \ {srv} : t13[d] = t12[d]
         /\ \A d \in Chains \ {int} : t14[d] = t13[d]
         /\ \A d \in Chains \ {loc} : t15[d] = t14[d]
         /\ \A d \in Chains \ {int} : t16[d] = t15[d]
         /\ \A d \in Chains \ {glo} : t17[d] = t16[d]
         /\ \A d \in Chains \ {ng} : t18[d] = t17[d]
         /\ \A d \in Chains \ {int} : t19[d] = t18[d]
         /\ \A d \in Chains \ {val} : t20[d] = t19[d]
         /\ \A d \in Chains \ {int} : t21[d] = t20[d]
         /\ \A d \in Chains \ {kno} : t22[d] = t21[d]
         /\ \A d \in Chains \ {int} : t23[d] = t22[d]
         /\ \A d \in Chains \ {dn} : t24[d] = t23[d]
         /\ \A d \in Chains \ {int} : t25[d] = t24[d]
         /\ \A d \in Chains \ {unk} : t26[d] = t25[d]
         /\ \A d \in Chains \ {unk} : u[d] = t26[d]
    BY <1>8, <1>9, <1>10, <1>11, <1>12, <1>13, <1>14, <1>15, <1>16, <1>17, <1>18, <1>19, <1>20, <1>21,
         <1>22, <1>23, <1>24, <1>25, <1>26, <1>27, <1>28, <1>29, <1>30, <1>31, <1>32, <1>33, <1>34 DEF Puts
  <1>38. t9[int] = t1[int] /\ t13[int] = t12[int] /\ t15[int] = t14[int] /\ t18[int] = t16[int]
           /\ t20[int] = t19[int] /\ t22[int] = t21[int] /\ t24[int] = t23[int] /\ u[int] = t25[int]
    <2>1. int \in Chains /\ int # srv /\ int # loc /\ int # glo /\ int # val /\ int # kno
            /\ int # unk /\ int # dn /\ int # fwd /\ int # ng
      BY <1>0, <1>1, <1>2, <1>e
    <2> QED
      BY <2>1, <1>37
  <1>39. t1[srv] = tb[srv] /\ t12[srv] = t2[srv] /\ u[srv] = t13[srv]
    <2>1. srv \in Chains /\ srv # int /\ srv # loc /\ srv # glo /\ srv # val /\ srv # kno
            /\ srv # unk /\ srv # dn /\ srv # fwd /\ srv # ng
      BY <1>0, <1>1, <1>2, <1>e
    <2> QED
      BY <2>1, <1>37
  <1>40. t2[loc] = tb[loc] /\ t14[loc] = t3[loc] /\ u[loc] = t15[loc]
    <2>1. loc \in Chains /\ loc # int /\ loc # srv /\ loc # glo /\ loc # val /\ loc # kno
            /\ loc # unk /\ loc # dn /\ loc # fwd /\ loc # ng
      BY <1>0, <1>1, <1>2, <1>e
    <2> QED
      BY <2>1, <1>37
  <1>41. t3[glo] = tb[glo] /\ t16[glo] = t4[glo] /\ u[glo] = t17[glo]
    <2>1. glo \in Chains /\ glo # int /\ glo # srv /\ glo # loc /\ glo # val /\ glo # kno
            /\ glo # unk /\ glo # dn /\ glo # fwd /\ glo # ng
      BY <1>0, <1>1, <1>2, <1>e
    <2> QED
      BY <2>1, <1>37
  <1>42. t4[val] = tb[val] /\ t19[val] = t5[val] /\ u[val] = t20[val]
    <2>1. val \in Chains /\ val # int /\ val # srv /\ val # loc /\ val # glo /\ val # kno
            /\ val # unk /\ val # dn /\ val # fwd /\ val # ng
      BY <1>0, <1>1, <1>2, <1>e
    <2> QED
      BY <2>1, <1>37
  <1>43. t5[kno] = tb[kno] /\ t21[kno] = t6[kno] /\ u[kno] = t22[kno]
    <2>1. kno \in Chains /\ kno # int /\ kno # srv /\ kno # loc /\ kno # glo /\ kno # val
            /\ kno # unk /\ kno # dn /\ kno # fwd /\ kno # ng
      BY <1>0, <1>1, <1>2, <1>e
    <2> QED
      BY <2>1, <1>37
  <1>44. t6[unk] = tb[unk] /\ t25[unk] = t7[unk]
    <2>1. unk \in Chains /\ unk # int /\ unk # srv /\ unk # loc /\ unk # glo /\ unk # val
            /\ unk # kno /\ unk # dn /\ unk # fwd /\ unk # ng
      BY <1>0, <1>1, <1>2, <1>e
    <2> QED
      BY <2>1, <1>37
  <1>45. t7[dn] = tb[dn] /\ t23[dn] = t8[dn] /\ u[dn] = t24[dn]
    <2>1. dn \in Chains /\ dn # int /\ dn # srv /\ dn # loc /\ dn # glo /\ dn # val /\ dn # kno
            /\ dn # unk /\ dn # fwd /\ dn # ng
      BY <1>0, <1>1, <1>2, <1>e
    <2> QED
      BY <2>1, <1>37
  <1>46. t8[fwd] = tb[fwd] /\ u[fwd] = t9[fwd]
    <2>1. fwd \in Chains /\ fwd # int /\ fwd # srv /\ fwd # loc /\ fwd # glo /\ fwd # val
            /\ fwd # kno /\ fwd # unk /\ fwd # dn /\ fwd # ng
      BY <1>0, <1>1, <1>2, <1>e
    <2> QED
      BY <2>1, <1>37
  <1>47. t17[ng] = tb[ng] /\ u[ng] = t18[ng]
    <2>1. ng \in Chains /\ ng # int /\ ng # srv /\ ng # loc /\ ng # glo /\ ng # val /\ ng # kno
            /\ ng # unk /\ ng # dn /\ ng # fwd
      BY <1>0, <1>1, <1>2, <1>e
    <2> QED
      BY <2>1, <1>37
  <1>48. \A d \in Chains : (d[1] # "filter" /\ d # ng) => u[d] = tb[d]
    <2> TAKE d \in Chains
    <2> HAVE d[1] # "filter" /\ d # ng
    <2>1. d \notin {int, srv, loc, glo, val, kno, unk, dn, fwd}
      BY <1>5
    <2> QED
      BY <2>1, <1>37
  <1>49. u[fwd] = Forward
    BY <1>46, <1>36 DEF Forward, ji, fwd
  <1>50. u[int] = Internet(cf)
    <2> DEFINE s == ((((((<<iv>> \o <<tc>>) \o <<js>>) \o <<jl>>) \o <<jg>>) \o <<jv>>) \o <<jk>>)
               p == Only(has, <<jd>>)
    <2>1. t10[int] = <<iv>>
      <3>1. <<>> \o <<iv>> = <<iv>>
        OBVIOUS
      <3> QED
        BY <3>1, <1>36, <1>38
    <2>2. t21[int] = s
      BY <2>1, <1>36, <1>38
    <2>3. t23[int] = s \o p
      <3>1. t21[int] \in Seq(RuleType)
        BY <1>7, <1>28s DEF Standing
      <3>2. t23[int] = IF has THEN s \o <<jd>> ELSE s
        BY <2>2, <1>36, <1>38
      <3>3. s \in Seq(RuleType)
        BY <3>1, <2>2
      <3> HIDE DEF s
      <3>4. CASE has
        BY <3>4, <3>2 DEF Only
      <3>5. CASE ~has
        <4>1. s \o <<>> = s
          BY <3>3, ConcatEmptySeq
        <4> QED
          BY <3>5, <4>1, <3>2 DEF Only
      <3> QED
        BY <3>4, <3>5
    <2> HIDE DEF s, p
    <2>4. u[int] = (s \o p) \o <<ju>>
      BY <2>3, <1>36, <1>38
    <2> QED
      BY <2>4 DEF Internet, iv, tc, js, jl, jg, jv, jk, jd, ju, has, s, p
  <1>51. u[srv] = <<>> /\ u[ng] = g
    <2>1. <<>> \o g = g
      BY <1>25, ConcatEmptySeq
    <2>2. tb[ng] = <<>>
      BY DEF ng
    <2> QED
      BY <2>1, <2>2, <1>36, <1>39, <1>47
  <1>52. /\ u[glo] = cf.rules["global"] /\ u[val] = cf.rules["validating-users"]
              /\ u[kno] = cf.rules["known-users"]
         /\ has => u[dn] = cf.rules["auth-is-down"]
         /\ u[unk] = cf.rules["unknown-users"] \o <<rj>>
    <2>1. \A s \in RuleSets : cf.rules[s] \in Seq(ConfRules)
      BY ConfigAssumption
    <2>2. \A s \in RuleSets : <<>> \o cf.rules[s] = cf.rules[s]
      BY <2>1, ConcatEmptySeq
    <2>3. /\ <<>> \o cf.rules["global"] = cf.rules["global"] /\ <<>>
               \o cf.rules["validating-users"] = cf.rules["validating-users"]
          /\ <<>> \o cf.rules["known-users"] = cf.rules["known-users"] /\ <<>>
               \o cf.rules["auth-is-down"] = cf.rules["auth-is-down"]
          /\ <<>> \o cf.rules["unknown-users"] = cf.rules["unknown-users"]
      BY <2>2 DEF RuleSets
    <2>4. u[glo] = cf.rules["global"]
      BY <2>3, <1>36, <1>41
    <2>5. u[val] = cf.rules["validating-users"]
      BY <2>3, <1>36, <1>42
    <2>6. u[kno] = cf.rules["known-users"]
      BY <2>3, <1>36, <1>43
    <2>7. ASSUME has PROVE u[dn] = cf.rules["auth-is-down"]
      BY <2>3, <2>7, <1>36, <1>45
    <2>8. u[unk] = cf.rules["unknown-users"] \o <<rj>>
      BY <2>3, <1>36, <1>44
    <2> QED
      BY <2>4, <2>5, <2>6, <2>7, <2>8
  <1>53. FilterServes(cf, u, {}, <<>>)
    <2>1. ServerRules({}) = {} /\ OpenRules(<<>>) = {}
      BY EmptyTuple DEF ServerRules, OpenRules
    <2>2. \E x \in Seq(RuleType) : u[glo] = cf.rules["global"] \o x /\ ToSet(x) = {}
      <3>1. cf.rules["global"] \in Seq(ConfRules)
        BY ConfigAssumption DEF RuleSets
      <3>2. cf.rules["global"] \o <<>> = cf.rules["global"]
        BY <3>1, ConcatEmptySeq
      <3>3. <<>> \in Seq(RuleType)
        OBVIOUS
      <3> QED
        BY <3>2, <3>3, <1>52, EmptyTuple, Zenon
    <2> QED
      BY <2>1, <2>2, <1>49, <1>50, <1>51, <1>52, EmptyTuple DEF FilterServes, fwd, int, srv, glo, val,
           kno, unk, dn, has, rj
  <1>54. Builds(FilterTable(cf), tb, u)
    BY <1>35
  <1>55. ToSet(u[ng]) = AcceptRules(cf)
    BY <1>51, <1>25
  <1> QED
    BY <1>4, <1>34s, <1>48, <1>53, <1>54, <1>55, Zenon DEF ng, FilterBuild

\* The three tables together: what iptables_fw_init makes of the rules of the
\* other programs is what a gateway that knows no client serves with.
LEMMA InitBuilt ==
    ASSUME conf \in Configs, servers = {}
    PROVE  \E b : /\ Builds(InitScript, Base, b)
                  /\ Served(conf, b, [m \in Macs |-> NoMark], {}, FALSE, {}, <<>>)
  <1> DEFINE cf == conf
             none == [m \in Macs |-> NoMark]
             E1 == Builtin \cup MangleChains(cf)
             E2 == E1 \cup NatChains(cf)
             E3 == E2 \cup FilterChains(cf)
  <1>1. /\ \A n \in Own : <<"nat", n>> \notin E1
        /\ \A n \in Own : <<"filter", n>> \notin E2
        /\ <<"nat", "Global">> \in E2 /\ Builtin \subseteq E1 /\ Builtin \subseteq E2
    BY DEF Own, Builtin, MangleChains, NatChains, NatNames
  <1>2. E1 \subseteq Chains /\ E2 \subseteq Chains
    BY DEF Chains, Own, MangleChains, MangleNames, NatChains, NatNames, DownNames
  <1>3. E3 = Builtin \cup Used(cf)
    BY DEF Used, MangleChains, MangleNames, NatChains, NatNames, FilterChains, FilterNames, DownNames
  <1>4. /\ <<"nat", "PREROUTING">> \in Chains /\ <<"filter", "FORWARD">> \in Chains
        /\ Base[<<"nat", "PREROUTING">>] = <<Foreign>> /\ Base[<<"filter", "FORWARD">>] = <<Foreign>>
    BY DEF Base, Chains, Builtin
  <1> HIDE DEF E1, E2, E3, cf, none
  <1>5. PICK a : /\ Builds(MangleTable(cf), Base, a) /\ Standing(a, E1)
                 /\ MangleServes(cf, a, none, {}, FALSE)
                 /\ \A d \in Chains : d[1] # "mangle" => a[d] = Base[d]
    BY MangleBuilt DEF E1, none
  <1>6. cf \in Configs
    BY DEF cf
  <1>7. a[<<"nat", "PREROUTING">>] = <<Foreign>> /\ a[<<"filter", "FORWARD">>] = <<Foreign>>
    BY <1>4, <1>5
  <1>0. Free("nat", E1) /\ Free("filter", E2)
    BY <1>1, <1>2 DEF Free
  <1>8p. PICK b : NatBuild(cf, E1, a, b)
    BY <1>0, <1>5, <1>6, <1>7, NatBuilt
  <1>8. /\ Builds(NatTable(cf), a, b) /\ Standing(b, E2) /\ NatBegun(cf, b)
        /\ \A d \in Chains : d[1] # "nat" => b[d] = a[d]
    BY <1>8p DEF NatBuild, E2
  <1>9. b[<<"filter", "FORWARD">>] = <<Foreign>> /\ b[<<"nat", "Global">>] = <<>>
    BY <1>4, <1>7, <1>8 DEF NatBegun
  <1>10p. PICK c : FilterBuild(cf, E2, b, c)
    BY <1>0, <1>1, <1>6, <1>8, <1>9, FilterBuilt
  <1>10. /\ Builds(FilterTable(cf), b, c) /\ Standing(c, E3)
         /\ FilterServes(cf, c, {}, <<>>)
         /\ ToSet(c[<<"nat", "Global">>]) = AcceptRules(cf)
         /\ \A d \in Chains : (d[1] # "filter" /\ d # <<"nat", "Global">>) => c[d] = b[d]
    BY <1>10p DEF FilterBuild, E3
  <1>11. Builds(InitScript, Base, c)
    <2>1. Builds(MangleTable(cf) \o NatTable(cf), Base, b)
      BY <1>5, <1>8, BuildsCat
    <2>2. Builds((MangleTable(cf) \o NatTable(cf)) \o FilterTable(cf), Base, c)
      BY <2>1, <1>10, BuildsCat
    <2> QED
      BY <2>2 DEF InitScript, cf
  <1>12. MangleServes(cf, c, none, {}, FALSE)
    <2>1. \A n \in Own \cup {"PREROUTING"} : <<"mangle", n>> \in Chains
      BY DEF Chains, Builtin
    <2>2. \A n \in Own \cup {"PREROUTING"} : c[<<"mangle", n>>] = a[<<"mangle", n>>]
      BY <2>1, <1>8, <1>10
    <2>3. /\ c[<<"mangle", "PREROUTING">>] = a[<<"mangle", "PREROUTING">>]
          /\ c[<<"mangle", "Trusted">>] = a[<<"mangle", "Trusted">>]
          /\ c[<<"mangle", "Outgoing">>] = a[<<"mangle", "Outgoing">>]
          /\ c[<<"mangle", "AuthDown">>] = a[<<"mangle", "AuthDown">>]
      BY <2>2 DEF Own
    <2> QED
      BY <2>3, <1>5 DEF MangleServes
  <1>13. NatServes(cf, c, {}, <<>>)
    <2>1. \A n \in Own \cup {"PREROUTING"} : <<"nat", n>> \in Chains
      BY DEF Chains, Builtin
    <2>2. \A n \in Own \cup {"PREROUTING"} : n # "Global" => c[<<"nat", n>>] = b[<<"nat", n>>]
      BY <2>1, <1>10
    <2>3. /\ c[<<"nat", "PREROUTING">>] = b[<<"nat", "PREROUTING">>]
          /\ c[<<"nat", "Outgoing">>] = b[<<"nat", "Outgoing">>]
          /\ c[<<"nat", "Internet">>] = b[<<"nat", "Internet">>]
          /\ c[<<"nat", "Unknown">>] = b[<<"nat", "Unknown">>]
          /\ c[<<"nat", "AuthServs">>] = b[<<"nat", "AuthServs">>]
          /\ c[<<"nat", "AuthDown">>] = b[<<"nat", "AuthDown">>]
      BY <2>2 DEF Own
    <2>4. ServerRules({}) = {} /\ OpenRules(<<>>) = {}
      BY EmptyTuple DEF ServerRules, OpenRules
    <2> QED
      BY <2>3, <2>4, <1>8, <1>10, EmptyTuple DEF NatServes, NatBegun
  <1>14. Served(cf, c, none, {}, FALSE, {}, <<>>)
    BY <1>3, <1>10, <1>12, <1>13 DEF Served
  <1> QED
    BY <1>11, <1>14, Zenon DEF cf, none

-----------------------------------------------------------------------------
(* What the threads of a gateway that serves do to its tables.             *)

\* The chain c of the tables tb becomes x, and nothing else is different.
Changed(tb, E, c, x, u) ==
    Standing(u, E) /\ u[c] = x /\ \A d \in Chains \ {c} : u[d] = tb[d]

\* One chain replaced.
LEMMA ExceptChanges ==
    ASSUME NEW tb, NEW E \in SUBSET Chains, Standing(tb, E), NEW c \in E, NEW x \in Seq(RuleType)
    PROVE  Changed(tb, E, c, x, [tb EXCEPT ![c] = x]) /\ Exists(tb, c)
  <1> DEFINE u == [tb EXCEPT ![c] = x]
  <1>1. tb = [d \in Chains |-> tb[d]] /\ tb[c] \in Seq(RuleType)
    BY DEF Standing
  <1>2. u = [d \in Chains |-> IF d = c THEN x ELSE tb[d]]
    BY <1>1
  <1> HIDE DEF u
  <1>3. u[c] = x /\ (\A d \in Chains \ {c} : u[d] = tb[d]) /\ u = [d \in Chains |-> u[d]]
    BY <1>2
  <1>4. Standing(u, E)
    BY <1>3 DEF Standing
  <1>5. Exists(tb, c)
    BY <1>1, GoneAssumption DEF Exists
  <1> QED
    BY <1>3, <1>4, <1>5 DEF Changed, u

\* A rule that is no jump is appended, a chain is flushed or filled again.
LEMMA AppendChanges ==
    ASSUME NEW tb, NEW E \in SUBSET Chains, Standing(tb, E),
           NEW t, NEW n, <<t, n>> \in E, NEW r \in RuleType, r.do[1] # "go"
    PROVE  Changed(tb, E, <<t, n>>, tb[<<t, n>>] \o <<r>>, Done(tb, App(t, n, r)))
  <1> DEFINE c == <<t, n>>
             e == App(t, n, r)
             x == tb[c] \o <<r>>
  <1>1. e.op = "A" /\ e.at = c /\ e.rule = r /\ c[1] = t
    BY DEF App
  <1> HIDE DEF e
  <1>2. tb[c] \in Seq(RuleType)
    BY DEF Standing
  <1>3. x \in Seq(RuleType) /\ Append(tb[c], r) = x
    BY <1>2
  <1>4. Exists(tb, c)
    BY <1>2, GoneAssumption DEF Exists
  <1>5. Target(tb, t, r)
    BY DEF Target
  <1>6. Done(tb, e) = [tb EXCEPT ![c] = Append(@, r)]
    <2> HIDE DEF c, x
    <2> QED
      BY <1>1, <1>4, <1>5 DEF Done
  <1>7. Done(tb, e) = [tb EXCEPT ![c] = x]
    BY <1>3, <1>6
  <1> HIDE DEF x
  <1>8. Changed(tb, E, c, x, [tb EXCEPT ![c] = x])
    BY <1>3, ExceptChanges
  <1> QED
    BY <1>7, <1>8 DEF x, e

\* One chain flushed.
LEMMA FlushChanges ==
    ASSUME NEW tb, NEW E \in SUBSET Chains, Standing(tb, E), NEW t, NEW n, <<t, n>> \in E
    PROVE  Changed(tb, E, <<t, n>>, <<>>, Done(tb, Flush(t, n)))
  <1> DEFINE c == <<t, n>>
             e == Flush(t, n)
             x == <<>>
  <1>1. e.op = "F" /\ e.at = c /\ x \in Seq(RuleType)
    BY DEF Flush
  <1> HIDE DEF e, c
  <1>2. c \in E
    BY DEF c
  <1>3. Changed(tb, E, c, x, [tb EXCEPT ![c] = x]) /\ Exists(tb, c)
    <2> HIDE DEF x
    <2> QED
      BY <1>1, <1>2, ExceptChanges
  <1>4. Done(tb, e) = [tb EXCEPT ![c] = x]
    BY <1>1, <1>3 DEF Done
  <1> HIDE DEF x
  <1> QED
    BY <1>3, <1>4 DEF x, e, c

\* Rules appended and removed.
LEMMA Extended ==
    ASSUME NEW s \in Seq(RuleType), NEW r \in RuleType
    PROVE  /\ s \o <<r>> \in Seq(RuleType) /\ ToSet(s \o <<r>>) = ToSet(s) \cup {r}
           /\ IsInjective(s) /\ r \notin ToSet(s) => IsInjective(s \o <<r>>)
           /\ ZeroFirst(s) /\ (\A m : r # MarkRule(m, "zero")) => ZeroFirst(s \o <<r>>)
  <1> DEFINE t == s \o <<r>>
             m == Len(s)
  <1>1. /\ t \in Seq(RuleType) /\ Len(t) = m + 1 /\ m \in Nat /\ t[m + 1] = r
        /\ \A i \in 1 .. m : t[i] = s[i]
    OBVIOUS
  <1>2. DOMAIN s = 1 .. m /\ DOMAIN t = 1 .. (m + 1)
    BY <1>1
  <1> HIDE DEF t, m
  <1>3. \A i \in 1 .. (m + 1) : i \in 1 .. m \/ i = m + 1
    BY <1>1
  <1>4. 1 .. m \subseteq 1 .. (m + 1) /\ m + 1 \in 1 .. (m + 1)
    BY <1>1
  <1>5. ToSet(t) = ToSet(s) \cup {r}
    BY <1>1, <1>2, <1>3, <1>4 DEF ToSet
  <1>6. IsInjective(s) /\ r \notin ToSet(s) => IsInjective(t)
    BY <1>1, <1>2, <1>3 DEF IsInjective, ToSet
  <1>7. ASSUME ZeroFirst(s), \A m_ : r # MarkRule(m_, "zero") PROVE ZeroFirst(t)
    <2> SUFFICES ASSUME NEW i \in 1 .. (m + 1), NEW j \in 1 .. (m + 1), NEW a, NEW k,
                        t[i] = MarkRule(a, "zero"), t[j] = MarkRule(a, k)
                 PROVE  i <= j
      BY <1>2 DEF ZeroFirst
    <2>1. i \in 1 .. m
      BY <1>1, <1>3, <1>7
    <2>2. CASE j = m + 1
      BY <2>1, <2>2, <1>1
    <2>3. CASE j \in 1 .. m
      BY <2>1, <2>3, <1>1, <1>2, <1>7 DEF ZeroFirst
    <2> QED
      BY <2>2, <2>3, <1>3
  <1> QED
    BY <1>1, <1>5, <1>6, <1>7 DEF t

\* A rule of one mark struck out of the list of them.
LEMMA Struck ==
    ASSUME NEW s \in Seq(RuleType), IsInjective(s), NEW r
    PROVE  /\ RemoveFirst(s, r) \in Seq(RuleType) /\ IsInjective(RemoveFirst(s, r))
           /\ ToSet(RemoveFirst(s, r)) = ToSet(s) \ {r}
           /\ ZeroFirst(s) => ZeroFirst(RemoveFirst(s, r))
  <1> DEFINE I == {i \in 1 .. Len(s) : s[i] = r}
             k == SelectInSeq(s, LAMBDA v : v = r)
             m == Len(s)
  <1>0. m \in Nat /\ DOMAIN s = 1 .. m
    BY SeqOver
  <1>1. CASE I = {}
    <2>1. RemoveFirst(s, r) = s
      BY <1>1 DEF RemoveFirst
    <2>2. r \notin ToSet(s)
      BY <1>0, <1>1 DEF ToSet
    <2> QED
      BY <2>1, <2>2
  <1>2. CASE I # {}
    <2>1. k = Min(I)
      BY <1>2 DEF SelectInSeq
    <2>2. RemoveFirst(s, r) = RemoveAt(s, k)
      BY <1>2 DEF RemoveFirst
    <2>3. I \subseteq Nat
      OBVIOUS
    <2> HIDE DEF I, k
    <2>4. k \in I
      BY <2>1, <2>3, <1>2, LeastNatural
    <2>5. k \in 1 .. m /\ s[k] = r
      BY <2>4 DEF I
    <2> DEFINE u == RemoveAt(s, k)
    <2>6. /\ u \in Seq(RuleType) /\ Len(u) = m - 1
          /\ \A j \in 1 .. (m - 1) : u[j] = IF j < k THEN s[j] ELSE s[j + 1]
      BY <2>5, Removed
    <2> HIDE DEF u, m
    <2>7. DOMAIN u = 1 .. (m - 1)
      BY <1>0, <2>6
    <2>8. \A i \in 1 .. m : s[i] = r => i = k
      BY <1>0, <2>5 DEF IsInjective
    <2>9. ASSUME NEW j \in 1 .. (m - 1) PROVE u[j] \in ToSet(s) \ {r}
      <3>1. j \in 1 .. m /\ j + 1 \in 1 .. m
        BY <1>0
      <3>2. CASE j < k
        BY <1>0, <3>1, <3>2, <2>6, <2>8, <2>5 DEF ToSet
      <3>3. CASE ~(j < k)
        <4>1. u[j] = s[j + 1] /\ j + 1 # k
          BY <1>0, <3>1, <3>3, <2>6, <2>5
        <4>2. s[j + 1] # r
          BY <4>1, <3>1, <2>8
        <4> QED
          BY <4>1, <4>2, <3>1, <1>0 DEF ToSet
      <3> QED
        BY <3>2, <3>3
    <2>10. ASSUME NEW i \in 1 .. m, s[i] # r PROVE s[i] \in ToSet(u)
      <3>1. i # k
        BY <2>5, <2>10
      <3>2. CASE i < k
        <4>1. i \in 1 .. (m - 1) /\ u[i] = s[i]
          BY <1>0, <2>5, <2>6, <3>2
        <4> QED
          BY <4>1, <2>7 DEF ToSet
      <3>3. CASE i > k
        <4>1. i - 1 \in 1 .. (m - 1) /\ ~(i - 1 < k) /\ (i - 1) + 1 = i
          BY <1>0, <2>5, <3>3
        <4>2. u[i - 1] = s[i]
          BY <4>1, <2>6
        <4> QED
          BY <4>1, <4>2, <2>7 DEF ToSet
      <3> QED
        BY <3>1, <3>2, <3>3, <1>0, <2>5
    <2>11. ToSet(u) = ToSet(s) \ {r}
      BY <1>0, <2>7, <2>9, <2>10 DEF ToSet
    <2>12. IsInjective(u)
      <3> SUFFICES ASSUME NEW a \in 1 .. (m - 1), NEW b \in 1 .. (m - 1), u[a] = u[b] PROVE a = b
        BY <2>7 DEF IsInjective
      <3> DEFINE x == IF a < k THEN a ELSE a + 1
                 y == IF b < k THEN b ELSE b + 1
      <3>1. x \in 1 .. m /\ y \in 1 .. m /\ u[a] = s[x] /\ u[b] = s[y]
        BY <1>0, <2>5, <2>6
      <3>2. x = y
        BY <3>1, <1>0 DEF IsInjective
      <3> QED
        BY <3>2, <1>0, <2>5
    <2>13. ASSUME ZeroFirst(s) PROVE ZeroFirst(u)
      <3> SUFFICES ASSUME NEW a \in 1 .. (m - 1), NEW b \in 1 .. (m - 1), NEW w, NEW l,
                          u[a] = MarkRule(w, "zero"), u[b] = MarkRule(w, l)
                   PROVE  a <= b
        BY <2>7 DEF ZeroFirst
      <3> DEFINE x == IF a < k THEN a ELSE a + 1
                 y == IF b < k THEN b ELSE b + 1
      <3>1. x \in 1 .. m /\ y \in 1 .. m /\ u[a] = s[x] /\ u[b] = s[y]
        BY <1>0, <2>5, <2>6
      <3>2. x <= y
        <4> HIDE DEF x, y
        <4> QED
          BY <3>1, <1>0, <2>13 DEF ZeroFirst
      <3> QED
        BY <3>2, <1>0, <2>5
    <2> QED
      BY <2>2, <2>6, <2>11, <2>12, <2>13 DEF u
  <1> QED
    BY <1>1, <1>2

\* What the tables promise when the rules of the clients have changed.
Stand(cf) == Builtin \cup Used(cf)
\* The chains that change while the gateway serves are among those it has.
LEMMA StandIs ==
    ASSUME NEW cf
    PROVE  /\ Stand(cf) \in SUBSET Chains
           /\ <<"mangle", "Outgoing">> \in Stand(cf)
           /\ <<"nat", "Global">> \in Stand(cf) /\ <<"filter", "Global">> \in Stand(cf)
           /\ <<"nat", "AuthServs">> \in Stand(cf) /\ <<"filter", "AuthServs">> \in Stand(cf)
           /\ HasAuthDown(cf) => <<"mangle", "AuthDown">> \in Stand(cf)
  <1>1. Stand(cf) \in SUBSET Chains
    BY UsedChains DEF Stand
  <1> QED
    BY <1>1, UsedNames DEF Stand

\* All the chains named in what is promised of a gateway that serves.
LEMMA NamedChains ==
    /\ <<"mangle", "PREROUTING">> \in Chains /\ <<"mangle", "Trusted">> \in Chains
    /\ <<"mangle", "Outgoing">> \in Chains /\ <<"mangle", "AuthDown">> \in Chains
    /\ <<"nat", "PREROUTING">> \in Chains /\ <<"nat", "Outgoing">> \in Chains
    /\ <<"nat", "Internet">> \in Chains /\ <<"nat", "Unknown">> \in Chains
    /\ <<"nat", "AuthServs">> \in Chains /\ <<"nat", "Global">> \in Chains /\ <<"nat",
         "AuthDown">> \in Chains
    /\ <<"filter", "FORWARD">> \in Chains /\ <<"filter", "Internet">> \in Chains
    /\ <<"filter", "AuthServs">> \in Chains /\ <<"filter", "Global">> \in Chains
    /\ <<"filter", "Validate">> \in Chains /\ <<"filter", "Known">> \in Chains
    /\ <<"filter", "AuthDown">> \in Chains /\ <<"filter", "Unknown">> \in Chains
  BY DEF Chains, Builtin, Own

\* What is promised of a table says nothing of the other tables.
LEMMA MangleAlike ==
    ASSUME NEW cf, NEW tb, NEW u, NEW cl, NEW z, NEW down, MangleServes(cf, tb, cl, z, down),
           \A d \in Chains : d[1] = "mangle" => u[d] = tb[d]
    PROVE  MangleServes(cf, u, cl, z, down)
  <1>1. /\ u[<<"mangle", "PREROUTING">>] = tb[<<"mangle", "PREROUTING">>]
        /\ u[<<"mangle", "Trusted">>] = tb[<<"mangle", "Trusted">>]
        /\ u[<<"mangle", "Outgoing">>] = tb[<<"mangle", "Outgoing">>]
        /\ u[<<"mangle", "AuthDown">>] = tb[<<"mangle", "AuthDown">>]
    BY NamedChains
  <1> QED
    BY <1>1 DEF MangleServes
LEMMA NatAlike ==
    ASSUME NEW cf, NEW tb, NEW u, NEW sv, NEW op, NatServes(cf, tb, sv, op),
           \A d \in Chains : d[1] = "nat" => u[d] = tb[d]
    PROVE  NatServes(cf, u, sv, op)
  <1>1. /\ u[<<"nat", "PREROUTING">>] = tb[<<"nat", "PREROUTING">>]
        /\ u[<<"nat", "Outgoing">>] = tb[<<"nat", "Outgoing">>]
        /\ u[<<"nat", "Internet">>] = tb[<<"nat", "Internet">>]
        /\ u[<<"nat", "Unknown">>] = tb[<<"nat", "Unknown">>]
        /\ u[<<"nat", "AuthServs">>] = tb[<<"nat", "AuthServs">>]
        /\ u[<<"nat", "Global">>] = tb[<<"nat", "Global">>]
        /\ u[<<"nat", "AuthDown">>] = tb[<<"nat", "AuthDown">>]
    BY NamedChains
  <1> QED
    BY <1>1 DEF NatServes
LEMMA FilterAlike ==
    ASSUME NEW cf, NEW tb, NEW u, NEW sv, NEW op, FilterServes(cf, tb, sv, op),
           \A d \in Chains : d[1] = "filter" => u[d] = tb[d]
    PROVE  FilterServes(cf, u, sv, op)
  <1>1. /\ u[<<"filter", "FORWARD">>] = tb[<<"filter", "FORWARD">>]
        /\ u[<<"filter", "Internet">>] = tb[<<"filter", "Internet">>]
        /\ u[<<"filter", "AuthServs">>] = tb[<<"filter", "AuthServs">>]
        /\ u[<<"filter", "Global">>] = tb[<<"filter", "Global">>]
        /\ u[<<"filter", "Validate">>] = tb[<<"filter", "Validate">>]
        /\ u[<<"filter", "Known">>] = tb[<<"filter", "Known">>]
        /\ u[<<"filter", "AuthDown">>] = tb[<<"filter", "AuthDown">>]
        /\ u[<<"filter", "Unknown">>] = tb[<<"filter", "Unknown">>]
    BY NamedChains
  <1> QED
    BY <1>1 DEF FilterServes

\* A list of the rules of other marks.
LEMMA ClientsChange ==
    ASSUME NEW cf, NEW tb, NEW cl, NEW z, NEW k2, NEW z2, NEW down, NEW sv, NEW op,
           Served(cf, tb, cl, z, down, sv, op),
           NEW x, IsInjective(x), ZeroFirst(x), ToSet(x) = ClientRules(k2) \cup ZeroRules(z2),
           NEW u, Changed(tb, Stand(cf), <<"mangle", "Outgoing">>, x, u)
    PROVE  Served(cf, u, k2, z2, down, sv, op)
  <1> DEFINE c == <<"mangle", "Outgoing">>
  <1>1. Standing(u, Stand(cf)) /\ u[c] = x /\ \A d \in Chains \ {c} : u[d] = tb[d]
    BY DEF Changed
  <1>2. MangleServes(cf, tb, cl, z, down) /\ NatServes(cf, tb, sv, op) /\ FilterServes(cf, tb, sv, op)
    BY DEF Served
  <1>3. NatServes(cf, u, sv, op) /\ FilterServes(cf, u, sv, op)
    <2>1. c[1] = "mangle"
      OBVIOUS
    <2>2. \A d \in Chains : d[1] # "mangle" => u[d] = tb[d]
      BY <1>1, <2>1
    <2> QED
      BY <2>2, <1>2, NatAlike, FilterAlike
  <1>4. /\ u[<<"mangle", "PREROUTING">>] = tb[<<"mangle", "PREROUTING">>]
        /\ u[<<"mangle", "Trusted">>] = tb[<<"mangle", "Trusted">>]
        /\ u[<<"mangle", "AuthDown">>] = tb[<<"mangle", "AuthDown">>]
    BY <1>1, NamedChains
  <1>5. MangleServes(cf, u, k2, z2, down)
    BY <1>1, <1>2, <1>4 DEF MangleServes
  <1> QED
    BY <1>1, <1>3, <1>5 DEF Served, Stand

\* The passthrough is set or taken back.
LEMMA DownChanges ==
    ASSUME NEW cf, NEW tb, NEW cl, NEW z, NEW down, NEW k2, NEW sv, NEW op,
           Served(cf, tb, cl, z, down, sv, op),
           NEW x, ToSet(x) = DownRules(k2),
           NEW u, Changed(tb, Stand(cf), <<"mangle", "AuthDown">>, x, u)
    PROVE  Served(cf, u, cl, z, k2, sv, op)
  <1> DEFINE c == <<"mangle", "AuthDown">>
  <1>1. Standing(u, Stand(cf)) /\ u[c] = x /\ \A d \in Chains \ {c} : u[d] = tb[d]
    BY DEF Changed
  <1>2. MangleServes(cf, tb, cl, z, down) /\ NatServes(cf, tb, sv, op) /\ FilterServes(cf, tb, sv, op)
    BY DEF Served
  <1>3. NatServes(cf, u, sv, op) /\ FilterServes(cf, u, sv, op)
    <2>1. c[1] = "mangle"
      OBVIOUS
    <2>2. \A d \in Chains : d[1] # "mangle" => u[d] = tb[d]
      BY <1>1, <2>1
    <2> QED
      BY <2>2, <1>2, NatAlike, FilterAlike
  <1>4. /\ u[<<"mangle", "PREROUTING">>] = tb[<<"mangle", "PREROUTING">>]
        /\ u[<<"mangle", "Trusted">>] = tb[<<"mangle", "Trusted">>]
        /\ u[<<"mangle", "Outgoing">>] = tb[<<"mangle", "Outgoing">>]
    BY <1>1, NamedChains
  <1>5. MangleServes(cf, u, cl, z, k2)
    BY <1>1, <1>2, <1>4 DEF MangleServes
  <1> QED
    BY <1>1, <1>3, <1>5 DEF Served, Stand

\* The chains of the auth servers are filled again.
LEMMA ServersChange ==
    ASSUME NEW cf, NEW tb, NEW cl, NEW z, NEW down, NEW sv, NEW k2, NEW op,
           Served(cf, tb, cl, z, down, sv, op),
           NEW x, ToSet(x) = ServerRules(k2),
           NEW v, Changed(tb, Stand(cf), <<"filter", "AuthServs">>, x, v),
           NEW u, Changed(v, Stand(cf), <<"nat", "AuthServs">>, x, u)
    PROVE  Served(cf, u, cl, z, down, k2, op)
  <1> DEFINE f == <<"filter", "AuthServs">>
             n == <<"nat", "AuthServs">>
  <1>1. /\ Standing(u, Stand(cf)) /\ v[f] = x /\ \A d \in Chains \ {f} : v[d] = tb[d]
        /\ u[n] = x /\ \A d \in Chains \ {n} : u[d] = v[d]
    BY DEF Changed
  <1>2. MangleServes(cf, tb, cl, z, down) /\ NatServes(cf, tb, sv, op) /\ FilterServes(cf, tb, sv, op)
    BY DEF Served
  <1>3. f \in Chains /\ n \in Chains /\ f # n /\ f[1] = "filter" /\ n[1] = "nat"
    BY NamedChains
  <1>4. u[f] = x /\ u[n] = x /\ \A d \in Chains \ {f, n} : u[d] = tb[d]
    BY <1>1, <1>3
  <1>5. \A d \in Chains : d[1] = "mangle" => u[d] = tb[d]
    BY <1>3, <1>4
  <1>6. MangleServes(cf, u, cl, z, down)
    BY <1>2, <1>5, MangleAlike
  <1>7. NatServes(cf, u, k2, op)
    <2>1. /\ u[<<"nat", "PREROUTING">>] = tb[<<"nat", "PREROUTING">>]
          /\ u[<<"nat", "Outgoing">>] = tb[<<"nat", "Outgoing">>]
          /\ u[<<"nat", "Internet">>] = tb[<<"nat", "Internet">>]
          /\ u[<<"nat", "Unknown">>] = tb[<<"nat", "Unknown">>]
          /\ u[<<"nat", "Global">>] = tb[<<"nat", "Global">>]
          /\ u[<<"nat", "AuthDown">>] = tb[<<"nat", "AuthDown">>]
      BY <1>4, NamedChains
    <2> QED
      BY <2>1, <1>2, <1>4 DEF NatServes
  <1>8. FilterServes(cf, u, k2, op)
    <2>1. /\ u[<<"filter", "FORWARD">>] = tb[<<"filter", "FORWARD">>]
          /\ u[<<"filter", "Internet">>] = tb[<<"filter", "Internet">>]
          /\ u[<<"filter", "Global">>] = tb[<<"filter", "Global">>]
          /\ u[<<"filter", "Validate">>] = tb[<<"filter", "Validate">>]
          /\ u[<<"filter", "Known">>] = tb[<<"filter", "Known">>]
          /\ u[<<"filter", "AuthDown">>] = tb[<<"filter", "AuthDown">>]
          /\ u[<<"filter", "Unknown">>] = tb[<<"filter", "Unknown">>]
      BY <1>4, NamedChains
    <2> QED
      BY <2>1, <1>2, <1>4 DEF FilterServes
  <1> QED
    BY <1>1, <1>6, <1>7, <1>8 DEF Served, Stand

\* The rules of a configuration are rules, and none of them is a jump.
LEMMA ConfiguredRules ==
    ASSUME NEW cf \in Configs, NEW set \in RuleSets
    PROVE  /\ cf.rules[set] \in Seq(ConfRules) /\ cf.rules[set] \in Seq(RuleType)
           /\ \A r \in ConfRules : r \in RuleType /\ r.do[1] # "go" /\ r.do[1] # "mark"
  <1>1. ConfRules \subseteq RuleType
    BY JumpTypes, RuleTypes DEF Targets, Own
  <1>2. \A r \in ConfRules : r.do[1] # "go" /\ r.do[1] # "mark"
    BY DEF ConfRules
  <1> DEFINE x == cf.rules[set]
  <1>3. x \in Seq(ConfRules)
    BY ConfigAssumption
  <1> HIDE DEF x
  <1>4. x \in Seq(RuleType)
    BY <1>1, <1>3
  <1> QED
    BY <1>1, <1>2, <1>3, <1>4 DEF x

\* A host is opened.
LEMMA OpenedChange ==
    ASSUME NEW cf \in Configs, NEW tb, NEW cl, NEW z, NEW down, NEW sv,
           NEW op \in Seq(Names), NEW h \in Names,
           Served(cf, tb, cl, z, down, sv, op),
           NEW r \in RuleType, r = OpenRule(h),
           NEW v, Changed(tb, Stand(cf), <<"nat", "Global">>, tb[<<"nat", "Global">>] \o <<r>>, v),
           NEW u, Changed(v, Stand(cf), <<"filter", "Global">>, v[<<"filter", "Global">>] \o <<r>>, u)
    PROVE  Served(cf, u, cl, z, down, sv, Append(op, h))
  <1> DEFINE f == <<"filter", "Global">>
             n == <<"nat", "Global">>
             q == Append(op, h)
  <1>1. /\ Standing(u, Stand(cf)) /\ v[n] = tb[n] \o <<r>> /\ \A d \in Chains \ {n} : v[d] = tb[d]
        /\ u[f] = v[f] \o <<r>> /\ \A d \in Chains \ {f} : u[d] = v[d]
    BY DEF Changed
  <1>2. /\ MangleServes(cf, tb, cl, z, down) /\ NatServes(cf, tb, sv, op) /\ FilterServes(cf, tb, sv, op)
        /\ Standing(tb, Stand(cf))
    BY DEF Served, Stand
  <1>3. f \in Chains /\ n \in Chains /\ f # n /\ f[1] = "filter" /\ n[1] = "nat"
    BY NamedChains
  <1>4. u[f] = tb[f] \o <<r>> /\ u[n] = tb[n] \o <<r>> /\ \A d \in Chains \ {f, n} : u[d] = tb[d]
    BY <1>1, <1>3
  <1>5. \A d \in Chains : d[1] = "mangle" => u[d] = tb[d]
    BY <1>3, <1>4
  <1>6. MangleServes(cf, u, cl, z, down)
    BY <1>2, <1>5, MangleAlike
  <1>9. OpenRules(q) = OpenRules(op) \cup {r}
    <2>1. ToSet(q) = ToSet(op) \cup {h}
      <3> DEFINE m == Len(op)
      <3>1. m \in Nat /\ Len(q) = m + 1 /\ q \in Seq(Names) /\ q[m + 1] = h
              /\ \A i \in 1 .. m : q[i] = op[i]
        OBVIOUS
      <3>2. DOMAIN op = 1 .. m /\ DOMAIN q = 1 .. (m + 1)
        BY <3>1
      <3> HIDE DEF m, q
      <3>3. (\A i \in 1 .. (m + 1) : i \in 1 .. m \/ i = m + 1) /\ 1 .. m \subseteq 1 .. (m + 1)
              /\ m + 1 \in 1 .. (m + 1)
        BY <3>1
      <3> QED
        BY <3>1, <3>2, <3>3 DEF ToSet
    <2> QED
      BY <2>1 DEF OpenRules
  <1>n. tb[n] \in Seq(RuleType)
    BY <1>2, StandIs DEF Standing
  <1>7. NatServes(cf, u, sv, q)
    <2>1. /\ u[<<"nat", "PREROUTING">>] = tb[<<"nat", "PREROUTING">>]
          /\ u[<<"nat", "Outgoing">>] = tb[<<"nat", "Outgoing">>]
          /\ u[<<"nat", "Internet">>] = tb[<<"nat", "Internet">>]
          /\ u[<<"nat", "Unknown">>] = tb[<<"nat", "Unknown">>]
          /\ u[<<"nat", "AuthServs">>] = tb[<<"nat", "AuthServs">>]
          /\ u[<<"nat", "AuthDown">>] = tb[<<"nat", "AuthDown">>]
      BY <1>4, NamedChains
    <2>2. ToSet(u[n]) = ToSet(tb[n]) \cup {r}
      BY <1>4, <1>n, Extended
    <2>3. ToSet(u[n]) = AcceptRules(cf) \cup OpenRules(q)
      BY <2>2, <1>2, <1>9 DEF NatServes
    <2> HIDE DEF q
    <2> QED
      BY <2>1, <2>3, <1>2 DEF NatServes
  <1>8. FilterServes(cf, u, sv, q)
    <2>1. /\ u[<<"filter", "FORWARD">>] = tb[<<"filter", "FORWARD">>]
          /\ u[<<"filter", "Internet">>] = tb[<<"filter", "Internet">>]
          /\ u[<<"filter", "AuthServs">>] = tb[<<"filter", "AuthServs">>]
          /\ u[<<"filter", "Validate">>] = tb[<<"filter", "Validate">>]
          /\ u[<<"filter", "Known">>] = tb[<<"filter", "Known">>]
          /\ u[<<"filter", "AuthDown">>] = tb[<<"filter", "AuthDown">>]
          /\ u[<<"filter", "Unknown">>] = tb[<<"filter", "Unknown">>]
      BY <1>4, NamedChains
    <2>2. PICK g \in Seq(RuleType) : tb[f] = cf.rules["global"] \o g /\ ToSet(g) = OpenRules(op)
      BY <1>2 DEF FilterServes
    <2>3. g \o <<r>> \in Seq(RuleType) /\ ToSet(g \o <<r>>) = OpenRules(q)
      BY <2>2, <1>9, Extended
    <2>4. u[f] = cf.rules["global"] \o (g \o <<r>>)
      <3> DEFINE a == cf.rules["global"]
                 b == <<r>>
      <3>1. a \in Seq(RuleType) /\ b \in Seq(RuleType)
        BY ConfiguredRules DEF RuleSets
      <3>2. u[f] = (a \o g) \o b
        BY <2>2, <1>4
      <3> HIDE DEF a, b
      <3>3. (a \o g) \o b = a \o (g \o b)
        BY <3>1, RulesAssociative
      <3> QED
        BY <3>2, <3>3 DEF a, b
    <2> HIDE DEF q
    <2> QED
      BY <2>1, <2>3, <2>4, <1>2 DEF FilterServes
  <1> QED
    BY <1>1, <1>6, <1>7, <1>8 DEF Served, Stand

ClientMarks == {NoMark, "probation", "known"}

\* A mark rule is of one machine and sets one mark.
LEMMA MarkRules ==
    /\ \A a, b, j, k : MarkRule(a, j) = MarkRule(b, k) => a = b /\ j = k
    /\ \A m \in Macs, k \in {"probation", "known", "zero"} :
          MarkRule(m, k) \in RuleType /\ MarkRule(m, k).do[1] # "go"
  <1>1. ASSUME NEW a, NEW b, NEW j, NEW k, MarkRule(a, j) = MarkRule(b, k) PROVE a = b /\ j = k
    <2> DEFINE x == MarkRule(a, j)
               y == MarkRule(b, k)
    <2>1. x.when = If("mac", a) /\ y.when = If("mac", b) /\ x.do = <<"mark", j>> /\ y.do = <<"mark", k>>
      BY DEF MarkRule, Rule
    <2>2. If("mac", a) = If("mac", b) /\ <<"mark", j>> = <<"mark", k>>
      BY <1>1, <2>1
    <2>3. If("mac", a)["mac"] = a /\ If("mac", b)["mac"] = b
      BY DEF If
    <2>4. <<"mark", j>>[2] = j /\ <<"mark", k>>[2] = k
      OBVIOUS
    <2> QED
      BY <2>2, <2>3, <2>4
  <1>2. ASSUME NEW m \in Macs, NEW k \in {"probation", "known", "zero"}
        PROVE  MarkRule(m, k) \in RuleType /\ MarkRule(m, k).do[1] # "go"
    <2>1. <<"mark", k>> \in Targets /\ "mac" \in Fields /\ m \in Values
      BY DEF Targets, Marks, Fields, Values
    <2>2. MarkRule(m, k).do[1] # "go"
      BY DEF MarkRule, Rule
    <2> QED
      BY <2>1, <2>2, RuleTypes DEF MarkRule
  <1> QED
    BY <1>1, <1>2

\* The rules of the clients when the mark of one is another.
LEMMA ClientRulesChange ==
    ASSUME NEW cl \in [Macs -> ClientMarks], NEW m \in Macs, NEW k \in ClientMarks, cl[m] # k
    PROVE  LET old == MarkRule(m, cl[m])
               r == MarkRule(m, k)
               new == [cl EXCEPT ![m] = k]
           IN  /\ r \notin ClientRules(cl)
               /\ k # NoMark => (ClientRules(cl) \cup {r}) \ {old} = ClientRules(new)
               /\ k = NoMark => ClientRules(cl) \ {old} = ClientRules(new)
  <1> DEFINE old == MarkRule(m, cl[m])
             r == MarkRule(m, k)
             new == [cl EXCEPT ![m] = k]
  <1>1. \A c, z : z \in ClientRules(c) <=> \E x \in Macs : c[x] # NoMark /\ z = MarkRule(x, c[x])
    BY DEF ClientRules
  <1>2. new[m] = k /\ \A x \in Macs : x # m => new[x] = cl[x]
    OBVIOUS
  <1>3. r # old /\ \A x \in Macs : x # m => MarkRule(x, cl[x]) # r /\ MarkRule(x, cl[x]) # old
    BY MarkRules
  <1> HIDE DEF new
  <1>4. r \notin ClientRules(cl)
    BY <1>1, <1>3
  <1>5. ASSUME NEW z PROVE z \in ClientRules(new) <=> (z \in ClientRules(cl) /\ z # old) \/ (z = r
          /\ k # NoMark)
    <2>1. ASSUME z \in ClientRules(new) PROVE (z \in ClientRules(cl) /\ z # old) \/ (z = r /\ k # NoMark)
      <3>1. PICK x \in Macs : new[x] # NoMark /\ z = MarkRule(x, new[x])
        BY <2>1, <1>1
      <3>2. CASE x = m
        BY <3>1, <3>2, <1>2
      <3>3. CASE x # m
        BY <3>1, <3>3, <1>1, <1>2, <1>3
      <3> QED
        BY <3>2, <3>3
    <2>2. ASSUME z = r, k # NoMark PROVE z \in ClientRules(new)
      BY <2>2, <1>1, <1>2
    <2>3. ASSUME z \in ClientRules(cl), z # old PROVE z \in ClientRules(new)
      <3>1. PICK x \in Macs : cl[x] # NoMark /\ z = MarkRule(x, cl[x])
        BY <2>3, <1>1
      <3>2. x # m
        BY <3>1, <2>3
      <3> QED
        BY <3>1, <3>2, <1>1, <1>2
    <2> QED
      BY <2>1, <2>2, <2>3
  <1> HIDE DEF r, old
  <1>6. k # NoMark => (ClientRules(cl) \cup {r}) \ {old} = ClientRules(new)
    BY <1>3, <1>5
  <1>7. k = NoMark => ClientRules(cl) \ {old} = ClientRules(new)
    BY <1>5
  <1> QED
    BY <1>4, <1>6, <1>7 DEF r, old, new

\* The rules of the mark 0 are none of the clients' and go one by one.
LEMMA ZeroRulesChange ==
    ASSUME NEW cl \in [Macs -> ClientMarks], NEW z
    PROVE  /\ \A m, k : k # "zero" => MarkRule(m, k) \notin ZeroRules(z)
           /\ \A m : MarkRule(m, "zero") \notin ClientRules(cl)
           /\ \A m : ZeroRules(z) \ {MarkRule(m, "zero")} = ZeroRules(z \ {m})
           /\ \A m, k : ZeroFirst(<<>>) /\ (k # "zero" => \A w : MarkRule(m, k) # MarkRule(w, "zero"))
  <1>1. \A m, k : k # "zero" => MarkRule(m, k) \notin ZeroRules(z)
    BY MarkRules DEF ZeroRules
  <1>2. ASSUME NEW m PROVE MarkRule(m, "zero") \notin ClientRules(cl)
    <2>1. \A x \in Macs : cl[x] # "zero"
      BY DEF ClientMarks, NoMark
    <2> QED
      BY <2>1, MarkRules DEF ClientRules
  <1>3. ASSUME NEW m PROVE ZeroRules(z) \ {MarkRule(m, "zero")} = ZeroRules(z \ {m})
    <2>1. \A x : MarkRule(x, "zero") = MarkRule(m, "zero") <=> x = m
      BY MarkRules
    <2> QED
      BY <2>1 DEF ZeroRules
  <1>4. ZeroFirst(<<>>)
    BY DEF ZeroFirst
  <1>5. \A m, k : k # "zero" => \A w : MarkRule(m, k) # MarkRule(w, "zero")
    BY MarkRules
  <1> QED
    BY <1>1, <1>2, <1>3, <1>4, <1>5

\* A mark rule is taken out of the chain of the clients.
LEMMA UnmarkChanges ==
    ASSUME NEW tb, NEW E \in SUBSET Chains, Standing(tb, E), <<"mangle", "Outgoing">> \in E,
           IsInjective(tb[<<"mangle", "Outgoing">>]), ZeroFirst(tb[<<"mangle", "Outgoing">>]),
           NEW m, NEW k
    PROVE  \E x : /\ Changed(tb, E, <<"mangle", "Outgoing">>, x, WithoutMark(tb, m, k))
                  /\ IsInjective(x) /\ ZeroFirst(x)
                  /\ ToSet(x) = ToSet(tb[<<"mangle", "Outgoing">>]) \ {MarkRule(m, k)}
  <1> DEFINE c == <<"mangle", "Outgoing">>
             s == tb[c]
             x == RemoveFirst(s, MarkRule(m, k))
  <1>1. s \in Seq(RuleType)
    BY DEF Standing
  <1>2. /\ x \in Seq(RuleType) /\ IsInjective(x) /\ ZeroFirst(x)
        /\ ToSet(x) = ToSet(s) \ {MarkRule(m, k)}
    <2> HIDE DEF s
    <2>1. IsInjective(s) /\ ZeroFirst(s)
      BY DEF s
    <2> QED
      BY <1>1, <2>1, Struck
  <1>3. Exists(tb, c) => WithoutMark(tb, m, k) = [tb EXCEPT ![c] = x]
    BY DEF WithoutMark
  <1>4. c \in E /\ c \in Chains
    OBVIOUS
  <1> HIDE DEF x, c
  <1>5. Changed(tb, E, c, x, [tb EXCEPT ![c] = x]) /\ Exists(tb, c)
    BY <1>2, <1>4, ExceptChanges
  <1> QED
    BY <1>2, <1>3, <1>5 DEF c

\* fw_allow and fw_deny.
LEMMA AllowServes ==
    ASSUME NEW cf, NEW tb, NEW cl \in [Macs -> ClientMarks], NEW z \in SUBSET Macs, NEW down, NEW sv, NEW op,
           Served(cf, tb, cl, z, down, sv, op), NEW m \in Macs, NEW k \in {"probation", "known"}, cl[m] # k
    PROVE  Served(cf, WithoutMark(Done(tb, App("mangle", "Outgoing", MarkRule(m, k))), m, cl[m]),
                  [cl EXCEPT ![m] = k], z, down, sv, op)
  <1> DEFINE c == <<"mangle", "Outgoing">>
             E == Stand(cf)
             r == MarkRule(m, k)
             old == MarkRule(m, cl[m])
             d == Done(tb, App("mangle", "Outgoing", r))
             u == WithoutMark(d, m, cl[m])
             new == [cl EXCEPT ![m] = k]
             s == tb[c]
             C == ClientRules(cl)
             Z == ZeroRules(z)
  <1>1. E \in SUBSET Chains /\ c \in E /\ c \in Chains
    BY StandIs, NamedChains
  <1>2. /\ Standing(tb, E) /\ s \in Seq(RuleType)
        /\ ToSet(s) = C \cup Z /\ IsInjective(s) /\ ZeroFirst(s)
    BY <1>1 DEF Served, Stand, Standing, MangleServes
  <1>3. r \in RuleType /\ r.do[1] # "go"
    BY MarkRules
  <1>4. r \notin C /\ (C \cup {r}) \ {old} = ClientRules(new)
    <2>1. k \in ClientMarks /\ k # NoMark
      BY DEF ClientMarks, NoMark
    <2> QED
      BY <2>1, ClientRulesChange
  <1>z. r \notin Z /\ old \notin Z /\ \A w : r # MarkRule(w, "zero")
    <2>1. k # "zero" /\ cl[m] # "zero"
      BY DEF ClientMarks, NoMark
    <2> QED
      BY <2>1, ZeroRulesChange
  <1> HIDE DEF E, r, old, new, C, Z
  <1>5. Changed(tb, E, c, s \o <<r>>, d)
    BY <1>1, <1>2, <1>3, AppendChanges
  <1>6. Standing(d, E) /\ d[c] = s \o <<r>> /\ \A x \in Chains \ {c} : d[x] = tb[x]
    BY <1>5 DEF Changed
  <1> HIDE DEF d, s
  <1>7. IsInjective(d[c]) /\ ZeroFirst(d[c]) /\ ToSet(d[c]) = C \cup Z \cup {r}
    BY <1>2, <1>3, <1>4, <1>z, <1>6, Extended
  <1>8. PICK x : /\ Changed(d, E, c, x, u) /\ IsInjective(x) /\ ZeroFirst(x)
                 /\ ToSet(x) = ToSet(d[c]) \ {old}
    <2>1. Standing(d, E) /\ IsInjective(d[c]) /\ ZeroFirst(d[c])
      BY <1>6, <1>7
    <2> DEFINE k0 == cl[m]
    <2>2. \E x : /\ Changed(d, E, c, x, WithoutMark(d, m, k0)) /\ IsInjective(x) /\ ZeroFirst(x)
                 /\ ToSet(x) = ToSet(d[c]) \ {MarkRule(m, k0)}
      <3> HIDE DEF k0
      <3> QED
        BY <1>1, <2>1, UnmarkChanges
    <2> QED
      BY <2>2 DEF old
  <1> HIDE DEF u
  <1>9. Changed(tb, E, c, x, u)
    BY <1>6, <1>8 DEF Changed
  <1>10. ToSet(x) = ClientRules(new) \cup Z
    BY <1>4, <1>z, <1>7, <1>8
  <1>11. Served(cf, u, new, z, down, sv, op)
    BY <1>8, <1>9, <1>10, ClientsChange DEF E, Z
  <1> QED
    BY <1>11 DEF u, d, r, new

\* fw_deny keeps what is promised, of a machine with a mark and of one marked 0.
LEMMA DenyServes ==
    ASSUME NEW cf, NEW tb, NEW cl \in [Macs -> ClientMarks], NEW z \in SUBSET Macs, NEW down, NEW sv,
           NEW op, Served(cf, tb, cl, z, down, sv, op), NEW m \in Macs
    PROVE  /\ cl[m] # NoMark =>
                Served(cf, WithoutMark(tb, m, cl[m]), [cl EXCEPT ![m] = NoMark], z, down, sv, op)
           /\ Served(cf, WithoutMark(tb, m, "zero"), cl, z \ {m}, down, sv, op)
  <1> DEFINE c == <<"mangle", "Outgoing">>
             E == Stand(cf)
             u == WithoutMark(tb, m, cl[m])
             v == WithoutMark(tb, m, "zero")
             new == [cl EXCEPT ![m] = NoMark]
             less == z \ {m}
             C == ClientRules(cl)
             Z == ZeroRules(z)
             old == MarkRule(m, cl[m])
             nil == MarkRule(m, "zero")
  <1>1. E \in SUBSET Chains /\ c \in E
    BY StandIs
  <1>2. /\ Standing(tb, E) /\ ToSet(tb[c]) = C \cup Z
        /\ IsInjective(tb[c]) /\ ZeroFirst(tb[c])
    BY DEF Served, Stand, MangleServes
  <1>3. cl[m] # NoMark => C \ {old} = ClientRules(new)
    <2>1. NoMark \in ClientMarks
      BY DEF ClientMarks
    <2> QED
      BY <2>1, ClientRulesChange
  <1>4. old \notin Z /\ nil \notin C /\ Z \ {nil} = ZeroRules(less)
    <2>1. cl[m] # "zero"
      BY DEF ClientMarks, NoMark
    <2> QED
      BY <2>1, ZeroRulesChange
  <1>5. PICK x : /\ Changed(tb, E, c, x, u) /\ IsInjective(x) /\ ZeroFirst(x)
                 /\ ToSet(x) = ToSet(tb[c]) \ {old}
    BY <1>1, <1>2, UnmarkChanges
  <1>6. PICK y : /\ Changed(tb, E, c, y, v) /\ IsInjective(y) /\ ZeroFirst(y)
                 /\ ToSet(y) = ToSet(tb[c]) \ {nil}
    BY <1>1, <1>2, UnmarkChanges
  <1> HIDE DEF E, new, u, v, less, C, Z, old, nil
  <1>7. ASSUME cl[m] # NoMark PROVE Served(cf, u, new, z, down, sv, op)
    <2>1. ToSet(x) = ClientRules(new) \cup Z
      BY <1>2, <1>3, <1>4, <1>5, <1>7
    <2> QED
      BY <2>1, <1>5, ClientsChange DEF E, Z
  <1>8. Served(cf, v, cl, less, down, sv, op)
    <2>1. ToSet(y) = C \cup ZeroRules(less)
      BY <1>2, <1>4, <1>6
    <2> QED
      BY <2>1, <1>6, ClientsChange DEF E, C
  <1> QED
    BY <1>7, <1>8 DEF new, u, v, less

\* The clients a restart has inherited: a rule each, in a chain that was empty.
LEMMA RestoreServes ==
    ASSUME NEW cf, NEW tb, Served(cf, tb, [m \in Macs |-> NoMark], {}, FALSE, {}, <<>>),
           NEW cl \in [Macs -> ClientMarks], NEW z \in SUBSET (Macs \ Restored(cl))
    PROVE  \E u : Builds(RestoreScript(cl, z), tb, u) /\ Served(cf, u, cl, z, FALSE, {}, <<>>)
  <1> DEFINE c == <<"mangle", "Outgoing">>
             E == Stand(cf)
             T == z \cup Restored(cl)
             q == SetToSeq(T)
             n == Cardinality(T)
             mark(m) == IF cl[m] = NoMark THEN "zero" ELSE cl[m]
             rs == [i \in 1 .. n |-> MarkRule(q[i], mark(q[i]))]
             s == RestoreScript(cl, z)
             K == 1 .. n
  <1>1. T \subseteq Macs
    BY DEF Restored
  <1>2. IsFiniteSet(T)
    BY <1>1, ConfigAssumption, FS_Subset
  <1>3. q \in [1 .. n -> T] /\ n \in Nat /\ ToSet(q) = T /\ IsInjective(q)
    BY <1>2, SetToSeqIsSeq, SetToSeqIsAll
  <1>4. DOMAIN q = 1 .. n
    BY <1>3
  <1>5. s = [i \in DOMAIN q |-> App("mangle", "Outgoing", MarkRule(q[i], mark(q[i])))]
    BY DEF RestoreScript, Each
  <1>6. \A m \in Macs : mark(m) \in {"probation", "known", "zero"}
    BY DEF ClientMarks, NoMark
  <1>7. /\ \A m \in Restored(cl) : mark(m) = cl[m] /\ cl[m] # NoMark
        /\ \A m \in z : mark(m) = "zero"
        /\ Restored(cl) = {m \in Macs : cl[m] # NoMark}
    BY DEF Restored
  <1> HIDE DEF s, q, n, T, mark
  <1>8. rs \in [1 .. n -> RuleType] /\ \A i \in 1 .. n : rs[i].do[1] # "go"
    <2>1. \A i \in 1 .. n : q[i] \in Macs
      BY <1>1, <1>3
    <2> QED
      BY <1>6, <2>1, MarkRules
  <1>9. DOMAIN rs = 1 .. n /\ \A i \in 1 .. n : rs[i] = MarkRule(q[i], mark(q[i]))
    OBVIOUS
  <1>10. \A i \in 1 .. n : s[i] = App("mangle", "Outgoing", rs[i])
    BY <1>4, <1>5
  <1> HIDE DEF rs
  <1>11. ToSet(rs) = ClientRules(cl) \cup ZeroRules(z)
    <2>1. ToSet(rs) = {MarkRule(m, mark(m)) : m \in T}
      BY <1>3, <1>4, <1>9 DEF ToSet
    <2>2. {MarkRule(m, mark(m)) : m \in T}
            = {MarkRule(m, mark(m)) : m \in Restored(cl)} \cup {MarkRule(m, mark(m)) : m \in z}
      BY DEF T
    <2>3. {MarkRule(m, mark(m)) : m \in Restored(cl)} = ClientRules(cl)
      BY <1>7 DEF ClientRules
    <2>4. {MarkRule(m, mark(m)) : m \in z} = ZeroRules(z)
      BY <1>7 DEF ZeroRules
    <2> QED
      BY <2>1, <2>2, <2>3, <2>4
  <1>12. IsInjective(rs) /\ ZeroFirst(rs)
    <2>1. ASSUME NEW i \in 1 .. n, NEW j \in 1 .. n, NEW m, NEW a, NEW b,
                 rs[i] = MarkRule(m, a), rs[j] = MarkRule(m, b)
          PROVE  i = j
      <3>1. q[i] = m /\ q[j] = m
        BY <1>9, <2>1, MarkRules
      <3> QED
        BY <3>1, <1>3, <1>4 DEF IsInjective
    <2>2. IsInjective(rs)
      BY <1>9, <2>1 DEF IsInjective
    <2>3. \A i, j \in 1 .. n : i = j => i <= j
      BY <1>3
    <2> QED
      BY <1>9, <2>1, <2>2, <2>3 DEF ZeroFirst
  <1>13. rs \in Seq(RuleType) /\ Len(rs) = n
    BY <1>3, <1>8
  <1>14. IsSeq(s) /\ Len(s) = n
    <2>1. s \in [1 .. n -> ToSet(s)] /\ n \in Nat
      BY <1>3, <1>4, <1>5 DEF ToSet
    <2>2. s \in Seq(ToSet(s)) /\ Len(s) = n
      BY <2>1
    <2> QED
      BY <2>2 DEF IsSeq
  <1>15. /\ E \in SUBSET Chains /\ c \in E /\ Standing(tb, E)
         /\ tb[c] \in Seq(RuleType) /\ ToSet(tb[c]) = {}
    <2>1. ClientRules([m \in Macs |-> NoMark]) \cup ZeroRules({}) = {}
      BY DEF ClientRules, ZeroRules
    <2>2. E \in SUBSET Chains /\ c \in E /\ Standing(tb, E)
      BY StandIs DEF Served, Stand
    <2>3. ToSet(tb[c]) = {}
      BY <2>1 DEF Served, MangleServes
    <2> QED
      BY <2>2, <2>3 DEF Standing
  <1>16. tb[c] = <<>>
    <2> DEFINE x == tb[c]
    <2>1. x \in Seq(RuleType) /\ ToSet(x) = {}
      BY <1>15
    <2> HIDE DEF x
    <2>2. DOMAIN x = {}
      BY <2>1 DEF ToSet
    <2>3. Len(x) = 0
      BY <2>1, <2>2
    <2>4. x = <<>>
      BY <2>1, <2>3
    <2> QED
      BY <2>4 DEF x
  <1> HIDE DEF E
  <1>17. PICK u, g : /\ Puts(s, tb, E, c, tb[c] \o g, u)
                     /\ g \in Seq(RuleType) /\ ToSet(g) = Chosen(rs, K)
                     /\ K = 1 .. Len(rs) => g = rs
    <2>1. K \in SUBSET (1 .. Len(rs)) /\ \A i \in 1 .. Len(rs) : rs[i].do[1] # "go"
      BY <1>8, <1>13
    <2>2. /\ \A i \in K : s[i] = App("mangle", "Outgoing", rs[i])
          /\ \A i \in (1 .. Len(rs)) \ K : s[i] = Nothing("mangle", "Outgoing")
      BY <1>10, <1>13
    <2> HIDE DEF K
    <2>3. Appends(s, "mangle", "Outgoing", rs, K)
      BY <1>13, <1>14, <2>1, <2>2 DEF Appends
    <2> QED
      BY <1>15, <2>3, Filling
  <1>18. g = rs /\ tb[c] \o g = rs
    <2>1. g = rs
      BY <1>13, <1>17
    <2> QED
      BY <1>13, <1>16, <2>1, ConcatEmptySeq
  <1>19. Builds(s, tb, u) /\ Changed(tb, E, c, rs, u)
    BY <1>17, <1>18 DEF Puts, Changed
  <1>20. Served(cf, u, cl, z, FALSE, {}, <<>>)
    BY <1>11, <1>12, <1>19, ClientsChange DEF E
  <1> QED
    BY <1>19, <1>20 DEF s

\* fw_allow_host.
LEMMA OpenServes ==
    ASSUME NEW cf \in Configs, NEW tb, NEW cl, NEW z, NEW down, NEW sv, NEW op \in Seq(Names),
           Served(cf, tb, cl, z, down, sv, op), NEW h \in Names
    PROVE  Served(cf, Done(Done(tb, App("nat", "Global", OpenRule(h))),
                           App("filter", "Global", OpenRule(h))),
                  cl, z, down, sv, Append(op, h))
  <1> DEFINE r == OpenRule(h)
             E == Stand(cf)
             v == Done(tb, App("nat", "Global", r))
             u == Done(v, App("filter", "Global", r))
  <1>1. E \in SUBSET Chains /\ <<"nat", "Global">> \in E /\ <<"filter", "Global">> \in E
    BY StandIs
  <1>2. Standing(tb, E)
    BY DEF Served, Stand
  <1>3. r \in RuleType /\ r.do[1] # "go"
    <2>1. "ACCEPT" \in EndTargets /\ "to" \in Fields /\ (h # Anywhere => h \in Values)
      BY DEF EndTargets, Fields, Values, Names
    <2>2. CASE h = Anywhere
      BY <2>1, <2>2, EndFacts DEF OpenRule
    <2>3. CASE h # Anywhere
      BY <2>1, <2>3, EndFacts DEF OpenRule
    <2> QED
      BY <2>2, <2>3
  <1>r. r = OpenRule(h)
    OBVIOUS
  <1> HIDE DEF E, r
  <1>4. Changed(tb, E, <<"nat", "Global">>, tb[<<"nat", "Global">>] \o <<r>>, v)
    BY <1>1, <1>2, <1>3, AppendChanges
  <1>5. Standing(v, E)
    BY <1>4 DEF Changed
  <1> HIDE DEF v
  <1>6. Changed(v, E, <<"filter", "Global">>, v[<<"filter", "Global">>] \o <<r>>, u)
    BY <1>1, <1>3, <1>5, AppendChanges
  <1> HIDE DEF u
  <1>7. Served(cf, u, cl, z, down, sv, Append(op, h))
    BY <1>r, <1>3, <1>4, <1>6, OpenedChange DEF E
  <1> QED
    BY <1>7 DEF u, v, r

\* fw_set_authdown and fw_set_authup.
LEMMA DownServes ==
    ASSUME NEW cf, NEW tb, NEW cl, NEW z, NEW down, NEW sv, NEW op, Served(cf, tb, cl, z, down, sv, op)
    PROVE  /\ ~down => Served(cf, IF HasAuthDown(cf)
                                  THEN Done(tb, App("mangle", "AuthDown", Rule(Always, "mark", "down")))
                                  ELSE tb, cl, z, TRUE, sv, op)
           /\ Served(cf, IF HasAuthDown(cf) THEN Done(tb, Flush("mangle", "AuthDown")) ELSE tb,
                     cl, z, FALSE, sv, op)
  <1> DEFINE r == Rule(Always, "mark", "down")
             c == <<"mangle", "AuthDown">>
             E == Stand(cf)
             x == tb[c] \o <<r>>
  <1>1. CASE ~HasAuthDown(cf)
    <2>1. \A b : MangleServes(cf, tb, cl, z, b)
      BY <1>1 DEF Served, MangleServes
    <2> QED
      BY <1>1, <2>1 DEF Served
  <1>2. CASE HasAuthDown(cf)
    <2>1. E \in SUBSET Chains /\ c \in E
      BY <1>2, StandIs
    <2>2. Standing(tb, E) /\ ToSet(tb[c]) = DownRules(down)
      BY <1>2 DEF Served, Stand, MangleServes
    <2>3. r \in RuleType /\ r.do[1] # "go"
      <3>1. <<"mark", "down">> \in Targets
        BY DEF Targets, Marks
      <3>2. r.do[1] # "go"
        BY DEF Rule
      <3> QED
        BY <3>1, <3>2, RuleTypes
    <2>4. tb[c] \in Seq(RuleType)
      BY <2>1, <2>2 DEF Standing
    <2>r. DownRules(TRUE) = {r} /\ DownRules(FALSE) = {}
      BY DEF DownRules
    <2> HIDE DEF r, E
    <2>5. Changed(tb, E, c, x, Done(tb, App("mangle", "AuthDown", r)))
      BY <2>1, <2>2, <2>3, AppendChanges
    <2>6. Changed(tb, E, c, <<>>, Done(tb, Flush("mangle", "AuthDown")))
      BY <2>1, <2>2, FlushChanges
    <2>7. ToSet(x) = ToSet(tb[c]) \cup {r}
      BY <2>3, <2>4, Extended
    <2> HIDE DEF x
    <2>8. ASSUME ~down PROVE Served(cf, Done(tb, App("mangle", "AuthDown", r)), cl, z, TRUE, sv, op)
      <3>1. ToSet(x) = DownRules(TRUE)
        BY <2>2, <2>7, <2>8, <2>r DEF DownRules
      <3> QED
        BY <3>1, <2>5, DownChanges DEF E
    <2>9. Served(cf, Done(tb, Flush("mangle", "AuthDown")), cl, z, FALSE, sv, op)
      <3>1. ToSet(<<>>) = DownRules(FALSE)
        BY <2>r, EmptyTuple
      <3> QED
        BY <3>1, <2>6, DownChanges DEF E
    <2> QED
      BY <1>2, <2>8, <2>9 DEF r
  <1> QED
    BY <1>1, <1>2

\* fw_clear_authservers and fw_set_authservers.
LEMMA AddressServes ==
    ASSUME NEW cf, NEW tb, NEW cl, NEW z, NEW down, NEW sv, NEW op, Served(cf, tb, cl, z, down, sv, op),
           NEW S \in SUBSET ServerHosts
    PROVE  Served(cf, Refill(Refill(tb, <<"filter", "AuthServs">>, Each(S, ServerRule)),
                             <<"nat", "AuthServs">>, Each(S, ServerRule)), cl, z, down, S, op)
  <1> DEFINE q == SetToSeq(S)
             k == Cardinality(S)
             x == Each(S, ServerRule)
             f == <<"filter", "AuthServs">>
             n == <<"nat", "AuthServs">>
             E == Stand(cf)
  <1>1. q \in [1 .. k -> S] /\ k \in Nat /\ ToSet(q) = S
    <2>1. IsFiniteSet(S)
      BY ConfigAssumption, FS_Subset
    <2> QED
      BY <2>1, SetToSeqIsSeq, SetToSeqIsAll
  <1>2. \A h \in S : ServerRule(h) \in RuleType
    <2>1. "ACCEPT" \in EndTargets /\ "to" \in Fields /\ S \subseteq Values
      BY ConfigAssumption DEF EndTargets, Fields, Values
    <2> QED
      BY <2>1, EndFacts DEF ServerRule
  <1>3. x = [i \in 1 .. k |-> ServerRule(q[i])]
    <2>1. DOMAIN q = 1 .. k
      BY <1>1
    <2> HIDE DEF k
    <2> QED
      BY <2>1 DEF Each
  <1> HIDE DEF q, k, x
  <1>4. x \in [1 .. k -> RuleType] /\ DOMAIN x = 1 .. k /\ DOMAIN q = 1 .. k
    BY <1>1, <1>2, <1>3
  <1>5. x \in Seq(RuleType)
    BY <1>1, <1>4
  <1>6. ToSet(x) = ServerRules(S)
    <2>1. ServerRules(S) = {ServerRule(h) : h \in ToSet(q)}
      BY <1>1 DEF ServerRules
    <2> QED
      BY <1>3, <1>4, <2>1 DEF ToSet
  <1>7. E \in SUBSET Chains /\ f \in E /\ n \in E
    BY StandIs
  <1>8. Standing(tb, E)
    BY DEF Served, Stand
  <1> HIDE DEF E
  <1> DEFINE v == Refill(tb, f, x)
             u == Refill(v, n, x)
  <1>9. Changed(tb, E, f, x, v)
    <2> HIDE DEF f
    <2> QED
      BY <1>5, <1>7, <1>8, ExceptChanges DEF Refill
  <1>10. Standing(v, E)
    BY <1>9 DEF Changed
  <1> HIDE DEF v
  <1>11. Changed(v, E, n, x, u)
    <2> HIDE DEF n
    <2> QED
      BY <1>5, <1>7, <1>10, ExceptChanges DEF Refill
  <1> HIDE DEF u
  <1>12. Served(cf, u, cl, z, down, S, op)
    BY <1>6, <1>9, <1>11, ServersChange DEF E
  <1> QED
    BY <1>12 DEF u, v, x

-----------------------------------------------------------------------------
(* The tables of a gateway that serves, along its life.                    *)

NoClients == [m \in Macs |-> NoMark]
DataInv ==
    /\ clients \in [Macs -> ClientMarks] /\ zeroed \in SUBSET Macs
    /\ opened \in Seq(Names) /\ authdown \in BOOLEAN
    /\ mode \notin {"serve", "stop"} => authdown = FALSE /\ servers = {} /\ opened = <<>>
    /\ mode \notin {"init", "serve", "stop"} => clients = NoClients /\ zeroed = {}

\* While the tables are built, the commands still to run make of them what is
\* promised; once they are built they are and stay so.
ServeInv ==
    /\ DataInv
    /\ mode = "init" =>
         \E b : Builds(todo, tables, b) /\ Served(conf, b, clients, zeroed, authdown, servers, opened)
    /\ mode = "serve" =>
         todo = <<>> /\ Served(conf, tables, clients, zeroed, authdown, servers, opened)

\* Nothing is promised before the first start.
LEMMA InitServeInv == Init => ServeInv
  <1> SUFFICES ASSUME Init PROVE ServeInv
    OBVIOUS
  <1>1. /\ mode = "off" /\ clients = NoClients /\ zeroed = {} /\ authdown = FALSE
        /\ servers = {} /\ opened = <<>>
    BY DEF Init, NoClients
  <1>2. NoClients \in [Macs -> ClientMarks] /\ <<>> \in Seq(Names)
    BY DEF NoClients, ClientMarks
  <1> QED
    BY <1>1, <1>2 DEF ServeInv, DataInv

\* The life of the process: FwInit finds the tables clean, so its script
\* makes of them what is promised; each command run leaves the rest to do so.
LEMMA LifeServeInv ==
    ASSUME IInv, ServeInv, Start \/ Command \/ FwInit \/ FwInitFails \/ Serve \/ Stop \/ Exit \/ Crash
    PROVE  ServeInv'
  <1>0. NoClients \in [Macs -> ClientMarks] /\ <<>> \in Seq(Names)
    BY DEF NoClients, ClientMarks
  <1>1. CASE Start
    <2>1. mode = "off" /\ mode' = "reset" /\ UNCHANGED dataVars
      BY <1>1 DEF Start
    <2> QED
      BY <2>1 DEF ServeInv, DataInv, dataVars
  <1>2. CASE FwInitFails
    <2>1. mode = "reset" /\ mode' = "off" /\ UNCHANGED dataVars
      BY <1>2 DEF FwInitFails
    <2> QED
      BY <2>1 DEF ServeInv, DataInv, dataVars
  <1>3. CASE Stop
    <2>1. mode = "serve" /\ mode' = "stop" /\ UNCHANGED dataVars
      BY <1>3 DEF Stop
    <2> QED
      BY <2>1 DEF ServeInv, DataInv, dataVars
  <1>4. CASE Exit \/ Crash
    <2>1. /\ mode' = "off" /\ clients' = NoClients /\ zeroed' = {} /\ authdown' = FALSE
          /\ servers' = {} /\ opened' = <<>>
      BY <1>4 DEF Exit, Crash, Forget, NoClients
    <2> QED
      BY <1>0, <2>1 DEF ServeInv, DataInv
  <1>5. CASE Serve
    <2>1. /\ mode = "init" /\ todo = <<>> /\ mode' = "serve"
          /\ UNCHANGED <<conf, tables, todo, clients, zeroed, authdown, servers, opened>>
      BY <1>5 DEF Serve, dataVars
    <2>2. PICK b : Builds(todo, tables, b) /\ Served(conf, b, clients, zeroed, authdown, servers, opened)
      BY <2>1 DEF ServeInv
    <2>3. tables = b
      BY <2>1, <2>2, BuildsEnd
    <2>4. DataInv'
      BY <2>1 DEF ServeInv, DataInv
    <2> QED
      BY <2>1, <2>2, <2>3, <2>4 DEF ServeInv
  <1>6. CASE FwInit
    <2>1. /\ mode = "reset" /\ todo = <<>> /\ mode' = "init"
          /\ clients' \in [Macs -> ClientMarks] /\ zeroed' \in SUBSET (Macs \ Restored(clients'))
          /\ todo' = InitScript \o RestoreScript(clients', zeroed')
          /\ UNCHANGED <<conf, tables, authdown, servers, opened>>
      BY <1>6 DEF FwInit, ClientMarks
    <2>2. tables = Base
      BY <2>1, CleanAtEnd DEF StartsClean
    <2>3. authdown = FALSE /\ servers = {} /\ opened = <<>>
      BY <2>1 DEF ServeInv, DataInv
    <2>4. conf \in Configs
      BY DEF IInv
    <2>5. PICK b : /\ Builds(InitScript, Base, b)
                   /\ Served(conf, b, [m \in Macs |-> NoMark], {}, FALSE, {}, <<>>)
      BY <2>3, <2>4, InitBuilt
    <2> DEFINE cl == clients'
               z == zeroed'
               t == RestoreScript(cl, z)
    <2>6. cl \in [Macs -> ClientMarks] /\ z \in SUBSET (Macs \ Restored(cl))
      BY <2>1
    <2>7. todo' = InitScript \o t
      BY <2>1
    <2> HIDE DEF cl, z
    <2>8. PICK u : Builds(t, b, u) /\ Served(conf, u, cl, z, FALSE, {}, <<>>)
      BY <2>5, <2>6, RestoreServes
    <2> HIDE DEF t
    <2>9. Builds(InitScript \o t, Base, u)
      BY <2>5, <2>8, BuildsCat
    <2>10. Builds(todo', tables', u) /\ Served(conf', u, clients', zeroed', authdown', servers', opened')
      BY <2>1, <2>2, <2>3, <2>7, <2>8, <2>9 DEF cl, z
    <2>11. DataInv'
      BY <2>1, <2>3, <1>0 DEF DataInv
    <2> QED
      BY <2>1, <2>10, <2>11 DEF ServeInv
  <1>7. CASE Command
    <2>1. /\ todo # <<>> /\ tables' = Done(tables, Head(todo))
          /\ todo' = IF Head(todo).op = "M" /\ tables' # tables THEN todo ELSE Tail(todo)
          /\ UNCHANGED <<conf, mode, clients, zeroed, authdown, servers, opened>>
      BY <1>7 DEF Command, dataVars
    <2>2. DataInv'
      BY <2>1 DEF ServeInv, DataInv
    <2>3. mode # "serve"
      BY <2>1 DEF ServeInv
    <2>4. ASSUME mode = "init"
          PROVE  \E b : Builds(todo', tables', b) /\ Served(conf', b, clients', zeroed', authdown', servers',
            opened')
      <3>1. PICK b : Builds(todo, tables, b) /\ Served(conf, b, clients, zeroed, authdown, servers, opened)
        BY <2>4 DEF ServeInv
      <3>2. Head(todo).op # "M" /\ Builds(Tail(todo), Done(tables, Head(todo)), b)
        BY <2>1, <3>1, BuildsTail
      <3>3. todo' = Tail(todo)
        BY <2>1, <3>2
      <3>4. Builds(todo', tables', b) /\ Served(conf', b, clients', zeroed', authdown', servers', opened')
        BY <2>1, <3>1, <3>2, <3>3
      <3> QED
        BY <3>4
    <2> QED
      BY <2>1, <2>2, <2>3, <2>4 DEF ServeInv
  <1> QED
    BY <1>1, <1>2, <1>3, <1>4, <1>5, <1>6, <1>7

\* The other threads, each action with the lemma of the function it models.
LEMMA ThreadServeInv ==
    ASSUME IInv, ServeInv,
           \/ \E m \in Macs : Deny(m) \/ \E k \in {"probation", "known"} : Allow(m, k)
           \/ \E h \in Names : AllowHost(h)
           \/ AuthDown \/ AuthUp
           \/ \E S \in SUBSET ServerHosts : AddressChanges(S)
    PROVE  ServeInv'
  <1>0. /\ clients \in [Macs -> ClientMarks] /\ zeroed \in SUBSET Macs
        /\ opened \in Seq(Names) /\ authdown \in BOOLEAN
        /\ conf \in Configs
        /\ mode = "serve" => todo = <<>> /\ Served(conf, tables, clients, zeroed, authdown, servers, opened)
    BY DEF ServeInv, DataInv, IInv
  <1>1. SUFFICES ASSUME mode \in {"serve", "stop"}, mode' = mode, todo' = todo, conf' = conf
                 PROVE  /\ clients' \in [Macs -> ClientMarks] /\ zeroed' \in SUBSET Macs
                        /\ opened' \in Seq(Names)
                        /\ authdown' \in BOOLEAN
                        /\ mode = "serve" =>
                             Served(conf, tables', clients', zeroed', authdown', servers', opened')
    <2>1. mode \in {"serve", "stop"} /\ mode' = mode /\ todo' = todo /\ conf' = conf
      BY DEF Deny, Allow, AllowHost, AuthDown, AuthUp, AddressChanges, Run, Runs
    <2> QED
      BY <1>0, <2>1 DEF ServeInv, DataInv
  <1>2. ASSUME NEW m \in Macs, Deny(m)
        PROVE  /\ clients' \in [Macs -> ClientMarks] /\ zeroed' \in SUBSET Macs
               /\ opened' \in Seq(Names) /\ authdown' \in BOOLEAN
               /\ mode = "serve" => Served(conf, tables', clients', zeroed', authdown', servers', opened')
    <2>1. CASE clients[m] # NoMark
      <3>1. /\ clients' = [clients EXCEPT ![m] = NoMark] /\ tables' = WithoutMark(tables, m, clients[m])
            /\ UNCHANGED <<zeroed, authdown, servers, opened>>
        BY <1>2, <2>1 DEF Deny
      <3>2. clients' \in [Macs -> ClientMarks]
        BY <3>1, <1>0 DEF ClientMarks
      <3>3. mode = "serve" => Served(conf, WithoutMark(tables, m, clients[m]),
              [clients EXCEPT ![m] = NoMark], zeroed, authdown, servers, opened)
        BY <2>1, <1>0, DenyServes
      <3> QED
        BY <3>1, <3>2, <3>3, <1>0
    <2>2. CASE clients[m] = NoMark
      <3>1. /\ zeroed' = zeroed \ {m} /\ tables' = WithoutMark(tables, m, "zero")
            /\ UNCHANGED <<clients, authdown, servers, opened>>
        BY <1>2, <2>2 DEF Deny
      <3>2. mode = "serve" => Served(conf, WithoutMark(tables, m, "zero"), clients, zeroed \ {m},
              authdown, servers, opened)
        BY <1>0, DenyServes
      <3> QED
        BY <3>1, <3>2, <1>0
    <2> QED
      BY <2>1, <2>2
  <1>3. ASSUME NEW m \in Macs, NEW k \in {"probation", "known"}, Allow(m, k)
        PROVE  /\ clients' \in [Macs -> ClientMarks] /\ zeroed' \in SUBSET Macs
               /\ opened' \in Seq(Names) /\ authdown' \in BOOLEAN
               /\ mode = "serve" => Served(conf, tables', clients', zeroed', authdown', servers', opened')
    <2>1. /\ clients[m] # k /\ clients' = [clients EXCEPT ![m] = k]
          /\ tables' = WithoutMark(Done(tables, App("mangle", "Outgoing", MarkRule(m, k))), m, clients[m])
          /\ UNCHANGED <<zeroed, authdown, servers, opened>>
      BY <1>3 DEF Allow
    <2>2. clients' \in [Macs -> ClientMarks]
      BY <2>1, <1>0 DEF ClientMarks
    <2>3. mode = "serve" =>
             Served(conf, WithoutMark(Done(tables, App("mangle", "Outgoing", MarkRule(m, k))), m,
               clients[m]),
                    [clients EXCEPT ![m] = k], zeroed, authdown, servers, opened)
      BY <2>1, <1>0, AllowServes
    <2> QED
      BY <2>1, <2>2, <2>3, <1>0
  <1>4. ASSUME NEW h \in Names, AllowHost(h)
        PROVE  /\ clients' \in [Macs -> ClientMarks] /\ zeroed' \in SUBSET Macs
               /\ opened' \in Seq(Names) /\ authdown' \in BOOLEAN
               /\ mode = "serve" => Served(conf, tables', clients', zeroed', authdown', servers', opened')
    <2>0. PICK d \in Resolves[h] :
            /\ opened' = Append(opened, d)
            /\ Run(Done(Done(tables, App("nat", "Global", OpenRule(d))),
                        App("filter", "Global", OpenRule(d))))
      BY <1>4 DEF AllowHost
    <2>1. /\ opened' = Append(opened, d) /\ UNCHANGED <<clients, zeroed, authdown, servers>>
          /\ tables' = Done(Done(tables, App("nat", "Global", OpenRule(d))),
                            App("filter", "Global", OpenRule(d)))
      BY <1>4, <2>0 DEF AllowHost, Run
    <2>d. d \in Names
      BY <2>0, ConfigAssumption
    <2>2. opened' \in Seq(Names)
      BY <2>1, <2>d, <1>0
    <2>3. mode = "serve" =>
             Served(conf, Done(Done(tables, App("nat", "Global", OpenRule(d))),
                               App("filter", "Global", OpenRule(d))),
                    clients, zeroed, authdown, servers, Append(opened, d))
      BY <2>d, <1>0, OpenServes
    <2> QED
      BY <2>1, <2>2, <2>3, <1>0
  <1>5. ASSUME AuthDown
        PROVE  /\ clients' \in [Macs -> ClientMarks] /\ zeroed' \in SUBSET Macs
               /\ opened' \in Seq(Names) /\ authdown' \in BOOLEAN
               /\ mode = "serve" => Served(conf, tables', clients', zeroed', authdown', servers', opened')
    <2>1. /\ ~authdown /\ authdown' = TRUE /\ UNCHANGED <<clients, zeroed, servers, opened>>
          /\ tables' = IF HasAuthDown(conf)
                       THEN Done(tables, App("mangle", "AuthDown", Rule(Always, "mark",
                         "down"))) ELSE tables
      BY <1>5 DEF AuthDown, Run
    <2>2. mode = "serve" =>
            Served(conf, IF HasAuthDown(conf)
                         THEN Done(tables, App("mangle", "AuthDown", Rule(Always, "mark",
                           "down"))) ELSE tables,
                   clients, zeroed, TRUE, servers, opened)
      BY <2>1, <1>0, DownServes
    <2> QED
      BY <2>1, <2>2, <1>0
  <1>6. ASSUME AuthUp
        PROVE  /\ clients' \in [Macs -> ClientMarks] /\ zeroed' \in SUBSET Macs
               /\ opened' \in Seq(Names) /\ authdown' \in BOOLEAN
               /\ mode = "serve" => Served(conf, tables', clients', zeroed', authdown', servers', opened')
    <2>1. /\ authdown' = FALSE /\ UNCHANGED <<clients, zeroed, servers, opened>>
          /\ tables' = IF HasAuthDown(conf) THEN Done(tables, Flush("mangle", "AuthDown")) ELSE tables
      BY <1>6 DEF AuthUp, Run
    <2>2. mode = "serve" =>
            Served(conf, IF HasAuthDown(conf) THEN Done(tables, Flush("mangle", "AuthDown")) ELSE tables,
                   clients, zeroed, FALSE, servers, opened)
      BY <1>0, DownServes
    <2> QED
      BY <2>1, <2>2, <1>0
  <1>7. ASSUME NEW S \in SUBSET ServerHosts, AddressChanges(S)
        PROVE  /\ clients' \in [Macs -> ClientMarks] /\ zeroed' \in SUBSET Macs
               /\ opened' \in Seq(Names) /\ authdown' \in BOOLEAN
               /\ mode = "serve" => Served(conf, tables', clients', zeroed', authdown', servers', opened')
    <2>1. /\ servers' = S /\ UNCHANGED <<clients, zeroed, authdown, opened>>
          /\ tables' = Refill(Refill(tables, <<"filter", "AuthServs">>, Each(S, ServerRule)),
                              <<"nat", "AuthServs">>, Each(S, ServerRule))
      BY <1>7 DEF AddressChanges, Run
    <2>2. mode = "serve" =>
            Served(conf, Refill(Refill(tables, <<"filter", "AuthServs">>, Each(S, ServerRule)),
                                <<"nat", "AuthServs">>, Each(S, ServerRule)),
                   clients, zeroed, authdown, S, opened)
      BY <1>0, AddressServes
    <2> QED
      BY <2>1, <2>2, <1>0
  <1> QED
    BY <1>2, <1>3, <1>4, <1>5, <1>6, <1>7

\* Every step.
LEMMA NextServeInv == IInv /\ ServeInv /\ [Next]_vars => ServeInv'
  <1> SUFFICES ASSUME IInv, ServeInv, [Next]_vars PROVE ServeInv'
    OBVIOUS
  <1>1. CASE UNCHANGED vars
    BY <1>1 DEF ServeInv, DataInv, vars, dataVars
  <1>2. CASE Start \/ Command \/ FwInit \/ FwInitFails \/ Serve \/ Stop \/ Exit \/ Crash
    BY <1>2, LifeServeInv
  <1>3. CASE \/ \E m \in Macs : Deny(m) \/ \E k \in {"probation", "known"} : Allow(m, k)
             \/ \E h \in Names : AllowHost(h)
             \/ AuthDown \/ AuthUp
             \/ \E S \in SUBSET ServerHosts : AddressChanges(S)
    BY <1>3, ThreadServeInv
  <1> QED
    BY <1>1, <1>2, <1>3 DEF Next

-----------------------------------------------------------------------------
(* What chains say.                                                        *)

\* A bounded set of numbers that is not empty has a greatest element.
LEMMA GreatestNatural ==
    ASSUME NEW n \in Nat, NEW T, T \subseteq 1 .. n, T # {}
    PROVE  Max(T) \in T /\ \A y \in T : y <= Max(T)
  <1> DEFINE U == {k \in Nat : n - k \in T}
  <1>1. U \subseteq Nat
    OBVIOUS
  <1>2. U # {}
    <2>1. PICK x \in T : TRUE
      OBVIOUS
    <2>2. n - x \in Nat /\ n - (n - x) = x
      OBVIOUS
    <2> QED
      BY <2>1, <2>2
  <1> DEFINE k == Min(U)
  <1>3. k \in U /\ \A y \in U : k <= y
    BY <1>1, <1>2, LeastNatural
  <1> HIDE DEF k
  <1>4. k \in Nat /\ n - k \in T
    BY <1>3
  <1>5. ASSUME NEW y \in T PROVE y <= n - k
    <2>1. n - y \in Nat /\ n - (n - y) = y /\ y \in Nat
      OBVIOUS
    <2>2. n - y \in U
      BY <2>1
    <2>3. k <= n - y
      BY <2>2, <1>3
    <2> QED
      BY <2>1, <2>3, <1>4
  <1>6. \E x \in T : \A y \in T : x >= y
    <2>1. \A y \in T : y \in Nat
      OBVIOUS
    <2> QED
      BY <2>1, <1>4, <1>5
  <1>7. Max(T) \in T /\ \A y \in T : Max(T) >= y
    BY <1>6 DEF Max
  <1>8. \A y \in T : y \in Int
    OBVIOUS
  <1> QED
    BY <1>7, <1>8

\* What one rule says.
LEMMA AnswerIs ==
    ASSUME NEW kind \in {"mark", "end"}, NEW r, NEW s, NEW called
    PROVE  /\ ~Matches(r, s) => Answer(kind, r, s, called) = Silence
           /\ \A v : Matches(r, s) /\ r.do = <<kind, v>> => Answer(kind, r, s, called) = v
           /\ \A c : Matches(r, s) /\ r.do = <<"go", c>> => Answer(kind, r, s, called) = called[c]
           /\ r.do[1] \notin {kind, "go"} => Answer(kind, r, s, called) = Silence
  <1>1. ~Matches(r, s) => Answer(kind, r, s, called) = Silence
    BY DEF Answer
  <1>2. ASSUME NEW v, Matches(r, s), r.do = <<kind, v>> PROVE Answer(kind, r, s, called) = v
    <2>1. r.do[1] = kind /\ r.do[2] = v
      BY <1>2
    <2> QED
      BY <1>2, <2>1 DEF Answer
  <1>3. ASSUME NEW c, Matches(r, s), r.do = <<"go", c>> PROVE Answer(kind, r, s, called) = called[c]
    <2>1. r.do[1] = "go" /\ r.do[2] = c
      BY <1>3
    <2> QED
      BY <1>3, <2>1 DEF Answer
  <1>4. ASSUME r.do[1] \notin {kind, "go"} PROVE Answer(kind, r, s, called) = Silence
    BY <1>4 DEF Answer
  <1> QED
    BY <1>1, <1>2, <1>3, <1>4

\* Nobody answers, or v is the first answer given, or for a mark the last.
Tells(kind, a, v) ==
    \/ v = Silence /\ \A i \in DOMAIN a : a[i] = Silence
    \/ /\ v # Silence
       /\ \E i \in DOMAIN a :
            /\ a[i] = v
            /\ \A j \in DOMAIN a : (IF kind = "mark" THEN j > i ELSE j < i) => a[j] = Silence
\* There is exactly one such answer, and it is the one Given picks.
LEMMA GivenTells ==
    ASSUME NEW kind, NEW a, NEW n \in Nat, DOMAIN a = 1 .. n
    PROVE  /\ Tells(kind, a, Given(kind, a))
           /\ \A v : Tells(kind, a, v) => v = Given(kind, a)
  <1> DEFINE G == {i \in DOMAIN a : a[i] # Silence}
  <1>0. G \subseteq 1 .. n /\ G \subseteq Nat
    OBVIOUS
  <1>1. Tells(kind, a, Given(kind, a))
    <2>1. CASE G = {}
      BY <2>1 DEF Given, Tells
    <2>2. CASE G # {} /\ kind = "mark"
      <3> DEFINE i == Max(G)
      <3>1. i \in G /\ \A y \in G : y <= i
        BY <1>0, <2>2, GreatestNatural
      <3>2. Given(kind, a) = a[i]
        BY <2>2 DEF Given
      <3> HIDE DEF i
      <3>3. i \in 1 .. n /\ i \in Nat /\ a[i] # Silence /\ i \in DOMAIN a
        BY <3>1, <1>0
      <3>4. ASSUME NEW j \in 1 .. n, j > i PROVE a[j] = Silence
        <4>1. j \in G => ~(j > i)
          BY <3>1, <3>3
        <4> QED
          BY <4>1, <3>4
      <3>5. \A j \in DOMAIN a : (IF kind = "mark" THEN j > i ELSE j < i) => a[j] = Silence
        BY <3>4, <2>2
      <3> QED
        BY <3>2, <3>3, <3>5 DEF Tells
    <2>3. CASE G # {} /\ kind # "mark"
      <3> DEFINE i == Min(G)
      <3>1. i \in G /\ \A y \in G : i <= y
        BY <1>0, <2>3, LeastNatural
      <3>2. Given(kind, a) = a[i]
        BY <2>3 DEF Given
      <3> HIDE DEF i
      <3>3. i \in 1 .. n /\ i \in Nat /\ a[i] # Silence /\ i \in DOMAIN a
        BY <3>1, <1>0
      <3>4. ASSUME NEW j \in 1 .. n, j < i PROVE a[j] = Silence
        <4>1. j \in G => ~(j < i)
          BY <3>1, <3>3
        <4> QED
          BY <4>1, <3>4
      <3>5. \A j \in DOMAIN a : (IF kind = "mark" THEN j > i ELSE j < i) => a[j] = Silence
        BY <3>4, <2>3
      <3> QED
        BY <3>2, <3>3, <3>5 DEF Tells
    <2> QED
      BY <2>1, <2>2, <2>3
  <1>2. ASSUME NEW v, NEW w, Tells(kind, a, v), Tells(kind, a, w) PROVE v = w
    <2>1. CASE v = Silence \/ w = Silence
      BY <1>2, <2>1 DEF Tells
    <2>2. CASE v # Silence /\ w # Silence
      <3>1. PICK i \in 1 .. n : /\ a[i] = v
               /\ \A j \in 1 .. n : (IF kind = "mark" THEN j > i ELSE j < i) => a[j] = Silence
        BY <1>2, <2>2 DEF Tells
      <3>2. PICK k \in 1 .. n : /\ a[k] = w
               /\ \A j \in 1 .. n : (IF kind = "mark" THEN j > k ELSE j < k) => a[j] = Silence
        BY <1>2, <2>2 DEF Tells
      <3>3. i = k
        BY <2>2, <3>1, <3>2
      <3> QED
        BY <3>1, <3>2, <3>3
    <2> QED
      BY <2>1, <2>2
  <1> QED
    BY <1>1, <1>2

\* The rules x say one thing, those after them another.
Then(kind, x, y) ==
    IF kind = "mark" THEN (IF y # Silence THEN y ELSE x) ELSE (IF x # Silence THEN x ELSE y)

\* What a chain says: of no rule, of one, of two lists one after the other.
LEMMA ChainEmpty ==
    ASSUME NEW kind, NEW s, NEW called PROVE Chain(kind, <<>>, s, called) = Silence
  BY DEF Chain, Given

LEMMA ChainOne ==
    ASSUME NEW kind, NEW r, NEW s, NEW called
    PROVE  Chain(kind, <<r>>, s, called) = Answer(kind, r, s, called)
  <1> DEFINE x == <<r>>
             v == Answer(kind, r, s, called)
             a == [i \in DOMAIN x |-> Answer(kind, x[i], s, called)]
  <1>1. DOMAIN x = 1 .. 1 /\ x[1] = r
    OBVIOUS
  <1> HIDE DEF x, v
  <1>2. DOMAIN a = 1 .. 1 /\ a[1] = v
    BY <1>1 DEF v
  <1> HIDE DEF a
  <1>3. Tells(kind, a, v)
    BY <1>2 DEF Tells
  <1>4. v = Given(kind, a)
    BY <1>2, <1>3, GivenTells
  <1> QED
    BY <1>4 DEF Chain, a, x, v

LEMMA ChainCat ==
    ASSUME NEW kind \in {"mark", "end"}, NEW S, NEW a \in Seq(S), NEW b \in Seq(S), NEW s, NEW called
    PROVE  Chain(kind, a \o b, s, called)
             = Then(kind, Chain(kind, a, s, called), Chain(kind, b, s, called))
  <1> DEFINE c == a \o b
             m == Len(a)
             n == Len(b)
             A == [i \in DOMAIN a |-> Answer(kind, a[i], s, called)]
             B == [i \in DOMAIN b |-> Answer(kind, b[i], s, called)]
             C == [i \in DOMAIN c |-> Answer(kind, c[i], s, called)]
             x == Given(kind, A)
             y == Given(kind, B)
  <1>1. /\ m \in Nat /\ n \in Nat /\ DOMAIN a = 1 .. m /\ DOMAIN b = 1 .. n
        /\ c \in Seq(S) /\ Len(c) = m + n
        /\ \A i \in 1 .. (m + n) : c[i] = IF i <= m THEN a[i] ELSE b[i - m]
    BY SeqOver, ConcatProperties
  <1>2. DOMAIN c = 1 .. (m + n)
    BY <1>1, SeqOver
  <1> HIDE DEF c, m, n
  <1>3. /\ DOMAIN A = 1 .. m /\ DOMAIN B = 1 .. n /\ DOMAIN C = 1 .. (m + n)
        /\ \A i \in 1 .. m : C[i] = A[i] /\ i \in 1 .. (m + n)
    BY <1>1, <1>2
  <1>4. \A i \in 1 .. n : C[m + i] = B[i] /\ m + i \in 1 .. (m + n)
    <2> TAKE i \in 1 .. n
    <2>1. m + i \in 1 .. (m + n) /\ ~(m + i <= m) /\ (m + i) - m = i
      BY <1>1
    <2> QED
      BY <2>1, <1>1, <1>2
  <1> HIDE DEF A, B, C
  <1>5. \A i \in 1 .. (m + n) : i \in 1 .. m \/ (i - m \in 1 .. n /\ i = m + (i - m))
    BY <1>1
  <1>6. Tells(kind, A, x) /\ Tells(kind, B, y)
    BY <1>1, <1>3, GivenTells
  <1> HIDE DEF x, y
  <1>7. CASE x = Silence /\ y = Silence
    <2>1. \A i \in 1 .. m : A[i] = Silence
      BY <1>3, <1>6, <1>7 DEF Tells
    <2>2. \A i \in 1 .. n : B[i] = Silence
      BY <1>3, <1>6, <1>7 DEF Tells
    <2>3. \A i \in 1 .. (m + n) : C[i] = Silence
      BY <1>3, <1>4, <1>5, <2>1, <2>2
    <2>4. Tells(kind, C, Silence)
      BY <1>3, <2>3 DEF Tells
    <2> QED
      <3>1. Silence = Given(kind, C)
        BY <1>1, <1>3, <2>4, GivenTells
      <3>2. Silence = Then(kind, x, y)
        BY <1>7 DEF Then
      <3> QED
        BY <3>1, <3>2 DEF Chain, A, B, C, x, y, c
  <1>p. ASSUME NEW v, v # Silence,
               \/ v = x /\ (kind = "end" \/ y = Silence)
               \/ v = y /\ (kind = "mark" \/ x = Silence)
        PROVE  Tells(kind, C, v)
    <2>1. CASE v = x /\ (kind = "end" \/ y = Silence)
      <3>1. PICK i \in 1 .. m : /\ A[i] = x
               /\ \A j \in 1 .. m : (IF kind = "mark" THEN j > i ELSE j < i) => A[j] = Silence
        BY <1>3, <1>6, <1>p, <2>1 DEF Tells
      <3>2. kind = "mark" => \A j \in 1 .. n : B[j] = Silence
        BY <1>3, <1>6, <2>1 DEF Tells
      <3>3. ASSUME NEW j \in 1 .. (m + n), IF kind = "mark" THEN j > i ELSE j < i PROVE C[j] = Silence
        <4>1. CASE j \in 1 .. m
          BY <4>1, <3>1, <3>3, <1>3
        <4>2. CASE j - m \in 1 .. n /\ j = m + (j - m)
          <5>1. kind = "mark"
            BY <4>2, <3>3, <1>1
          <5> QED
            BY <4>2, <5>1, <3>2, <1>4
        <4> QED
          BY <4>1, <4>2, <1>5
      <3>4. i \in 1 .. (m + n) /\ C[i] = x
        BY <3>1, <1>3
      <3> QED
        BY <3>3, <3>4, <1>3, <1>p, <2>1 DEF Tells
    <2>2. CASE v = y /\ (kind = "mark" \/ x = Silence)
      <3>1. PICK k \in 1 .. n : /\ B[k] = y
               /\ \A j \in 1 .. n : (IF kind = "mark" THEN j > k ELSE j < k) => B[j] = Silence
        BY <1>3, <1>6, <1>p, <2>2 DEF Tells
      <3>2. kind # "mark" => \A j \in 1 .. m : A[j] = Silence
        BY <1>3, <1>6, <2>2 DEF Tells
      <3> DEFINE i == m + k
      <3>3. ASSUME NEW j \in 1 .. (m + n), IF kind = "mark" THEN j > i ELSE j < i PROVE C[j] = Silence
        <4>1. CASE j \in 1 .. m
          <5>1. kind # "mark"
            BY <4>1, <3>3, <1>1
          <5> QED
            BY <4>1, <5>1, <3>2, <1>3
        <4>2. CASE j - m \in 1 .. n /\ j = m + (j - m)
          <5> DEFINE q == j - m
          <5>1. q \in 1 .. n /\ C[j] = B[q]
            BY <4>2, <1>4
          <5>2. IF kind = "mark" THEN q > k ELSE q < k
            BY <3>3, <1>1
          <5> QED
            BY <5>1, <5>2, <3>1
        <4> QED
          BY <4>1, <4>2, <1>5
      <3>4. i \in 1 .. (m + n) /\ C[i] = y
        BY <3>1, <1>4
      <3> HIDE DEF i
      <3> QED
        BY <3>3, <3>4, <1>3, <1>p, <2>2 DEF Tells
    <2> QED
      BY <1>p, <2>1, <2>2
  <1>8. CASE ~(x = Silence /\ y = Silence)
    <2> DEFINE v == Then(kind, x, y)
    <2>1. /\ v # Silence
          /\ \/ v = x /\ (kind = "end" \/ y = Silence)
             \/ v = y /\ (kind = "mark" \/ x = Silence)
      BY <1>8 DEF Then
    <2> HIDE DEF v
    <2>2. Tells(kind, C, v)
      BY <2>1, <1>p
    <2>3. v = Given(kind, C)
      BY <2>2, <1>1, <1>3, GivenTells
    <2> QED
      BY <2>3 DEF Chain, A, B, C, x, y, v, c
  <1> QED
    BY <1>7, <1>8 DEF c

\* Rules in any order, that all say the same or nothing.
LEMMA ChainAny ==
    ASSUME NEW kind, NEW S, NEW rs \in Seq(S), NEW s, NEW called, NEW v, v # Silence,
           \A r \in ToSet(rs) : Answer(kind, r, s, called) \in {v, Silence}
    PROVE  /\ (\E r \in ToSet(rs) : Answer(kind, r, s, called) = v) => Chain(kind, rs, s, called) = v
           /\ (\A r \in ToSet(rs) : Answer(kind, r, s, called) = Silence) => Chain(kind, rs, s,
                called) = Silence
  <1> DEFINE n == Len(rs)
             A == [i \in DOMAIN rs |-> Answer(kind, rs[i], s, called)]
             x == Given(kind, A)
  <1>1. n \in Nat /\ DOMAIN rs = 1 .. n
    BY SeqOver
  <1> HIDE DEF n
  <1>2. DOMAIN A = 1 .. n /\ \A i \in 1 .. n : A[i] = Answer(kind, rs[i], s, called) /\ rs[i] \in ToSet(rs)
    BY <1>1 DEF ToSet
  <1>3. \A r \in ToSet(rs) : \E i \in 1 .. n : r = rs[i]
    BY <1>1 DEF ToSet
  <1>4. Chain(kind, rs, s, called) = x
    BY DEF Chain
  <1> HIDE DEF A
  <1>5. Tells(kind, A, x)
    BY <1>1, <1>2, GivenTells
  <1> HIDE DEF x
  <1>6. ASSUME \A r \in ToSet(rs) : Answer(kind, r, s, called) = Silence PROVE x = Silence
    BY <1>2, <1>5, <1>6 DEF Tells
  <1>7. ASSUME NEW r \in ToSet(rs), Answer(kind, r, s, called) = v PROVE x = v
    <2>1. PICK i \in 1 .. n : A[i] = v
      BY <1>2, <1>3, <1>7
    <2>2. x # Silence
      BY <2>1, <1>2, <1>5 DEF Tells
    <2>3. PICK j \in 1 .. n : A[j] = x
      BY <2>2, <1>2, <1>5 DEF Tells
    <2> QED
      BY <2>2, <2>3, <1>2
  <1> QED
    BY <1>4, <1>6, <1>7

\* What the rules the gateway writes say of the packet s.
LEMMA MatchAlways ==
    ASSUME NEW s, NEW k, NEW a PROVE Matches(Rule(Always, k, a), s)
  <1>1. Rule(Always, k, a).when = Always /\ DOMAIN Always = {}
    BY DEF Rule, Always
  <1> QED
    BY <1>1 DEF Matches

\* One with a condition on a field matches what has the value.
LEMMA MatchIf ==
    ASSUME NEW s, NEW k, NEW a, NEW field, NEW v
    PROVE  Matches(Rule(If(field, v), k, a), s) <=> s[field] = v
  <1> DEFINE w == If(field, v)
             r == Rule(w, k, a)
  <1>1. DOMAIN w = {field} /\ w[field] = v
    BY DEF If
  <1> HIDE DEF w
  <1>2. r.when = w
    BY DEF Rule
  <1> HIDE DEF r
  <1>3. Matches(r, s) <=> s[field] = v
    BY <1>1, <1>2 DEF Matches
  <1> QED
    BY <1>3 DEF r, w

\* One of the proxy matches the web packets of a mark.
LEMMA MatchWeb ==
    ASSUME NEW s, NEW k, NEW a, NEW v
    PROVE  Matches(Rule(Web(v), k, a), s) <=> s["port"] = "web" /\ s["mark"] = v
  <1>1. /\ Rule(Web(v), k, a).when = Web(v)
        /\ DOMAIN Web(v) = {"port", "mark"} /\ Web(v)["port"] = "web" /\ Web(v)["mark"] = v
    BY DEF Rule, Web
  <1> QED
    BY <1>1 DEF Matches

\* The target of a rule.
LEMMA TargetIs ==
    ASSUME NEW w, NEW k, NEW v PROVE Rule(w, k, v).do = <<k, v>>
  BY DEF Rule

\* What rules with a verdict or a mark say,
LEMMA SaysAlways ==
    ASSUME NEW kind \in {"mark", "end"}, NEW s, NEW called, NEW v
    PROVE  Answer(kind, Rule(Always, kind, v), s, called) = v
  BY MatchAlways, TargetIs, AnswerIs

LEMMA SaysIf ==
    ASSUME NEW kind \in {"mark", "end"}, NEW s, NEW called, NEW field, NEW x, NEW v
    PROVE  /\ s[field] = x => Answer(kind, Rule(If(field, x), kind, v), s, called) = v
           /\ s[field] # x => Answer(kind, Rule(If(field, x), kind, v), s, called) = Silence
  <1> DEFINE r == Rule(If(field, x), kind, v)
  <1>1. (Matches(r, s) <=> s[field] = x) /\ r.do = <<kind, v>>
    BY MatchIf, TargetIs
  <1> HIDE DEF r
  <1>2. (s[field] = x => Answer(kind, r, s, called) = v) /\ (s[field] # x => Answer(kind, r, s,
          called) = Silence)
    BY <1>1, AnswerIs
  <1> QED
    BY <1>2 DEF r

LEMMA SaysWeb ==
    ASSUME NEW kind \in {"mark", "end"}, NEW s, NEW called, NEW x, NEW v
    PROVE  /\ s["port"] = "web" /\ s["mark"] = x => Answer(kind, Rule(Web(x), kind, v), s, called) = v
           /\ s["port"] # "web" \/ s["mark"] # x => Answer(kind, Rule(Web(x), kind, v), s, called) = Silence
  <1> DEFINE r == Rule(Web(x), kind, v)
  <1>1. (Matches(r, s) <=> s["port"] = "web" /\ s["mark"] = x) /\ r.do = <<kind, v>>
    BY MatchWeb, TargetIs
  <1> HIDE DEF r
  <1>2. /\ s["port"] = "web" /\ s["mark"] = x => Answer(kind, r, s, called) = v
        /\ s["port"] # "web" \/ s["mark"] # x => Answer(kind, r, s, called) = Silence
    BY <1>1, AnswerIs
  <1> QED
    BY <1>2 DEF r

\* what jumps say, namely what the chain says they go to,
LEMMA GoesAlways ==
    ASSUME NEW kind \in {"mark", "end"}, NEW s, NEW called, NEW c
    PROVE  Answer(kind, Rule(Always, "go", c), s, called) = called[c]
  BY MatchAlways, TargetIs, AnswerIs

LEMMA GoesIf ==
    ASSUME NEW kind \in {"mark", "end"}, NEW s, NEW called, NEW field, NEW x, NEW c
    PROVE  /\ s[field] = x => Answer(kind, Rule(If(field, x), "go", c), s, called) = called[c]
           /\ s[field] # x => Answer(kind, Rule(If(field, x), "go", c), s, called) = Silence
  <1> DEFINE r == Rule(If(field, x), "go", c)
  <1>1. (Matches(r, s) <=> s[field] = x) /\ r.do = <<"go", c>>
    BY MatchIf, TargetIs
  <1> HIDE DEF r
  <1>2. (s[field] = x => Answer(kind, r, s, called) = called[c]) /\ (s[field] # x => Answer(kind, r, s,
          called) = Silence)
    BY <1>1, AnswerIs
  <1> QED
    BY <1>2 DEF r

\* and those that only note say nothing.
LEMMA NotesNothing ==
    ASSUME NEW kind \in {"mark", "end"}, NEW s, NEW called, NEW w, NEW v
    PROVE  Answer(kind, Rule(w, "note", v), s, called) = Silence
  <1> DEFINE r == Rule(w, "note", v)
  <1>1. r.do[1] = "note"
    BY TargetIs
  <1> HIDE DEF r
  <1>2. Answer(kind, r, s, called) = Silence
    BY <1>1, AnswerIs
  <1> QED
    BY <1>2 DEF r

\* The chains whose rules come in any order.
LEMMA HostsSay ==
    ASSUME NEW x \in Seq(RuleType), NEW H, ToSet(x) = {End(If("to", h), "ACCEPT") : h \in H},
           NEW s, NEW called
    PROVE  /\ s["to"] \in H => Chain("end", x, s, called) = "ACCEPT"
           /\ s["to"] \notin H => Chain("end", x, s, called) = Silence
  <1> DEFINE R(h) == End(If("to", h), "ACCEPT")
  <1>1. \A h : /\ s["to"] = h => Answer("end", R(h), s, called) = "ACCEPT"
               /\ s["to"] # h => Answer("end", R(h), s, called) = Silence
    BY SaysIf DEF End
  <1>2. \A r \in ToSet(x) : \E h \in H : r = R(h)
    OBVIOUS
  <1>3. \A h \in H : R(h) \in ToSet(x)
    OBVIOUS
  <1> HIDE DEF R
  <1>4. \A r \in ToSet(x) : Answer("end", r, s, called) \in {"ACCEPT", Silence}
    BY <1>1, <1>2
  <1>5. "ACCEPT" # Silence
    BY DEF Silence
  <1>6. ASSUME s["to"] \in H PROVE Chain("end", x, s, called) = "ACCEPT"
    <2>1. \E r \in ToSet(x) : Answer("end", r, s, called) = "ACCEPT"
      BY <1>1, <1>3, <1>6
    <2> QED
      BY <1>4, <1>5, <2>1, ChainAny
  <1>7. ASSUME s["to"] \notin H PROVE Chain("end", x, s, called) = Silence
    <2>1. \A r \in ToSet(x) : Answer("end", r, s, called) = Silence
      BY <1>1, <1>2, <1>7
    <2> QED
      BY <1>4, <1>5, <2>1, ChainAny
  <1> QED
    BY <1>6, <1>7

\* What opening a host says of a packet, and what a list of such rules says.
LEMMA OpenSays ==
    ASSUME NEW d, NEW s, NEW called
    PROVE  /\ d = Anywhere \/ s["to"] = d => Answer("end", OpenRule(d), s, called) = "ACCEPT"
           /\ ~(d = Anywhere \/ s["to"] = d) => Answer("end", OpenRule(d), s, called) = Silence
  <1>1. CASE d = Anywhere
    <2>1. OpenRule(d) = Rule(Always, "end", "ACCEPT")
      BY <1>1 DEF OpenRule, End
    <2> QED
      BY <1>1, <2>1, SaysAlways
  <1>2. CASE d # Anywhere
    <2>1. OpenRule(d) = Rule(If("to", d), "end", "ACCEPT")
      BY <1>2 DEF OpenRule, End
    <2> QED
      BY <1>2, <2>1, SaysIf
  <1> QED
    BY <1>1, <1>2

LEMMA OpensSay ==
    ASSUME NEW x \in Seq(RuleType), NEW H, ToSet(x) = {OpenRule(h) : h \in H}, NEW s, NEW called
    PROVE  /\ s["to"] \in H \/ Anywhere \in H => Chain("end", x, s, called) = "ACCEPT"
           /\ ~(s["to"] \in H \/ Anywhere \in H) => Chain("end", x, s, called) = Silence
  <1> DEFINE R(h) == OpenRule(h)
  <1>1. \A h : /\ h = Anywhere \/ s["to"] = h => Answer("end", R(h), s, called) = "ACCEPT"
               /\ ~(h = Anywhere \/ s["to"] = h) => Answer("end", R(h), s, called) = Silence
    BY OpenSays
  <1>2. \A r \in ToSet(x) : \E h \in H : r = R(h)
    OBVIOUS
  <1>3. \A h \in H : R(h) \in ToSet(x)
    OBVIOUS
  <1> HIDE DEF R
  <1>4. \A r \in ToSet(x) : Answer("end", r, s, called) \in {"ACCEPT", Silence}
    BY <1>1, <1>2
  <1>5. "ACCEPT" # Silence
    BY DEF Silence
  <1>6. ASSUME s["to"] \in H \/ Anywhere \in H PROVE Chain("end", x, s, called) = "ACCEPT"
    <2>1. \E r \in ToSet(x) : Answer("end", r, s, called) = "ACCEPT"
      BY <1>1, <1>3, <1>6
    <2> QED
      BY <1>4, <1>5, <2>1, ChainAny
  <1>7. ASSUME ~(s["to"] \in H \/ Anywhere \in H) PROVE Chain("end", x, s, called) = Silence
    <2>1. \A r \in ToSet(x) : Answer("end", r, s, called) = Silence
      BY <1>1, <1>2, <1>7
    <2> QED
      BY <1>4, <1>5, <2>1, ChainAny
  <1> QED
    BY <1>6, <1>7

\* The chain of the trusted machines.
LEMMA TrustedSay ==
    ASSUME NEW x \in Seq(RuleType), ToSet(x) = TrustedRules, NEW s, NEW called
    PROVE  /\ s["mac"] \in Trusted => Chain("mark", x, s, called) = "known"
           /\ s["mac"] \notin Trusted => Chain("mark", x, s, called) = Silence
  <1> DEFINE R(h) == Rule(If("mac", h), "mark", "known")
  <1>1. \A h : /\ s["mac"] = h => Answer("mark", R(h), s, called) = "known"
               /\ s["mac"] # h => Answer("mark", R(h), s, called) = Silence
    BY SaysIf
  <1>2. \A r \in ToSet(x) : \E h \in Trusted : r = R(h)
    BY DEF TrustedRules
  <1>3. \A h \in Trusted : R(h) \in ToSet(x)
    BY DEF TrustedRules
  <1> HIDE DEF R
  <1>4. \A r \in ToSet(x) : Answer("mark", r, s, called) \in {"known", Silence}
    BY <1>1, <1>2
  <1>5. "known" # Silence
    BY DEF Silence
  <1>6. ASSUME s["mac"] \in Trusted PROVE Chain("mark", x, s, called) = "known"
    <2> DEFINE v == "known"
    <2>1. \E r \in ToSet(x) : Answer("mark", r, s, called) = v
      BY <1>1, <1>3, <1>6
    <2>2. v # Silence /\ \A r \in ToSet(x) : Answer("mark", r, s, called) \in {v, Silence}
      BY <1>4, <1>5
    <2> HIDE DEF v
    <2>3. Chain("mark", x, s, called) = v
      BY <2>1, <2>2, ChainAny
    <2> QED
      BY <2>3 DEF v
  <1>7. ASSUME s["mac"] \notin Trusted PROVE Chain("mark", x, s, called) = Silence
    <2>1. \A r \in ToSet(x) : Answer("mark", r, s, called) = Silence
      BY <1>1, <1>2, <1>7
    <2> QED
      BY <1>4, <1>5, <2>1, ChainAny
  <1> QED
    BY <1>6, <1>7

\* The chain of the clients: one rule for each that has a mark, after that of
\* the mark 0 where there is one.
LEMMA ClientsSay ==
    ASSUME NEW x \in Seq(RuleType), NEW cl \in [Macs -> ClientMarks], NEW z \in SUBSET Macs,
           ToSet(x) = ClientRules(cl) \cup ZeroRules(z), IsInjective(x), ZeroFirst(x),
           NEW s, s["mac"] \in Macs, NEW called
    PROVE  Chain("mark", x, s, called) =
             IF cl[s["mac"]] # NoMark THEN cl[s["mac"]] ELSE IF s["mac"] \in z THEN "zero" ELSE Silence
  <1> DEFINE m == s["mac"]
             n == Len(x)
             A == [i \in DOMAIN x |-> Answer("mark", x[i], s, called)]
             one == MarkRule(m, cl[m])
             nil == MarkRule(m, "zero")
  <1>0. n \in Nat /\ DOMAIN x = 1 .. n /\ \A i \in 1 .. n : x[i] \in ToSet(x)
    BY SeqOver DEF ToSet
  <1>1. \A h, k : /\ m = h => Answer("mark", MarkRule(h, k), s, called) = k
                  /\ m # h => Answer("mark", MarkRule(h, k), s, called) = Silence
    BY SaysIf DEF MarkRule
  <1>2. \A r \in ToSet(x) : \/ \E h \in Macs : cl[h] # NoMark /\ r = MarkRule(h, cl[h])
                            \/ \E h \in z : r = MarkRule(h, "zero")
    BY DEF ClientRules, ZeroRules
  <1>3. /\ cl[m] # NoMark => one \in ToSet(x)
        /\ m \in z => nil \in ToSet(x)
    BY DEF ClientRules, ZeroRules
  <1>4. NoMark = Silence /\ "zero" # Silence
    BY DEF NoMark, Silence
  <1>5. \A i \in 1 .. n : \/ A[i] = Silence
                          \/ x[i] = one /\ cl[m] # NoMark /\ A[i] = cl[m]
                          \/ x[i] = nil /\ m \in z /\ A[i] = "zero"
    <2> TAKE i \in 1 .. n
    <2>1. A[i] = Answer("mark", x[i], s, called) /\ x[i] \in ToSet(x)
      BY <1>0
    <2> HIDE DEF A
    <2>2. CASE \E h \in Macs : cl[h] # NoMark /\ x[i] = MarkRule(h, cl[h])
      BY <1>1, <2>1, <2>2
    <2>3. CASE \E h \in z : x[i] = MarkRule(h, "zero")
      BY <1>1, <2>1, <2>3
    <2> QED
      BY <1>2, <2>1, <2>2, <2>3
  <1>6. \A i \in 1 .. n : (x[i] = one => A[i] = cl[m]) /\ (x[i] = nil => A[i] = "zero")
    BY <1>0, <1>1
  <1>7. Chain("mark", x, s, called) = Given("mark", A) /\ DOMAIN A = 1 .. n
    BY <1>0 DEF Chain
  <1>8. \A v : Tells("mark", A, v) => v = Given("mark", A)
    <2> HIDE DEF A, n
    <2> QED
      BY <1>0, <1>7, GivenTells
  <1>9. \A r \in ToSet(x) : \E i \in 1 .. n : x[i] = r
    BY <1>0 DEF ToSet
  <1>10. \A i, j \in 1 .. n : (x[i] = x[j] => i = j) /\ (x[i] = nil /\ x[j] = one => i <= j)
    BY <1>0 DEF IsInjective, ZeroFirst
  <1> HIDE DEF A, n, one, nil
  <1>11. CASE cl[m] # NoMark
    <2>1. PICK j \in 1 .. n : x[j] = one
      BY <1>3, <1>9, <1>11
    <2>2. A[j] = cl[m] /\ cl[m] # Silence
      BY <1>4, <1>6, <1>11, <2>1
    <2>3. ASSUME NEW i \in 1 .. n, i > j PROVE A[i] = Silence
      <3>1. x[i] # one
        BY <1>0, <1>10, <2>1, <2>3
      <3>2. x[i] # nil
        BY <1>0, <1>10, <2>1, <2>3
      <3> QED
        BY <1>5, <3>1, <3>2
    <2>4. Tells("mark", A, cl[m])
      BY <1>7, <2>2, <2>3 DEF Tells
    <2> QED
      BY <1>7, <1>8, <1>11, <2>4
  <1>12. CASE cl[m] = NoMark /\ m \in z
    <2>1. PICK j \in 1 .. n : x[j] = nil
      BY <1>3, <1>9, <1>12
    <2>2. A[j] = "zero"
      BY <1>6, <2>1
    <2>3. ASSUME NEW i \in 1 .. n, i > j PROVE A[i] = Silence
      <3>1. x[i] # nil
        BY <1>0, <1>10, <2>1, <2>3
      <3> QED
        BY <1>5, <1>12, <3>1
    <2>4. Tells("mark", A, "zero")
      BY <1>4, <1>7, <2>2, <2>3 DEF Tells
    <2> QED
      BY <1>7, <1>8, <1>12, <2>4
  <1>13. CASE cl[m] = NoMark /\ m \notin z
    <2>1. \A i \in 1 .. n : A[i] = Silence
      BY <1>5, <1>13
    <2>2. Tells("mark", A, Silence)
      BY <1>7, <2>1 DEF Tells
    <2> QED
      BY <1>7, <1>8, <1>13, <2>2
  <1> QED
    BY <1>11, <1>12, <1>13

\* The chain of the passthrough.
LEMMA DownSays ==
    ASSUME NEW x \in Seq(RuleType), NEW d, ToSet(x) = DownRules(d), NEW s, NEW called
    PROVE  /\ d => Chain("mark", x, s, called) = "down"
           /\ ~d => Chain("mark", x, s, called) = Silence
  <1> DEFINE R == Rule(Always, "mark", "down")
  <1>1. Answer("mark", R, s, called) = "down"
    BY SaysAlways
  <1>2. (d => ToSet(x) = {R}) /\ (~d => ToSet(x) = {})
    BY DEF DownRules
  <1> HIDE DEF R
  <1>3. \A r \in ToSet(x) : Answer("mark", r, s, called) \in {"down", Silence}
    BY <1>1, <1>2
  <1>5. "down" # Silence
    BY DEF Silence
  <1>6. ASSUME d PROVE Chain("mark", x, s, called) = "down"
    <2> DEFINE v == "down"
    <2>1. \E r \in ToSet(x) : Answer("mark", r, s, called) = v
      BY <1>1, <1>2, <1>6
    <2>2. v # Silence /\ \A r \in ToSet(x) : Answer("mark", r, s, called) \in {v, Silence}
      BY <1>3, <1>5
    <2> HIDE DEF v
    <2>3. Chain("mark", x, s, called) = v
      BY <2>1, <2>2, ChainAny
    <2> QED
      BY <2>3 DEF v
  <1>7. ASSUME ~d PROVE Chain("mark", x, s, called) = Silence
    BY <1>2, <1>3, <1>5, <1>7, ChainAny
  <1> QED
    BY <1>6, <1>7

\* A rule of the configuration, of a packet p and the same with a mark.
Alike(p, s) == s["to"] = p["to"] /\ s["port"] = p["port"]
\* It says its target of what it decides about, and nothing otherwise.
LEMMA ConfiguredSays ==
    ASSUME NEW r \in ConfRules, NEW p, NEW s, Alike(p, s), NEW called
    PROVE  /\ Matches(r, s) <=> Matches(r, p)
           /\ Decides(r, p) => Answer("end", r, s, called) = r.do[2] /\ r.do[2] # Silence
           /\ ~Decides(r, p) => Answer("end", r, s, called) = Silence
           /\ r.do[2] \in {"ACCEPT", "DROP", "REJECT", "LOG", "ULOG"}
           /\ r.do[1] = "end" => r.do[2] \in {"ACCEPT", "DROP", "REJECT"}
  <1>1. DOMAIN r.when \subseteq {"to", "port"}
    BY DEF ConfRules
  <1>2. \/ r.do[1] = "end" /\ r.do[2] \in {"ACCEPT", "DROP", "REJECT"} /\ r.do = <<"end", r.do[2]>>
        \/ r.do[1] = "note" /\ r.do[2] \in {"LOG", "ULOG"}
    BY DEF ConfRules
  <1>3. Matches(r, s) <=> Matches(r, p)
    BY <1>1 DEF Matches, Alike
  <1>4. ASSUME Decides(r, p) PROVE Answer("end", r, s, called) = r.do[2] /\ r.do[2] # Silence
    <2>1. Matches(r, s) /\ r.do = <<"end", r.do[2]>> /\ r.do[2] \in {"ACCEPT", "DROP", "REJECT"}
      BY <1>2, <1>3, <1>4 DEF Decides
    <2>2. Answer("end", r, s, called) = r.do[2]
      BY <2>1, AnswerIs
    <2> QED
      BY <2>1, <2>2 DEF Silence
  <1>5. ASSUME ~Decides(r, p) PROVE Answer("end", r, s, called) = Silence
    <2>1. ~Matches(r, s) \/ r.do[1] \notin {"end", "go"}
      BY <1>2, <1>3, <1>5 DEF Decides
    <2> QED
      BY <2>1, AnswerIs
  <1> QED
    BY <1>2, <1>3, <1>4, <1>5

\* A rule set says what its first rule that decides says.
LEMMA SaysIs ==
    ASSUME conf \in Configs, NEW set \in RuleSets, NEW p, NEW s, Alike(p, s), NEW called
    PROVE  /\ Chain("end", conf.rules[set], s, called) = Says(set, p)
           /\ Says(set, p) \in {"ACCEPT", "DROP", "REJECT", Silence}
  <1> DEFINE rs == conf.rules[set]
             A == [i \in DOMAIN rs |-> Answer("end", rs[i], s, called)]
             D == {i \in DOMAIN rs : Decides(rs[i], p)}
             G == {i \in DOMAIN A : A[i] # Silence}
  <1>1. rs \in Seq(ConfRules)
    BY ConfiguredRules
  <1>2. Says(set, p) = IF D = {} THEN Silence ELSE rs[Min(D)].do[2]
    BY DEF Says
  <1>3. Chain("end", rs, s, called) = Given("end", A)
    BY DEF Chain
  <1> HIDE DEF rs
  <1>4. Len(rs) \in Nat /\ DOMAIN rs = 1 .. Len(rs) /\ \A i \in DOMAIN rs : rs[i] \in ConfRules
    BY <1>1, SeqOver
  <1>5. \A i \in DOMAIN rs : /\ Decides(rs[i], p) => A[i] = rs[i].do[2] /\ A[i] # Silence
                             /\ ~Decides(rs[i], p) => A[i] = Silence
    <2> TAKE i \in DOMAIN rs
    <2>1. A[i] = Answer("end", rs[i], s, called) /\ rs[i] \in ConfRules
      BY <1>4
    <2> QED
      BY <2>1, ConfiguredSays
  <1>6. DOMAIN A = DOMAIN rs
    OBVIOUS
  <1> HIDE DEF A
  <1>7. G = D
    BY <1>5, <1>6
  <1>8. Given("end", A) = IF G = {} THEN Silence ELSE A[Min(G)]
    BY DEF Given
  <1>9. D \subseteq Nat
    BY <1>4
  <1>10. D # {} => Min(D) \in D
    BY <1>9, LeastNatural
  <1> HIDE DEF G
  <1>11. D # {} => A[Min(D)] = rs[Min(D)].do[2]
    BY <1>5, <1>10
  <1>12. D # {} => rs[Min(D)].do[2] \in {"ACCEPT", "DROP", "REJECT"}
    <2> SUFFICES ASSUME D # {} PROVE rs[Min(D)].do[2] \in {"ACCEPT", "DROP", "REJECT"}
      OBVIOUS
    <2> DEFINE r == rs[Min(D)]
    <2>1. r \in ConfRules /\ Decides(r, p)
      BY <1>4, <1>10
    <2> HIDE DEF r
    <2>2. r.do[1] = "end"
      BY <2>1 DEF Decides
    <2>3. r.do[2] \in {"ACCEPT", "DROP", "REJECT"}
      BY <2>1, <2>2, ConfiguredSays
    <2> QED
      BY <2>3 DEF r
  <1> HIDE DEF D
  <1> QED
    BY <1>2, <1>3, <1>7, <1>8, <1>11, <1>12 DEF rs

-----------------------------------------------------------------------------
(* The way of a packet through the tables of a gateway that serves.        *)

\* One list of rules after another, and one rule.
LEMMA ChainBoth ==
    ASSUME NEW kind \in {"mark", "end"}, NEW a, NEW b, IsSeq(a), IsSeq(b), NEW s, NEW called
    PROVE  /\ IsSeq(a \o b)
           /\ Chain(kind, a \o b, s, called)
                = Then(kind, Chain(kind, a, s, called), Chain(kind, b, s, called))
  <1> DEFINE S == ToSet(a) \cup ToSet(b)
  <1>1. a \in Seq(ToSet(a)) /\ b \in Seq(ToSet(b))
    BY DEF IsSeq
  <1>2. ToSet(a) \subseteq S /\ ToSet(b) \subseteq S
    OBVIOUS
  <1> HIDE DEF S
  <1>3. a \in Seq(S) /\ b \in Seq(S)
    BY <1>1, <1>2, SeqMonotonic
  <1> QED
    BY <1>3, ChainCat, Cat

LEMMA ChainLast ==
    ASSUME NEW kind \in {"mark", "end"}, NEW a, IsSeq(a), NEW r, NEW s, NEW called
    PROVE  /\ IsSeq(a \o <<r>>)
           /\ Chain(kind, a \o <<r>>, s, called)
                = Then(kind, Chain(kind, a, s, called), Answer(kind, r, s, called))
  <1> DEFINE b == <<r>>
  <1>1. IsSeq(b) /\ Chain(kind, b, s, called) = Answer(kind, r, s, called)
    BY Tuple1, ChainOne
  <1> HIDE DEF b
  <1>2. /\ IsSeq(a \o b)
        /\ Chain(kind, a \o b, s, called) = Then(kind, Chain(kind, a, s, called), Chain(kind, b, s, called))
    BY <1>1, ChainBoth
  <1> QED
    BY <1>1, <1>2 DEF b

LEMMA ChainFirst ==
    ASSUME NEW kind \in {"mark", "end"}, NEW a, IsSeq(a), NEW r, NEW s, NEW called
    PROVE  /\ IsSeq(<<r>> \o a)
           /\ Chain(kind, <<r>> \o a, s, called)
                = Then(kind, Answer(kind, r, s, called), Chain(kind, a, s, called))
  <1> DEFINE b == <<r>>
  <1>1. IsSeq(b) /\ Chain(kind, b, s, called) = Answer(kind, r, s, called)
    BY Tuple1, ChainOne
  <1> HIDE DEF b
  <1>2. /\ IsSeq(b \o a)
        /\ Chain(kind, b \o a, s, called) = Then(kind, Chain(kind, b, s, called), Chain(kind, a, s, called))
    BY <1>1, ChainBoth
  <1> QED
    BY <1>1, <1>2 DEF b

\* A rule that is there under a condition.
LEMMA ChainOnly ==
    ASSUME NEW kind \in {"mark", "end"}, NEW d \in BOOLEAN, NEW r, NEW s, NEW called
    PROVE  /\ IsSeq(Only(d, <<r>>))
           /\ Chain(kind, Only(d, <<r>>), s, called) = IF d THEN Answer(kind, r, s, called) ELSE Silence
  <1>1. CASE d
    BY <1>1, Tuple1, ChainOne DEF Only
  <1>2. CASE ~d
    BY <1>2, EmptyTuple, ChainEmpty DEF Only
  <1> QED
    BY <1>1, <1>2

\* What a chain says that exists.
LEMMA DeeperIs ==
    ASSUME NEW kind, NEW t, NEW s, NEW called, NEW c \in Own, tables[<<t, c>>] # Gone
    PROVE  Deeper(kind, t, s, called)[c] = Chain(kind, tables[<<t, c>>], s, called)
  BY DEF Deeper, Exists

\* The chains of the gateway that serves are lists of rules.
LEMMA ServedChains ==
    ASSUME NEW cf, NEW tb, NEW cl, NEW z, NEW d, NEW sv, NEW op, Served(cf, tb, cl, z, d, sv, op)
    PROVE  \A c \in Builtin \cup Used(cf) : tb[c] \in Seq(RuleType) /\ tb[c] # Gone
  BY GoneAssumption DEF Served, Standing

\* The first of six answers.
Two(x, y) == Then("end", x, y)
\* The policy asks six, the chain of the filter table one after the other.
LEMMA FirstOfSix ==
    ASSUME NEW a, NEW b, NEW c, NEW d, NEW e, NEW f
    PROVE  First(<<a, b, c, d, e, f>>) = Two(Two(Two(Two(Two(a, b), c), d), e), f)
  <1> DEFINE x == <<a, b, c, d, e, f>>
             v == Two(Two(Two(Two(Two(a, b), c), d), e), f)
  <1>1. DOMAIN x = 1 .. 6 /\ x[1] = a /\ x[2] = b /\ x[3] = c /\ x[4] = d /\ x[5] = e /\ x[6] = f
    OBVIOUS
  <1> HIDE DEF x
  <1>2. Tells("end", x, v)
    <2>0. \A i \in 1 .. 6 : i \in Nat /\ i \in {1, 2, 3, 4, 5, 6}
      OBVIOUS
    <2>1. CASE a # Silence
      BY <1>1, <2>0, <2>1 DEF Tells, Two, Then
    <2>2. CASE a = Silence /\ b # Silence
      BY <1>1, <2>0, <2>2 DEF Tells, Two, Then
    <2>3. CASE a = Silence /\ b = Silence /\ c # Silence
      BY <1>1, <2>0, <2>3 DEF Tells, Two, Then
    <2>4. CASE a = Silence /\ b = Silence /\ c = Silence /\ d # Silence
      BY <1>1, <2>0, <2>4 DEF Tells, Two, Then
    <2>5. CASE a = Silence /\ b = Silence /\ c = Silence /\ d = Silence /\ e # Silence
      BY <1>1, <2>0, <2>5 DEF Tells, Two, Then
    <2>6. CASE a = Silence /\ b = Silence /\ c = Silence /\ d = Silence /\ e = Silence
      BY <1>1, <2>0, <2>6 DEF Tells, Two, Then
    <2> QED
      BY <2>1, <2>2, <2>3, <2>4, <2>5, <2>6
  <1> HIDE DEF v
  <1>3. v = Given("end", x)
    BY <1>1, <1>2, GivenTells
  <1> QED
    BY <1>3 DEF First, x, v

-----------------------------------------------------------------------------
\* The mark a packet gets is the class of its machine, or 0 where a restart has
\* left that and no class.
LEMMA MarkIsClass ==
    ASSUME IInv, ServeInv, mode = "serve", NEW p, p["mac"] \in Macs
    PROVE  LET k == Through("mark", "mangle", "PREROUTING", p) IN
           k = Class(p["mac"]) \/ (k = "zero" /\ Class(p["mac"]) = NoMark)
  <1> DEFINE m == p["mac"]
             has == HasAuthDown(conf)
             jt == Jump(Always, "Trusted")
             jo == Jump(Always, "Outgoing")
             jd == Jump(Always, "AuthDown")
             D0 == [c \in Own |-> Silence]
             D3 == Deeper("mark", "mangle", p, Deeper("mark", "mangle", p, Deeper("mark", "mangle", p, D0)))
             D4 == Called("mark", "mangle", p)
  <1>1. Served(conf, tables, clients, zeroed, authdown, servers, opened) /\ clients \in [Macs -> ClientMarks]
        /\ authdown \in BOOLEAN /\ zeroed \in SUBSET Macs
    BY DEF ServeInv, DataInv
  <1>2. MangleServes(conf, tables, clients, zeroed, authdown)
    BY <1>1 DEF Served
  <1>3. \A c \in Builtin \cup Used(conf) : tables[c] \in Seq(RuleType) /\ tables[c] # Gone
    BY <1>1, ServedChains
  <1>4. D4 = Deeper("mark", "mangle", p, D3)
    BY DEF Called
  <1> HIDE DEF D3, D4
  <1>5. D4["Trusted"] = IF m \in Trusted THEN "known" ELSE Silence
    <2> DEFINE x == tables[<<"mangle", "Trusted">>]
    <2>1. x \in Seq(RuleType) /\ x # Gone
      BY <1>3, UsedNames
    <2>2. ToSet(x) = TrustedRules
      BY <1>2 DEF MangleServes
    <2>3. D4["Trusted"] = Chain("mark", x, p, D3)
      <3>1. "Trusted" \in Own
        BY DEF Own
      <3> QED
        BY <1>4, <2>1, <3>1, DeeperIs
    <2> HIDE DEF x
    <2>4. (m \in Trusted => Chain("mark", x, p, D3) = "known") /\ (m \notin Trusted => Chain("mark", x,
            p, D3) = Silence)
      BY <2>1, <2>2, TrustedSay
    <2> QED
      BY <2>3, <2>4
  <1>6. D4["Outgoing"] = IF clients[m] # NoMark THEN clients[m] ELSE IF m \in zeroed THEN "zero" ELSE Silence
    <2> DEFINE x == tables[<<"mangle", "Outgoing">>]
    <2>1. x \in Seq(RuleType) /\ x # Gone
      BY <1>3, UsedNames
    <2>2. ToSet(x) = ClientRules(clients) \cup ZeroRules(zeroed) /\ IsInjective(x) /\ ZeroFirst(x)
      BY <1>2 DEF MangleServes
    <2>3. D4["Outgoing"] = Chain("mark", x, p, D3)
      <3>1. "Outgoing" \in Own
        BY DEF Own
      <3> QED
        BY <1>4, <2>1, <3>1, DeeperIs
    <2> HIDE DEF x
    <2>4. Chain("mark", x, p, D3) =
            IF clients[m] # NoMark THEN clients[m] ELSE IF m \in zeroed THEN "zero" ELSE Silence
      BY <1>1, <2>1, <2>2, ClientsSay
    <2> QED
      BY <2>3, <2>4
  <1>7. has => D4["AuthDown"] = IF authdown THEN "down" ELSE Silence
    <2> SUFFICES ASSUME has PROVE D4["AuthDown"] = IF authdown THEN "down" ELSE Silence
      OBVIOUS
    <2> DEFINE x == tables[<<"mangle", "AuthDown">>]
    <2>1. x \in Seq(RuleType) /\ x # Gone
      BY <1>3, UsedNames
    <2>2. ToSet(x) = DownRules(authdown)
      BY <1>2 DEF MangleServes
    <2>3. D4["AuthDown"] = Chain("mark", x, p, D3)
      <3>1. "AuthDown" \in Own
        BY DEF Own
      <3> QED
        BY <1>4, <2>1, <3>1, DeeperIs
    <2> HIDE DEF x
    <2>4. (authdown => Chain("mark", x, p, D3) = "down") /\ (~authdown => Chain("mark", x, p, D3) = Silence)
      BY <2>1, <2>2, DownSays
    <2> QED
      BY <2>3, <2>4
  <1>8. /\ Answer("mark", jt, p, D4) = D4["Trusted"] /\ Answer("mark", jo, p, D4) = D4["Outgoing"]
        /\ Answer("mark", jd, p, D4) = D4["AuthDown"]
    BY GoesAlways DEF Jump
  <1>9. Answer("mark", Foreign, p, D4) = Silence
    BY NotesNothing DEF Foreign
  <1>10. tables[<<"mangle", "PREROUTING">>] = Only(has, <<jd>>) \o (<<jt>> \o (<<jo>> \o <<Foreign>>))
    BY <1>2 DEF MangleServes, MangleIn
  <1> DEFINE y1 == <<Foreign>>
             y2 == <<jo>> \o y1
             y3 == <<jt>> \o y2
             y0 == Only(has, <<jd>>)
             y4 == y0 \o y3
  <1>11. Through("mark", "mangle", "PREROUTING", p) = Chain("mark", y4, p, D4)
    BY <1>10 DEF Through, D4
  <1> HIDE DEF jt, jo, jd
  <1>12. IsSeq(y1) /\ Chain("mark", y1, p, D4) = Silence
    BY <1>9, Tuple1, ChainOne
  <1> HIDE DEF y1
  <1>13. IsSeq(y2) /\ Chain("mark", y2, p, D4) = Then("mark", D4["Outgoing"], Silence)
    BY <1>8, <1>12, ChainFirst
  <1> HIDE DEF y2
  <1>14. IsSeq(y3) /\ Chain("mark", y3, p, D4) = Then("mark", D4["Trusted"], Then("mark",
           D4["Outgoing"], Silence))
    BY <1>8, <1>13, ChainFirst
  <1> HIDE DEF y3
  <1>15. IsSeq(y0) /\ Chain("mark", y0, p, D4) = IF has THEN D4["AuthDown"] ELSE Silence
    <2>1. has \in BOOLEAN
      BY DEF HasAuthDown
    <2> HIDE DEF has
    <2> QED
      BY <1>8, <2>1, ChainOnly
  <1> HIDE DEF y0
  <1>16. Chain("mark", y4, p, D4) = Then("mark", IF has THEN D4["AuthDown"] ELSE Silence,
                                          Then("mark", D4["Trusted"], Then("mark", D4["Outgoing"],
                                            Silence)))
    BY <1>14, <1>15, ChainBoth
  <1> HIDE DEF y4, has
  <1>17. Class(m) = IF clients[m] # NoMark THEN clients[m] ELSE IF m \in zeroed THEN NoMark
                    ELSE IF m \in Trusted THEN "known" ELSE IF authdown /\ has THEN "down" ELSE NoMark
    BY DEF Class, Passthrough, has
  <1>18. Chain("mark", y4, p, D4) = Class(m) \/ (Chain("mark", y4, p, D4) = "zero" /\ Class(m) = NoMark)
    BY <1>5, <1>6, <1>7, <1>16, <1>17 DEF Then, Silence, NoMark
  <1> QED
    BY <1>11, <1>18

\* The packet s is p with the mark of its class, or 0 for none.
Marked(p, s) ==
    /\ s["to"] = p["to"] /\ s["port"] = p["port"] /\ s["state"] = p["state"]
    /\ s["mark"] = Class(p["mac"]) \/ (s["mark"] = "zero" /\ Class(p["mac"]) = NoMark)

\* A machine is known, in probation, let through or without a class.
LEMMA ClassIs ==
    ASSUME IInv, ServeInv, NEW m \in Macs
    PROVE  /\ Class(m) \in {"known", "probation", "down", "none"}
           /\ Class(m) = "down" => HasAuthDown(conf)
  <1>1. clients[m] \in ClientMarks
    BY DEF ServeInv, DataInv
  <1> QED
    BY <1>1 DEF ClientMarks, Class, Passthrough, NoMark

\* What the chains of the filter table say that jump nowhere.
LEMMA FilterChainsSay ==
    ASSUME IInv, ServeInv, mode = "serve", NEW p, NEW s, Marked(p, s), NEW called
    PROVE  LET D == Deeper("end", "filter", s, called) IN
           /\ D["AuthServs"] = IF p["to"] \in servers THEN "ACCEPT" ELSE Silence
           /\ D["Global"] = Two(Says("global", p), IF Opened(p) THEN "ACCEPT" ELSE Silence)
           /\ D["Validate"] = Says("validating-users", p)
           /\ D["Known"] = Says("known-users", p)
           /\ HasAuthDown(conf) => D["AuthDown"] = Says("auth-is-down", p)
           /\ D["Unknown"] = Two(Says("unknown-users", p), "REJECT")
  <1> DEFINE D == Deeper("end", "filter", s, called)
             has == HasAuthDown(conf)
             at(n) == tables[<<"filter", n>>]
  <1>1. Served(conf, tables, clients, zeroed, authdown, servers, opened) /\ conf \in Configs
    BY DEF ServeInv, IInv
  <1>2. FilterServes(conf, tables, servers, opened)
    BY <1>1 DEF Served
  <1>3. \A c \in Builtin \cup Used(conf) : tables[c] \in Seq(RuleType) /\ tables[c] # Gone
    BY <1>1, ServedChains
  <1>4. \A n \in {"AuthServs", "Global", "Validate", "Known", "Unknown"} :
            at(n) \in Seq(RuleType) /\ at(n) # Gone /\ n \in Own
    BY <1>3, UsedNames DEF Own
  <1>5. has => at("AuthDown") \in Seq(RuleType) /\ at("AuthDown") # Gone /\ "AuthDown" \in Own
    BY <1>3, UsedNames DEF Own
  <1>6. \A n \in {"AuthServs", "Global", "Validate", "Known", "Unknown"} : D[n] = Chain("end", at(n),
          s, called)
    <2> TAKE n \in {"AuthServs", "Global", "Validate", "Known", "Unknown"}
    <2>1. n \in Own /\ tables[<<"filter", n>>] # Gone
      BY <1>4
    <2> QED
      BY <2>1, DeeperIs
  <1>7. has => D["AuthDown"] = Chain("end", at("AuthDown"), s, called)
    BY <1>5, DeeperIs
  <1>8. \A set \in RuleSets : Chain("end", conf.rules[set], s, called) = Says(set, p)
    BY <1>1, SaysIs DEF Alike, Marked
  <1>9. /\ "global" \in RuleSets /\ "validating-users" \in RuleSets /\ "known-users" \in RuleSets
        /\ "unknown-users" \in RuleSets /\ "auth-is-down" \in RuleSets
    BY DEF RuleSets
  <1>10. s["to"] = p["to"]
    BY DEF Marked
  <1> HIDE DEF D
  <1>11. D["AuthServs"] = IF p["to"] \in servers THEN "ACCEPT" ELSE Silence
    <2> DEFINE x == at("AuthServs")
    <2>1. x \in Seq(RuleType) /\ D["AuthServs"] = Chain("end", x, s, called)
      BY <1>4, <1>6
    <2>2. ToSet(x) = {End(If("to", h), "ACCEPT") : h \in servers}
      BY <1>2 DEF FilterServes, ServerRules, ServerRule
    <2> HIDE DEF x
    <2>3. /\ s["to"] \in servers => Chain("end", x, s, called) = "ACCEPT"
          /\ s["to"] \notin servers => Chain("end", x, s, called) = Silence
      BY <2>1, <2>2, HostsSay
    <2> QED
      BY <2>1, <2>3, <1>10
  <1>12. D["Global"] = Two(Says("global", p), IF Opened(p) THEN "ACCEPT" ELSE Silence)
    <2>1. PICK g \in Seq(RuleType) : at("Global") = conf.rules["global"] \o g
            /\ ToSet(g) = OpenRules(opened)
      BY <1>2 DEF FilterServes
    <2> DEFINE H == ToSet(opened)
               r == conf.rules["global"]
    <2>2. ToSet(g) = {OpenRule(h) : h \in H}
      BY <2>1 DEF OpenRules
    <2>o. Opened(p) <=> p["to"] \in H \/ Anywhere \in H
      BY DEF Opened
    <2> HIDE DEF H
    <2>3. /\ s["to"] \in H \/ Anywhere \in H => Chain("end", g, s, called) = "ACCEPT"
          /\ ~(s["to"] \in H \/ Anywhere \in H) => Chain("end", g, s, called) = Silence
      BY <2>1, <2>2, OpensSay
    <2>4. IsSeq(r) /\ IsSeq(g)
      BY <1>1, <1>9, <2>1, ConfiguredRules, SeqOver
    <2>5. D["Global"] = Chain("end", r \o g, s, called)
      BY <1>6, <2>1
    <2>6. Chain("end", r, s, called) = Says("global", p)
      BY <1>8, <1>9
    <2> HIDE DEF r
    <2>7. D["Global"] = Then("end", Says("global", p), Chain("end", g, s, called))
      BY <2>4, <2>5, <2>6, ChainBoth
    <2>8. Chain("end", g, s, called) = IF Opened(p) THEN "ACCEPT" ELSE Silence
      BY <2>3, <2>o, <1>10
    <2> QED
      BY <2>7, <2>8 DEF Two
  <1>13. D["Unknown"] = Two(Says("unknown-users", p), "REJECT")
    <2> DEFINE r == conf.rules["unknown-users"]
               e == End(Always, "REJECT")
    <2>1. at("Unknown") = r \o <<e>>
      BY <1>2 DEF FilterServes
    <2>2. IsSeq(r)
      BY <1>1, <1>9, ConfiguredRules, SeqOver
    <2>3. Answer("end", e, s, called) = "REJECT"
      BY SaysAlways DEF End
    <2>4. Chain("end", r, s, called) = Says("unknown-users", p)
      BY <1>8, <1>9
    <2>5. D["Unknown"] = Chain("end", r \o <<e>>, s, called)
      BY <1>6, <2>1
    <2> HIDE DEF r, e
    <2> QED
      BY <2>2, <2>3, <2>4, <2>5, ChainLast DEF Two
  <1>14. /\ at("Validate") = conf.rules["validating-users"] /\ at("Known") = conf.rules["known-users"]
         /\ has => at("AuthDown") = conf.rules["auth-is-down"]
    BY <1>2 DEF FilterServes
  <1>15. D["Validate"] = Says("validating-users", p) /\ D["Known"] = Says("known-users", p)
    BY <1>6, <1>8, <1>9, <1>14
  <1>16. has => D["AuthDown"] = Says("auth-is-down", p)
    BY <1>7, <1>8, <1>9, <1>14
  <1> QED
    BY <1>11, <1>12, <1>13, <1>15, <1>16 DEF D

\* The rules of the gateway in the order iptables_fw_init gives them.
LEMMA InternetSays ==
    ASSUME NEW cf, NEW s, NEW D, s["mark"] # "locked"
    PROVE  Chain("end", Internet(cf), s, D) =
             Two(Two(Two(Two(Two(Two(
               IF s["state"] = "invalid" THEN "DROP" ELSE Silence,
               D["AuthServs"]), D["Global"]),
               IF s["mark"] = "probation" THEN D["Validate"] ELSE Silence),
               IF s["mark"] = "known" THEN D["Known"] ELSE Silence),
               IF HasAuthDown(cf) /\ s["mark"] = "down" THEN D["AuthDown"] ELSE Silence),
               D["Unknown"])
  <1> DEFINE has == HasAuthDown(cf)
             r1 == End(If("state", "invalid"), "DROP")
             r2 == Rule(Always, "note", "TCPMSS")
             r3 == Jump(Always, "AuthServs")
             r4 == Jump(If("mark", "locked"), "Locked")
             r5 == Jump(Always, "Global")
             r6 == Jump(If("mark", "probation"), "Validate")
             r7 == Jump(If("mark", "known"), "Known")
             r8 == Jump(If("mark", "down"), "AuthDown")
             r9 == Jump(Always, "Unknown")
             A(r) == Answer("end", r, s, D)
             C(x) == Chain("end", x, s, D)
  <1>1. A(r1) = IF s["state"] = "invalid" THEN "DROP" ELSE Silence
    BY SaysIf DEF End
  <1>2. A(r2) = Silence
    BY NotesNothing
  <1>3. A(r3) = D["AuthServs"] /\ A(r5) = D["Global"] /\ A(r9) = D["Unknown"]
    BY GoesAlways DEF Jump
  <1>4. A(r4) = Silence
    BY GoesIf DEF Jump
  <1>6. A(r6) = IF s["mark"] = "probation" THEN D["Validate"] ELSE Silence
    BY GoesIf DEF Jump
  <1>7. A(r7) = IF s["mark"] = "known" THEN D["Known"] ELSE Silence
    BY GoesIf DEF Jump
  <1>8. A(r8) = IF s["mark"] = "down" THEN D["AuthDown"] ELSE Silence
    BY GoesIf DEF Jump
  <1>9. has \in BOOLEAN
    BY DEF HasAuthDown
  <1> DEFINE y1 == <<r1>>
             y2 == y1 \o <<r2>>
             y3 == y2 \o <<r3>>
             y4 == y3 \o <<r4>>
             y5 == y4 \o <<r5>>
             y6 == y5 \o <<r6>>
             y7 == y6 \o <<r7>>
             z == Only(has, <<r8>>)
             y8 == y7 \o z
             y9 == y8 \o <<r9>>
  <1>10. Internet(cf) = y9
    BY DEF Internet
  <1> HIDE DEF r1, r2, r3, r4, r5, r6, r7, r8, r9, has
  <1>11. IsSeq(y1) /\ C(y1) = A(r1)
    BY Tuple1, ChainOne
  <1> HIDE DEF y1
  <1>12. IsSeq(y2) /\ C(y2) = Then("end", C(y1), A(r2))
    BY <1>11, ChainLast
  <1> HIDE DEF y2
  <1>13. IsSeq(y3) /\ C(y3) = Then("end", C(y2), A(r3))
    BY <1>12, ChainLast
  <1> HIDE DEF y3
  <1>14. IsSeq(y4) /\ C(y4) = Then("end", C(y3), A(r4))
    BY <1>13, ChainLast
  <1> HIDE DEF y4
  <1>15. IsSeq(y5) /\ C(y5) = Then("end", C(y4), A(r5))
    BY <1>14, ChainLast
  <1> HIDE DEF y5
  <1>16. IsSeq(y6) /\ C(y6) = Then("end", C(y5), A(r6))
    BY <1>15, ChainLast
  <1> HIDE DEF y6
  <1>17. IsSeq(y7) /\ C(y7) = Then("end", C(y6), A(r7))
    BY <1>16, ChainLast
  <1> HIDE DEF y7
  <1>18. IsSeq(z) /\ C(z) = IF has THEN A(r8) ELSE Silence
    BY <1>9, ChainOnly
  <1> HIDE DEF z
  <1>19. IsSeq(y8) /\ C(y8) = Then("end", C(y7), C(z))
    BY <1>17, <1>18, ChainBoth
  <1> HIDE DEF y8
  <1>20. C(y9) = Then("end", C(y8), A(r9))
    BY <1>19, ChainLast
  <1> HIDE DEF y9, A, C
  <1>21. C(y4) = Then("end", A(r1), A(r3))
    BY <1>2, <1>4, <1>11, <1>12, <1>13, <1>14 DEF Then
  <1>22. C(z) = IF has /\ s["mark"] = "down" THEN D["AuthDown"] ELSE Silence
    BY <1>8, <1>18
  <1>23. C(y9) = Two(Two(Two(Two(Two(Two(A(r1), A(r3)), A(r5)), A(r6)), A(r7)), C(z)), A(r9))
    BY <1>15, <1>16, <1>17, <1>19, <1>20, <1>21 DEF Two
  <1>24. C(y9) = Two(Two(Two(Two(Two(Two(
               IF s["state"] = "invalid" THEN "DROP" ELSE Silence,
               D["AuthServs"]), D["Global"]),
               IF s["mark"] = "probation" THEN D["Validate"] ELSE Silence),
               IF s["mark"] = "known" THEN D["Known"] ELSE Silence),
               IF has /\ s["mark"] = "down" THEN D["AuthDown"] ELSE Silence),
               D["Unknown"])
    BY <1>1, <1>3, <1>6, <1>7, <1>22, <1>23
  <1> QED
    BY <1>10, <1>24 DEF C, has

\* What the filter table says of a packet is the policy of its class.
LEMMA ForwardIsPolicy ==
    ASSUME IInv, ServeInv, mode = "serve", NEW p, p["mac"] \in Macs, NEW s, Marked(p, s)
    PROVE  Through("end", "filter", "FORWARD", s) = Policy(p)
  <1> DEFINE D2 == Deeper("end", "filter", s, Deeper("end", "filter", s, [c \in Own |-> Silence]))
             D3 == Deeper("end", "filter", s, D2)
             D4 == Called("end", "filter", s)
             has == HasAuthDown(conf)
             k == s["mark"]
             ji == Jump(Always, "Internet")
  <1>1. Served(conf, tables, clients, zeroed, authdown, servers, opened)
    BY DEF ServeInv
  <1>2. FilterServes(conf, tables, servers, opened)
    BY <1>1 DEF Served
  <1>3. D4 = Deeper("end", "filter", s, D3)
    BY DEF Called
  <1> HIDE DEF D2
  <1>4. /\ D3["AuthServs"] = IF p["to"] \in servers THEN "ACCEPT" ELSE Silence
        /\ D3["Global"] = Two(Says("global", p), IF Opened(p) THEN "ACCEPT" ELSE Silence)
        /\ D3["Validate"] = Says("validating-users", p)
        /\ D3["Known"] = Says("known-users", p)
        /\ HasAuthDown(conf) => D3["AuthDown"] = Says("auth-is-down", p)
        /\ D3["Unknown"] = Two(Says("unknown-users", p), "REJECT")
    BY FilterChainsSay
  <1> HIDE DEF D3, D4
  <1>5. D4["Internet"] = Chain("end", Internet(conf), s, D3)
    <2>1. tables[<<"filter", "Internet">>] # Gone /\ "Internet" \in Own
      BY <1>1, ServedChains, UsedNames DEF Own
    <2>2. tables[<<"filter", "Internet">>] = Internet(conf)
      BY <1>2 DEF FilterServes
    <2> QED
      BY <1>3, <2>1, <2>2, DeeperIs
  <1> DEFINE class == Class(p["mac"])
  <1>6. /\ k = class \/ (k = "zero" /\ class = "none")
        /\ class \in {"known", "probation", "down", "none"} /\ (class = "down" => has)
    BY ClassIs DEF Marked, NoMark
  <1>7. k # "locked"
    BY <1>6
  <1>8. s["state"] = p["state"]
    BY DEF Marked
  <1>9. Through("end", "filter", "FORWARD", s) = D4["Internet"]
    <2>1. tables[<<"filter", "FORWARD">>] = <<ji>> \o <<Foreign>>
      BY <1>2 DEF FilterServes, Forward
    <2>2. Answer("end", ji, s, D4) = D4["Internet"] /\ Answer("end", Foreign, s, D4) = Silence
      BY GoesAlways, NotesNothing DEF Jump, Foreign
    <2> HIDE DEF ji
    <2> DEFINE y == <<ji>>
    <2>3. IsSeq(y) /\ Chain("end", y, s, D4) = D4["Internet"]
      BY <2>2, Tuple1, ChainOne
    <2>4. Through("end", "filter", "FORWARD", s) = Chain("end", y \o <<Foreign>>, s, D4)
      BY <2>1 DEF Through, D4
    <2> HIDE DEF y
    <2>5. Chain("end", y \o <<Foreign>>, s, D4) = Then("end", D4["Internet"], Silence)
      BY <2>2, <2>3, ChainLast
    <2> QED
      BY <2>4, <2>5 DEF Then
  <1> DEFINE a == IF p["to"] \in servers THEN "ACCEPT" ELSE Silence
             g == Says("global", p)
             o == IF Opened(p) THEN "ACCEPT" ELSE Silence
             c == Says(SetOf(class), p)
             u == Says("unknown-users", p)
             i == IF p["state"] = "invalid" THEN "DROP" ELSE Silence
             c1 == IF k = "probation" THEN D3["Validate"] ELSE Silence
             c2 == IF k = "known" THEN D3["Known"] ELSE Silence
             c3 == IF has /\ k = "down" THEN D3["AuthDown"] ELSE Silence
  <1>10. D4["Internet"] = Two(Two(Two(Two(Two(Two(i, D3["AuthServs"]), D3["Global"]), c1), c2), c3),
           D3["Unknown"])
    BY <1>5, <1>7, <1>8, InternetSays
  <1>11. D3["AuthServs"] = a /\ D3["Global"] = Two(g, o) /\ D3["Unknown"] = Two(u, "REJECT")
    BY <1>4
  <1>12. \/ c = u /\ c1 = Silence /\ c2 = Silence /\ c3 = Silence
         \/ c1 = c /\ c2 = Silence /\ c3 = Silence
         \/ c1 = Silence /\ c2 = c /\ c3 = Silence
         \/ c1 = Silence /\ c2 = Silence /\ c3 = c
    BY <1>4, <1>6 DEF SetOf
  <1>13. Policy(p) = IF p["state"] = "invalid" THEN "DROP" ELSE First(<<a, g, o, c, u, "REJECT">>)
    BY DEF Policy
  <1>14. "DROP" # Silence
    BY DEF Silence
  <1> HIDE DEF a, g, o, c, u, c1, c2, c3
  <1>15. First(<<a, g, o, c, u, "REJECT">>) = Two(Two(Two(Two(Two(a, g), o), c), u), "REJECT")
    BY FirstOfSix
  <1>16. CASE p["state"] = "invalid"
    <2>1. i = "DROP"
      BY <1>16
    <2> QED
      BY <2>1, <1>9, <1>10, <1>13, <1>14, <1>16 DEF Two, Then
  <1>17. CASE p["state"] # "invalid"
    <2>1. i = Silence
      BY <1>17
    <2> HIDE DEF i
    <2>2. D4["Internet"] = Two(Two(Two(Two(Two(a, Two(g, o)), c1), c2), c3), Two(u, "REJECT"))
      BY <2>1, <1>10, <1>11 DEF Two, Then
    <2>3. Two(Two(Two(Two(Two(a, Two(g, o)), c1), c2), c3), Two(u, "REJECT"))
            = Two(Two(Two(Two(Two(a, g), o), c), u), "REJECT")
      BY <1>12 DEF Two, Then
    <2> QED
      BY <2>2, <2>3, <1>9, <1>13, <1>15, <1>17
  <1> QED
    BY <1>16, <1>17

\* Some global rule accepts the packet.
Admitted(p) == \E r \in ToSet(conf.rules["global"]) : Decides(r, p) /\ r.do[2] = "ACCEPT"

\* The global chain of nat: rules that accept, and notes, in any order.
LEMMA NatGlobalSays ==
    ASSUME conf \in Configs, NEW x \in Seq(RuleType), NEW op,
      ToSet(x) = AcceptRules(conf) \cup OpenRules(op),
           NEW p, NEW s, Alike(p, s), NEW called
    PROVE  LET open == p["to"] \in ToSet(op) \/ Anywhere \in ToSet(op) IN
           /\ Admitted(p) \/ open => Chain("end", x, s, called) = "ACCEPT"
           /\ ~(Admitted(p) \/ open) => Chain("end", x, s, called) = Silence
  <1> DEFINE H == ToSet(op)
             G == ToSet(conf.rules["global"])
             R(h) == OpenRule(h)
             A(r) == Answer("end", r, s, called)
             v == "ACCEPT"
             open == p["to"] \in H \/ Anywhere \in H
  <1>1. \A h : /\ h = Anywhere \/ s["to"] = h => A(R(h)) = v
               /\ ~(h = Anywhere \/ s["to"] = h) => A(R(h)) = Silence
    BY OpenSays
  <1>2. G \subseteq ConfRules
    <2>1. "global" \in RuleSets
      BY DEF RuleSets
    <2> QED
      BY <2>1, ConfiguredRules, SeqOver
  <1>3. /\ \A r \in ToSet(x) : (r \in G /\ r.do[2] \notin {"DROP", "REJECT"}) \/ \E h \in H : r = R(h)
        /\ \A r \in G : r.do[2] \notin {"DROP", "REJECT"} => r \in ToSet(x)
        /\ \A h \in H : R(h) \in ToSet(x)
    BY DEF AcceptRules, OpenRules
  <1>4. ASSUME NEW r \in G, r.do[2] \notin {"DROP", "REJECT"}
        PROVE  /\ Decides(r, p) => A(r) = v /\ r.do[2] = v
               /\ ~Decides(r, p) => A(r) = Silence
    <2>1. r \in ConfRules
      BY <1>2
    <2>2. /\ Decides(r, p) => A(r) = r.do[2]
          /\ ~Decides(r, p) => A(r) = Silence
          /\ r.do[1] = "end" => r.do[2] \in {"ACCEPT", "DROP", "REJECT"}
      BY <2>1, ConfiguredSays
    <2>3. Decides(r, p) => r.do[1] = "end"
      BY DEF Decides
    <2> HIDE DEF A
    <2> QED
      BY <1>4, <2>2, <2>3
  <1>5. Admitted(p) <=> \E r \in G : Decides(r, p) /\ r.do[2] = "ACCEPT"
    BY DEF Admitted
  <1>6. s["to"] = p["to"]
    BY DEF Alike
  <1>7. v # Silence
    BY DEF Silence
  <1> HIDE DEF G, H, R
  <1>8. ASSUME NEW r \in ToSet(x) PROVE A(r) \in {v, Silence}
    <2> HIDE DEF A, v
    <2> QED
      BY <1>1, <1>3, <1>4
  <1>9. ASSUME Admitted(p) \/ open PROVE Chain("end", x, s, called) = v
    <2>1. CASE open
      <3>0. PICK d \in H : d = Anywhere \/ s["to"] = d
        BY <1>6, <2>1
      <3>1. R(d) \in ToSet(x) /\ A(R(d)) = v
        BY <1>1, <1>3, <3>0
      <3>2. /\ \E q \in ToSet(x) : Answer("end", q, s, called) = v
            /\ \A q \in ToSet(x) : Answer("end", q, s, called) \in {v, Silence}
        BY <1>8, <3>1
      <3> HIDE DEF v
      <3> QED
        BY <1>7, <3>2, ChainAny
    <2>2. CASE Admitted(p)
      <3>1. PICK r \in G : Decides(r, p) /\ r.do[2] = "ACCEPT"
        BY <1>5, <2>2
      <3>2. r \in ToSet(x) /\ A(r) = v
        BY <1>3, <1>4, <3>1
      <3>3. /\ \E q \in ToSet(x) : Answer("end", q, s, called) = v
            /\ \A q \in ToSet(x) : Answer("end", q, s, called) \in {v, Silence}
        BY <1>8, <3>2
      <3> HIDE DEF v
      <3> QED
        BY <1>7, <3>3, ChainAny
    <2> QED
      BY <1>9, <2>1, <2>2
  <1>10. ASSUME ~(Admitted(p) \/ open) PROVE Chain("end", x, s, called) = Silence
    <2>1. ASSUME NEW r \in ToSet(x) PROVE A(r) = Silence
      <3>1. CASE r \in G /\ r.do[2] \notin {"DROP", "REJECT"}
        <4>1. ~Decides(r, p)
          BY <1>4, <1>5, <1>10, <3>1
        <4> QED
          BY <1>4, <3>1, <4>1
      <3>2. CASE \E h \in H : r = R(h)
        BY <1>1, <1>6, <1>10, <3>2
      <3> QED
        BY <1>3, <3>1, <3>2
    <2> HIDE DEF v
    <2> QED
      BY <1>7, <1>8, <2>1, ChainAny
  <1> QED
    BY <1>9, <1>10 DEF H

\* What the chains of the nat table say that jump nowhere.
LEMMA NatChainsSay ==
    ASSUME IInv, ServeInv, mode = "serve", NEW p, NEW s, Marked(p, s), NEW called
    PROVE  LET D == Deeper("end", "nat", s, called) IN
           /\ D["AuthServs"] = IF p["to"] \in servers THEN "ACCEPT" ELSE Silence
           /\ D["Global"] = IF Admitted(p) \/ Opened(p) THEN "ACCEPT" ELSE Silence
           /\ HasAuthDown(conf) => D["AuthDown"] = IF s["mark"] = "down" THEN "ACCEPT" ELSE Silence
  <1> DEFINE D == Deeper("end", "nat", s, called)
             at(n) == tables[<<"nat", n>>]
  <1>1. Served(conf, tables, clients, zeroed, authdown, servers, opened) /\ conf \in Configs
    BY DEF ServeInv, IInv
  <1>2. NatServes(conf, tables, servers, opened)
    BY <1>1 DEF Served
  <1>3. \A c \in Builtin \cup Used(conf) : tables[c] \in Seq(RuleType) /\ tables[c] # Gone
    BY <1>1, ServedChains
  <1>4. \A n \in {"AuthServs", "Global"} : at(n) \in Seq(RuleType) /\ at(n) # Gone /\ n \in Own
    BY <1>3, UsedNames DEF Own
  <1>5. HasAuthDown(conf) => at("AuthDown") # Gone /\ "AuthDown" \in Own
    BY <1>3, UsedNames DEF Own
  <1>6. \A n \in {"AuthServs", "Global"} : D[n] = Chain("end", at(n), s, called)
    <2> TAKE n \in {"AuthServs", "Global"}
    <2>1. n \in Own /\ tables[<<"nat", n>>] # Gone
      BY <1>4
    <2> QED
      BY <2>1, DeeperIs
  <1>7. HasAuthDown(conf) => D["AuthDown"] = Chain("end", at("AuthDown"), s, called)
    BY <1>5, DeeperIs
  <1>8. s["to"] = p["to"] /\ Alike(p, s)
    BY DEF Marked, Alike
  <1> HIDE DEF D
  <1>9. D["AuthServs"] = IF p["to"] \in servers THEN "ACCEPT" ELSE Silence
    <2> DEFINE x == at("AuthServs")
    <2>1. x \in Seq(RuleType) /\ D["AuthServs"] = Chain("end", x, s, called)
      BY <1>4, <1>6
    <2>2. ToSet(x) = {End(If("to", h), "ACCEPT") : h \in servers}
      BY <1>2 DEF NatServes, ServerRules, ServerRule
    <2> HIDE DEF x
    <2>3. /\ s["to"] \in servers => Chain("end", x, s, called) = "ACCEPT"
          /\ s["to"] \notin servers => Chain("end", x, s, called) = Silence
      BY <2>1, <2>2, HostsSay
    <2> QED
      BY <2>1, <2>3, <1>8
  <1>10. D["Global"] = IF Admitted(p) \/ Opened(p) THEN "ACCEPT" ELSE Silence
    <2> DEFINE x == at("Global")
    <2>1. x \in Seq(RuleType) /\ D["Global"] = Chain("end", x, s, called)
      BY <1>4, <1>6
    <2>2. ToSet(x) = AcceptRules(conf) \cup OpenRules(opened)
      BY <1>2 DEF NatServes
    <2> HIDE DEF x
    <2>3. /\ Admitted(p) \/ Opened(p) => Chain("end", x, s, called) = "ACCEPT"
          /\ ~(Admitted(p) \/ Opened(p)) => Chain("end", x, s, called) = Silence
      BY <1>1, <1>8, <2>1, <2>2, NatGlobalSays DEF Opened
    <2> QED
      BY <2>1, <2>3
  <1>11. HasAuthDown(conf) => D["AuthDown"] = IF s["mark"] = "down" THEN "ACCEPT" ELSE Silence
    <2> SUFFICES ASSUME HasAuthDown(conf)
                 PROVE  D["AuthDown"] = IF s["mark"] = "down" THEN "ACCEPT" ELSE Silence
      OBVIOUS
    <2> DEFINE r == End(If("mark", "down"), "ACCEPT")
    <2>1. at("AuthDown") = <<r>>
      BY <1>2 DEF NatServes
    <2>2. Answer("end", r, s, called) = IF s["mark"] = "down" THEN "ACCEPT" ELSE Silence
      BY SaysIf DEF End
    <2> HIDE DEF r
    <2> QED
      BY <1>7, <2>1, <2>2, ChainOne
  <1> QED
    BY <1>9, <1>10, <1>11 DEF D

\* The chain of the unknown: the servers, the global rules, the passthrough,
\* then the portal.
LEMMA NatUnknownSays ==
    ASSUME NEW cf, NEW s, NEW D, s["port"] = "web"
    PROVE  Chain("end", NatUnknown(cf), s, D) =
             Two(Two(Two(D["AuthServs"], D["Global"]),
                     IF HasAuthDown(cf) THEN D["AuthDown"] ELSE Silence), "PORTAL")
  <1> DEFINE has == HasAuthDown(cf)
             r1 == Jump(Always, "AuthServs")
             r2 == Jump(Always, "Global")
             r3 == Jump(Always, "AuthDown")
             r4 == End(If("port", "web"), "PORTAL")
             A(r) == Answer("end", r, s, D)
             C(x) == Chain("end", x, s, D)
  <1>1. A(r1) = D["AuthServs"] /\ A(r2) = D["Global"] /\ A(r3) = D["AuthDown"]
    BY GoesAlways DEF Jump
  <1>2. A(r4) = "PORTAL"
    BY SaysIf DEF End
  <1>3. has \in BOOLEAN
    BY DEF HasAuthDown
  <1> DEFINE y1 == <<r1>>
             y2 == y1 \o <<r2>>
             z == Only(has, <<r3>>)
             y3 == y2 \o z
             y4 == y3 \o <<r4>>
  <1>4. NatUnknown(cf) = y4
    BY DEF NatUnknown
  <1> HIDE DEF r1, r2, r3, r4, has
  <1>5. IsSeq(y1) /\ C(y1) = A(r1)
    BY Tuple1, ChainOne
  <1> HIDE DEF y1
  <1>6. IsSeq(y2) /\ C(y2) = Then("end", C(y1), A(r2))
    BY <1>5, ChainLast
  <1> HIDE DEF y2
  <1>7. IsSeq(z) /\ C(z) = IF has THEN A(r3) ELSE Silence
    BY <1>3, ChainOnly
  <1> HIDE DEF z
  <1>8. IsSeq(y3) /\ C(y3) = Then("end", C(y2), C(z))
    BY <1>6, <1>7, ChainBoth
  <1> HIDE DEF y3
  <1>9. C(y4) = Then("end", C(y3), A(r4))
    BY <1>8, ChainLast
  <1> HIDE DEF y4, A, C
  <1>10. C(y4) = Two(Two(Two(D["AuthServs"], D["Global"]), IF has THEN D["AuthDown"] ELSE Silence),
           "PORTAL")
    BY <1>1, <1>2, <1>5, <1>6, <1>7, <1>8, <1>9 DEF Two
  <1> QED
    BY <1>4, <1>10 DEF C, has

\* Who has access goes to the proxy or on, anybody else to the chain of the
\* unknown.
LEMMA NatInternetSays ==
    ASSUME NEW cf \in Configs, NEW s, NEW D
    PROVE  /\ s["mark"] \in {"known", "probation"} =>
                Chain("end", NatInternet(cf), s, D) \in {"PROXY", "ACCEPT"}
           /\ s["mark"] \notin {"known", "probation"} => Chain("end", NatInternet(cf), s, D) = D["Unknown"]
  <1> DEFINE r1 == End(Web("known"), "PROXY")
             r2 == End(Web("probation"), "PROXY")
             r3 == End(If("mark", "known"), "ACCEPT")
             r4 == End(If("mark", "probation"), "ACCEPT")
             r5 == Jump(Always, "Unknown")
             A(r) == Answer("end", r, s, D)
             C(x) == Chain("end", x, s, D)
             proxy == cf.proxy
  <1>1. /\ A(r1) \in {"PROXY", Silence} /\ A(r2) \in {"PROXY", Silence}
        /\ s["mark"] \notin {"known", "probation"} => A(r1) = Silence /\ A(r2) = Silence
    BY SaysWeb DEF End
  <1>2. /\ A(r3) = IF s["mark"] = "known" THEN "ACCEPT" ELSE Silence
        /\ A(r4) = IF s["mark"] = "probation" THEN "ACCEPT" ELSE Silence
    BY SaysIf DEF End
  <1>3. A(r5) = D["Unknown"]
    BY GoesAlways DEF Jump
  <1>4. proxy \in BOOLEAN
    BY ConfigAssumption
  <1> DEFINE w == <<r1, r2>>
             y1 == Only(proxy, w)
             y2 == y1 \o <<r3>>
             y3 == y2 \o <<r4>>
             y4 == y3 \o <<r5>>
  <1>5. NatInternet(cf) = y4
    BY DEF NatInternet
  <1> HIDE DEF r1, r2, r3, r4, r5, proxy
  <1>6. IsSeq(w) /\ C(w) = Then("end", A(r1), A(r2))
    <2> DEFINE q == <<r1>>
    <2>1. IsSeq(q) /\ C(q) = A(r1)
      BY Tuple1, ChainOne
    <2>2. w = q \o <<r2>>
      BY Tuples, Zenon
    <2> HIDE DEF q, w
    <2> QED
      BY <2>1, <2>2, ChainLast
  <1> HIDE DEF w
  <1>7. IsSeq(y1) /\ C(y1) = IF proxy THEN C(w) ELSE Silence
    <2>1. CASE proxy
      BY <2>1, <1>6 DEF Only
    <2>2. CASE ~proxy
      BY <2>2, EmptyTuple, ChainEmpty DEF Only
    <2> QED
      BY <1>4, <2>1, <2>2
  <1> HIDE DEF y1
  <1>8. IsSeq(y2) /\ C(y2) = Then("end", C(y1), A(r3))
    BY <1>7, ChainLast
  <1> HIDE DEF y2
  <1>9. IsSeq(y3) /\ C(y3) = Then("end", C(y2), A(r4))
    BY <1>8, ChainLast
  <1> HIDE DEF y3
  <1>10. C(y4) = Then("end", C(y3), A(r5))
    BY <1>9, ChainLast
  <1> HIDE DEF y4, A, C
  <1>11. "PROXY" # Silence /\ "ACCEPT" # Silence
    BY DEF Silence
  <1>12. C(y1) \in {"PROXY", Silence} /\ (s["mark"] \notin {"known", "probation"} => C(y1) = Silence)
    BY <1>1, <1>6, <1>7 DEF Then
  <1>13. s["mark"] \in {"known", "probation"} => C(y4) \in {"PROXY", "ACCEPT"}
    BY <1>2, <1>8, <1>9, <1>10, <1>11, <1>12 DEF Then
  <1>14. s["mark"] \notin {"known", "probation"} => C(y4) = D["Unknown"]
    BY <1>2, <1>3, <1>8, <1>9, <1>10, <1>12 DEF Then
  <1> QED
    BY <1>5, <1>13, <1>14 DEF C

\* What the nat table does to the first packet of a web connection.
LEMMA NatSays ==
    ASSUME IInv, ServeInv, mode = "serve", NEW p, p["mac"] \in Macs, p["to"] # Router, p["port"] = "web",
           NEW s, Marked(p, s)
    PROVE  Through("end", "nat", "PREROUTING", s) = "PORTAL" <=>
             /\ Class(p["mac"]) = NoMark
             /\ p["to"] \notin servers /\ ~Opened(p)
             /\ ~Admitted(p)
  <1> DEFINE D0 == [c \in Own |-> Silence]
             D1 == Deeper("end", "nat", s, D0)
             D2 == Deeper("end", "nat", s, D1)
             D3 == Deeper("end", "nat", s, D2)
             D4 == Called("end", "nat", s)
             has == HasAuthDown(conf)
             k == s["mark"]
  <1>1. Served(conf, tables, clients, zeroed, authdown, servers, opened) /\ conf \in Configs
    BY DEF ServeInv, IInv
  <1>2. NatServes(conf, tables, servers, opened)
    BY <1>1 DEF Served
  <1>3. D4 = Deeper("end", "nat", s, D3)
    BY DEF Called
  <1> HIDE DEF D0
  <1>4. /\ D1["AuthServs"] = IF p["to"] \in servers THEN "ACCEPT" ELSE Silence
        /\ D1["Global"] = IF Admitted(p) \/ Opened(p) THEN "ACCEPT" ELSE Silence
        /\ has => D1["AuthDown"] = IF k = "down" THEN "ACCEPT" ELSE Silence
    BY NatChainsSay
  <1> HIDE DEF D1
  <1>5. /\ tables[<<"nat", "Unknown">>] = NatUnknown(conf) /\ tables[<<"nat", "Unknown">>] # Gone
        /\ tables[<<"nat", "Internet">>] = NatInternet(conf) /\ tables[<<"nat", "Internet">>] # Gone
        /\ tables[<<"nat", "Outgoing">>] = NatOutgoing /\ tables[<<"nat", "Outgoing">>] # Gone
        /\ tables[<<"nat", "PREROUTING">>] = NatIn
    <2>1. /\ tables[<<"nat", "Unknown">>] = NatUnknown(conf) /\ tables[<<"nat",
               "Internet">>] = NatInternet(conf)
          /\ tables[<<"nat", "Outgoing">>] = NatOutgoing /\ tables[<<"nat", "PREROUTING">>] = NatIn
      BY <1>2 DEF NatServes
    <2>2. /\ tables[<<"nat", "Unknown">>] # Gone /\ tables[<<"nat", "Internet">>] # Gone
          /\ tables[<<"nat", "Outgoing">>] # Gone
      BY <1>1, ServedChains, UsedNames
    <2> QED
      BY <2>1, <2>2
  <1>6. D2["Unknown"] = Chain("end", NatUnknown(conf), s, D1)
    <2>1. "Unknown" \in Own
      BY DEF Own
    <2> QED
      BY <1>5, <2>1, DeeperIs
  <1> HIDE DEF D2
  <1>7. D3["Internet"] = Chain("end", NatInternet(conf), s, D2)
    <2>1. "Internet" \in Own
      BY DEF Own
    <2> QED
      BY <1>5, <2>1, DeeperIs
  <1> HIDE DEF D3
  <1>8. D4["Outgoing"] = Chain("end", NatOutgoing, s, D3)
    <2>1. "Outgoing" \in Own
      BY DEF Own
    <2> QED
      BY <1>3, <1>5, <2>1, DeeperIs
  <1> HIDE DEF D4
  <1> DEFINE class == Class(p["mac"])
  <1>9. s["to"] = p["to"] /\ s["port"] = "web" /\ (k = class \/ (k = "zero" /\ class = NoMark))
    BY DEF Marked
  <1>10. Through("end", "nat", "PREROUTING", s) = D4["Outgoing"]
    <2> DEFINE y == <<Foreign>>
               j == Jump(Always, "Outgoing")
    <2>1. IsSeq(y) /\ Chain("end", y, s, D4) = Silence
      BY Tuple1, ChainOne, NotesNothing DEF Foreign
    <2>2. Answer("end", j, s, D4) = D4["Outgoing"]
      BY GoesAlways DEF Jump
    <2>3. Through("end", "nat", "PREROUTING", s) = Chain("end", y \o <<j>>, s, D4)
      BY <1>5 DEF Through, NatIn, D4
    <2> HIDE DEF y, j
    <2>4. Chain("end", y \o <<j>>, s, D4) = Then("end", Silence, D4["Outgoing"])
      BY <2>1, <2>2, ChainLast
    <2> QED
      BY <2>3, <2>4 DEF Then
  <1>11. D4["Outgoing"] = D3["Internet"]
    <2> DEFINE r == Jump(If("to", Router), "Router")
               y == <<r>>
               j == Jump(Always, "Internet")
    <2>1. Answer("end", r, s, D3) = Silence
      BY <1>9, GoesIf DEF Jump
    <2>2. IsSeq(y) /\ Chain("end", y, s, D3) = Silence
      BY <2>1, Tuple1, ChainOne
    <2>3. Answer("end", j, s, D3) = D3["Internet"]
      BY GoesAlways DEF Jump
    <2>4. D4["Outgoing"] = Chain("end", y \o <<j>>, s, D3)
      BY <1>8 DEF NatOutgoing
    <2> HIDE DEF y, j
    <2>5. Chain("end", y \o <<j>>, s, D3) = Then("end", Silence, D3["Internet"])
      BY <2>2, <2>3, ChainLast
    <2> QED
      BY <2>4, <2>5 DEF Then
  <1>12. /\ k \in {"known", "probation"} => D3["Internet"] \in {"PROXY", "ACCEPT"}
         /\ k \notin {"known", "probation"} => D3["Internet"] = D2["Unknown"]
    BY <1>1, <1>7, NatInternetSays
  <1>13. D2["Unknown"] = Two(Two(Two(D1["AuthServs"], D1["Global"]),
           IF has THEN D1["AuthDown"] ELSE Silence), "PORTAL")
    BY <1>6, <1>9, NatUnknownSays
  <1>14. k \in {"known", "probation", "down", "none", "zero"} /\ (k = "down" => has)
    BY <1>9, ClassIs
  <1>15. "ACCEPT" # Silence /\ "PORTAL" # Silence /\ Silence = NoMark /\ NoMark = "none"
    BY DEF Silence, NoMark
  <1> DEFINE P == Through("end", "nat", "PREROUTING", s)
  <1>16. P = D3["Internet"]
    BY <1>10, <1>11
  <1> HIDE DEF has, k, P
  <1>17. CASE k \in {"known", "probation"}
    <2>1. P # "PORTAL" /\ class # NoMark
      BY <1>9, <1>12, <1>15, <1>16, <1>17
    <2> QED
      BY <2>1 DEF P
  <1>18. CASE k = "down"
    <2>1. P # "PORTAL"
      BY <1>4, <1>12, <1>13, <1>14, <1>15, <1>16, <1>18 DEF Two, Then
    <2>2. class # NoMark
      BY <1>9, <1>15, <1>18
    <2> QED
      BY <2>1, <2>2 DEF P
  <1>19. CASE k \in {"none", "zero"}
    <2>1. (IF has THEN D1["AuthDown"] ELSE Silence) = Silence
      BY <1>4, <1>19
    <2>2. P = Two(Two(D1["AuthServs"], D1["Global"]), "PORTAL")
      BY <1>12, <1>13, <1>16, <1>19, <2>1 DEF Two, Then
    <2>3. P = "PORTAL" <=> D1["AuthServs"] = Silence /\ D1["Global"] = Silence
      BY <2>2, <1>4, <1>15 DEF Two, Then
    <2>4. D1["AuthServs"] = Silence <=> p["to"] \notin servers
      BY <1>4, <1>15
    <2>5. D1["Global"] = Silence <=> ~Admitted(p) /\ ~Opened(p)
      BY <1>4, <1>15
    <2>0. k = "none" \/ k = "zero"
      BY <1>19
    <2>6. class = NoMark
      <3> HIDE DEF class
      <3>1. CASE k = "none"
        BY <1>9, <1>15, <3>1
      <3>2. CASE k = "zero"
        <4>1. class \in {"known", "probation", "down", "none"}
          BY ClassIs DEF class
        <4> QED
          BY <1>9, <3>2, <4>1
      <3> QED
        BY <2>0, <3>1, <3>2
    <2> QED
      BY <2>3, <2>4, <2>5, <2>6 DEF P
  <1> QED
    BY <1>14, <1>17, <1>18, <1>19

\* The policy is a verdict of the filter table.
LEMMA PolicyIs ==
    ASSUME conf \in Configs, NEW p PROVE Policy(p) \in {"ACCEPT", "DROP", "REJECT"}
  <1> DEFINE a == IF p.to \in servers THEN "ACCEPT" ELSE Silence
             g == Says("global", p)
             o == IF Opened(p) THEN "ACCEPT" ELSE Silence
             c == Says(SetOf(Class(p.mac)), p)
             u == Says("unknown-users", p)
             V == {"ACCEPT", "DROP", "REJECT", Silence}
  <1>1. \A set \in RuleSets : Says(set, p) \in V
    <2>1. Alike(p, p)
      BY DEF Alike
    <2> QED
      BY <2>1, SaysIs
  <1>2. "global" \in RuleSets /\ "unknown-users" \in RuleSets /\ SetOf(Class(p.mac)) \in RuleSets
    BY DEF RuleSets, SetOf
  <1>3. Policy(p) = IF p.state = "invalid" THEN "DROP" ELSE First(<<a, g, o, c, u, "REJECT">>)
    BY DEF Policy
  <1>4. a \in V /\ g \in V /\ o \in V /\ c \in V /\ u \in V /\ "REJECT" # Silence
    BY <1>1, <1>2 DEF Silence
  <1> HIDE DEF a, g, o, c, u
  <1>5. First(<<a, g, o, c, u, "REJECT">>) = Two(Two(Two(Two(Two(a, g), o), c), u), "REJECT")
    BY FirstOfSix
  <1>6. First(<<a, g, o, c, u, "REJECT">>) \in {"ACCEPT", "DROP", "REJECT"}
    BY <1>4, <1>5 DEF Two, Then
  <1> QED
    BY <1>3, <1>6

\* What becomes of a packet while the gateway serves.
LEMMA VerdictIs ==
    ASSUME IInv, ServeInv, mode = "serve", NEW p \in Packets
    PROVE  /\ Verdict(p) \in {"PORTAL", "PROXY", "LOCAL"} \/ Verdict(p) = Policy(p)
           /\ p.state = "new" /\ p.port = "web" /\ p.to # Router =>
                (Verdict(p) = "PORTAL" <=> /\ Class(p.mac) = NoMark
                                           /\ p.to \notin servers /\ ~Opened(p)
                                           /\ ~Admitted(p))
  <1> DEFINE k == Through("mark", "mangle", "PREROUTING", p)
             s == [mac |-> p.mac, to |-> p.to, port |-> p.port, state |-> p.state, mark |-> k]
             nat == IF p.state = "new" THEN Through("end", "nat", "PREROUTING", s) ELSE Silence
             f == Through("end", "filter", "FORWARD", s)
  <1>1. Verdict(p) = IF nat \in {"PORTAL", "PROXY"} THEN nat ELSE IF p.to = Router THEN "LOCAL" ELSE f
    BY DEF Verdict
  <1>2. p.mac \in Macs
    BY DEF Packets
  <1>3. k = Class(p.mac) \/ (k = "zero" /\ Class(p.mac) = NoMark)
    BY <1>2, MarkIsClass
  <1> HIDE DEF k
  <1>4. Marked(p, s)
    BY <1>3 DEF Marked
  <1> HIDE DEF s
  <1>5. f = Policy(p)
    BY <1>2, <1>4, ForwardIsPolicy
  <1>6. Policy(p) \in {"ACCEPT", "DROP", "REJECT"}
    BY PolicyIs DEF IInv
  <1> HIDE DEF f
  <1>7. Verdict(p) \in {"PORTAL", "PROXY", "LOCAL"} \/ Verdict(p) = Policy(p)
    BY <1>1, <1>5
  <1>8. ASSUME p.state = "new", p.port = "web", p.to # Router
        PROVE  Verdict(p) = "PORTAL" <=> /\ Class(p.mac) = NoMark
                                         /\ p.to \notin servers /\ ~Opened(p)
                                         /\ ~Admitted(p)
    <2> DEFINE n == Through("end", "nat", "PREROUTING", s)
    <2>1. n = "PORTAL" <=> /\ Class(p.mac) = NoMark
                           /\ p.to \notin servers /\ ~Opened(p)
                           /\ ~Admitted(p)
      BY <1>2, <1>4, <1>8, NatSays
    <2>2. nat = n
      BY <1>8
    <2> HIDE DEF n, nat
    <2>3. Verdict(p) = "PORTAL" <=> n = "PORTAL"
      BY <1>1, <1>5, <1>6, <1>8, <2>2
    <2> QED
      BY <2>1, <2>3
  <1> QED
    BY <1>7, <1>8

\* The same, of the places in the rule set.
LEMMA AdmittedIs ==
    ASSUME conf \in Configs, NEW p
    PROVE  ~Admitted(p) <=> \A i \in DOMAIN conf.rules["global"] :
                                ~(Decides(conf.rules["global"][i], p)
                                  /\ conf.rules["global"][i].do[2] = "ACCEPT")
  BY DEF Admitted, ToSet

\* Whatever clients were inherited, whatever order clients, servers, opened hosts
\* and the passthrough came and went in, and whatever happened to the processes
\* before, a packet that is neither for the gateway nor sent to the portal or the proxy meets the
\* configured policy of the class of its machine: what iptables_fw_init, fw_init
\* and the functions that change their chains make of the three tables, for every
\* configuration and every set of machines, hosts and servers.
THEOREM PolicyIsFollowed == Spec => []VerdictsFollowPolicy
  <1>1. ASSUME IInv, ServeInv PROVE VerdictsFollowPolicy
    <2> SUFFICES ASSUME mode = "serve", NEW p \in Packets, Verdict(p) \notin {"LOCAL", "PORTAL", "PROXY"}
                 PROVE  Verdict(p) = Policy(p)
      BY DEF VerdictsFollowPolicy
    <2> QED
      BY <1>1, VerdictIs
  <1>2. IInv /\ ServeInv => VerdictsFollowPolicy
    BY <1>1
  <1> QED
    BY <1>2, InitIInv, NextIInv, InitServeInv, NextServeInv, PTL DEF Spec

\* A new web connection reaches the portal exactly when its machine has no
\* access, its host is neither an auth server nor opened, by its name or with all
\* others (a request for the host 0.0.0.0/0), and no rule of the global set
\* accepts it.
THEOREM StrangersMeetPortal == Spec => []PortalForStrangers
  <1>1. ASSUME IInv, ServeInv PROVE PortalForStrangers
    <2> SUFFICES ASSUME mode = "serve", NEW p \in Packets, p.state = "new", p.port = "web", p.to # Router
                 PROVE  Verdict(p) = "PORTAL" <=>
                          /\ Class(p.mac) = NoMark
                          /\ p.to \notin servers /\ ~Opened(p)
                          /\ \A i \in DOMAIN conf.rules["global"] :
                                ~(Decides(conf.rules["global"][i], p)
                                  /\ conf.rules["global"][i].do[2] = "ACCEPT")
      BY DEF PortalForStrangers
    <2>1. conf \in Configs
      BY <1>1 DEF IInv
    <2> QED
      BY <1>1, <2>1, VerdictIs, AdmittedIs
  <1>2. IInv /\ ServeInv => PortalForStrangers
    BY <1>1
  <1> QED
    BY <1>2, InitIInv, NextIInv, InitServeInv, NextServeInv, PTL DEF Spec
=============================================================================
