------------------------------ MODULE Sessions ------------------------------
(***************************************************************************)
(* What the gateway promises of the sessions of its clients, without       *)
(* threads, lock, list or firewall.  A machine has one session at a time.  *)
(* A session has access only with a mark that the auth server has granted  *)
(* to that very session; it is over only when its access has been taken    *)
(* away, it never comes back, and its end is reported at most once, after  *)
(* it.                                                                     *)
(***************************************************************************)
EXTENDS Naturals

CONSTANTS
    Numbers,        \* what sessions are numbered with, in the order they begin
    Machines,       \* who may have a session
    Marks, NoMark   \* the kinds of access, and none

VARIABLES
    owner,          \* the machine of every session begun so far, by number
    open,           \* the sessions that are not over
    access,         \* the mark of every session
    entitled,       \* <<session, mark>> the auth server has agreed to
    reported        \* the sessions whose end the auth server has been told

vars == <<owner, open, access, entitled, reported>>

Begun == DOMAIN owner

Init ==
    /\ owner = [i \in {} |-> NoMark] /\ access = [i \in {} |-> NoMark]
    /\ open = {} /\ entitled = {} /\ reported = {}

Begin(i, m) ==
    /\ \A j \in Begun : i > j
    /\ \A j \in open : owner[j] # m
    /\ owner' = [j \in Begun \cup {i} |-> IF j = i THEN m ELSE owner[j]]
    /\ access' = [j \in Begun \cup {i} |-> IF j = i THEN NoMark ELSE access[j]]
    /\ open' = open \cup {i}
    /\ UNCHANGED <<entitled, reported>>

Entitle(i, k) ==
    /\ entitled' = entitled \cup {<<i, k>>}
    /\ UNCHANGED <<owner, open, access, reported>>

Grant(i, k) ==
    /\ i \in open /\ <<i, k>> \in entitled
    /\ access' = [access EXCEPT ![i] = k]
    /\ UNCHANGED <<owner, open, entitled, reported>>

Withdraw(i) ==
    /\ i \in open
    /\ access' = [access EXCEPT ![i] = NoMark]
    /\ UNCHANGED <<owner, open, entitled, reported>>

End(i) ==
    /\ i \in open /\ access[i] = NoMark
    /\ open' = open \ {i}
    /\ UNCHANGED <<owner, access, entitled, reported>>

Report(i) ==
    /\ i \notin open \cup reported
    /\ reported' = reported \cup {i}
    /\ UNCHANGED <<owner, open, access, entitled>>

Next ==
    \/ \E m \in Machines : \E i \in Numbers : Begin(i, m)
    \/ \E i \in Begun :
         \/ \E k \in Marks : Entitle(i, k) \/ Grant(i, k)
         \/ Withdraw(i) \/ End(i) \/ Report(i)

Spec == Init /\ [][Next]_vars
=============================================================================
