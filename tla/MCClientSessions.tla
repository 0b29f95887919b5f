-------------------------- MODULE MCClientSessions --------------------------
(***************************************************************************)
(* Instances of ClientSessions for TLC.                                    *)
(***************************************************************************)
EXTENDS ClientSessions, FiniteSets, TLC

CONSTANTS a1, a2, m1, m2, x1, x2, h1, h2, sync, free

Symmetry == Permutations(Handlers)

\* One machine per address, or two machines that use the same address in turn.
ArpStatic == (a1 :> {m1}) @@ (a2 :> {m2})
ArpOne == (a1 :> {m1})
ArpShared == (a1 :> {m1, m2})

\* No address occurs in the text of another, or a1 does in a2 (10.0.0.1 in
\* 10.0.0.12).
MentionsExact == {<<a, a>> : a \in Ips}
MentionsPrefix == MentionsExact \cup {<<a1, a2>>}

\* In the long run one token is refused, or the address falls silent.
LongRun == [w \in Worlds |->
              IF w = "refusal" THEN (x1 :> "ALLOWED") @@ (x2 :> "VALIDATION_FAILED")
              ELSE [x \in Tokens |-> "ALLOWED"]]
LongRunQuiet == [w \in Worlds |-> IF w = "silence" THEN {a1} ELSE {}]
=============================================================================
