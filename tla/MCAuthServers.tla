--------------------------- MODULE MCAuthServers ---------------------------
(***************************************************************************)
(* Instances of AuthServers for TLC.                                       *)
(***************************************************************************)
EXTENDS AuthServers, TLC

CONSTANTS s1, s2

Two == <<s1, s2>>

\* In the long run only the second server answers, the first one refusing the
\* connection or accepting it in vain; or none can be connected to.
LongRun == [w \in Worlds |->
              CASE w = "failover" -> (s1 :> "refused") @@ (s2 :> "up")
                [] w = "mute"     -> (s1 :> "mute") @@ (s2 :> "up")
                [] w = "outage"   -> (s1 :> "refused") @@ (s2 :> "unresolved")]
=============================================================================
