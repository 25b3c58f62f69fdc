---------------------------- MODULE MC_PinnedBuild ----------------------------
\* Two commits of the Config Repo, one of which declares a pin.
EXTENDS PinnedBuild, TLC

CONSTANTS s1, s2, p1, p2, a1, a2

MCDeclares == s1 :> None @@ s2 :> p2
MCFirst == [f \in File |-> CASE f = "pin" -> p1 [] f = "address" -> a1 [] OTHER -> s1]
=============================================================================
