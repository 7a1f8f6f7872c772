------------------------------ MODULE MCBrokerKilled ---------------------------
(* The instance of BrokerKilled for TLC.                                   *)
EXTENDS BrokerKilled, TLC

CONSTANTS a1, a2, b1, a, b, t

\* Two runs of one identifier, and one of another.
TwoAndOne == a1 :> a @@ a2 :> a @@ b1 :> b

\* The runs of one identifier differ in nothing.
SameIdentifier == Permutations({a1, a2})

=============================================================================
