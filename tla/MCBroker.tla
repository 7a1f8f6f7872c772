------------------------------ MODULE MCBroker ------------------------------
(* Instances of Broker for TLC.                                            *)
EXTENDS BrokerRefinement, BrokerKeyboard

CONSTANTS a1, a2, b1, a, b, t

\* How many runs each of the two identifiers has.
TwoAndOne == a1 :> a @@ a2 :> a @@ b1 :> b
OneAndOne == a1 :> a @@ b1 :> b

\* The runs of one identifier differ in nothing.
SameIdentifier == Permutations({a1, a2})

=============================================================================
