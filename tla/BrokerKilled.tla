---------------------------- MODULE BrokerKilled ----------------------------
(* Broker, with the history of which clients were killed: the server       *)
(* cannot tell, so Broker does not keep it.                                *)
EXTENDS Broker

VARIABLE killed  \* runs that ended while the server still had them, without "exit"

KilledInit == Init /\ killed = {}

KilledNow == {c \in Clients : /\ proc[c] # "gone" /\ proc'[c] = "gone"
                              /\ Reachable(c)
                              /\ up'[c] = up[c]}

KilledNext == Next /\ killed' = killed \cup KilledNow

KilledSpec == KilledInit /\ [][KilledNext]_<<vars, killed>>

-----------------------------------------------------------------------------
\* "Otherwise, it prints ... already connected" (readme.txt:52-58): a client
\* is turned away only while another connection of its identifier is open, or
\* after one of that identifier was killed, which the server never learns.
RejectedOnlyIfConnected ==
  [][\A c \in Clients :
       /\ accepting = c /\ proc[c] # "gone"
       /\ accepting' = NoClient /\ fdOf'[c] = 0 /\ server' = "running"
       => \E d \in Clients \ {c} :
            IdOf[d] = IdOf[c] /\ (fdOf[d] # 0 \/ d \in killed)]_<<vars, killed>>

=============================================================================
