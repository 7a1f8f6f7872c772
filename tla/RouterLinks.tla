---------------------------- MODULE RouterLinks -----------------------------
(***************************************************************************)
(* Router with the order in which it reads its links.                      *)
(* recv_from_any_link looks at the links from 0 on and reads one frame  *)
(* of the first that has any: frames that never cease on the links up to   *)
(* some number keep everything above from being read.                      *)
(***************************************************************************)
EXTENDS Router

CONSTANTS
  LastLink,  \* ROUTER_NUM_INTERFACES - 1
  LinkOf     \* the link each next hop is on

ASSUME RouterLinksAssumption == LastLink \in Nat /\ LinkOf \in [Hops -> 0..LastLink]

VARIABLE reach  \* the highest link that is still read: from now on there is
                \* a frame waiting on the links up to it at all times, unless
                \* it is the last one

linksVars == <<vars, reach>>

LinksInit == Init /\ reach = LastLink

\* From now on the links up to k are never silent together.
Flood(k) ==
  /\ k < reach
  /\ reach' = k
  /\ UNCHANGED vars

\* recv_from_any_link comes to the link of h.
Heard(h) == LinkOf[h] <= reach

ReadReply(h) == Heard(h) /\ ReceiveArpReply(h) /\ UNCHANGED reach

LinksNext ==
  \/ \E k \in 0..LastLink : Flood(k)
  \/ \E h \in Hops :
       \/ ReadReply(h)
       \/ Heard(h) /\ ReceiveArpRequest(h) /\ UNCHANGED reach
       \/ Lose(h) /\ UNCHANGED reach
  \/ \E dst \in Dests \cup {Me}, ttl \in Ttls, valid \in BOOLEAN :
       ReceiveIp(dst, ttl, valid) /\ UNCHANGED reach
  \/ HandleNext /\ UNCHANGED reach

(* A request that is not lost is answered.  The router comes round to the  *)
(* answer unless the links before it never cease to have frames, and its   *)
(* loop over the queue goes on.                                            *)
Fairness ==
  /\ \A h \in Hops : WF_linksVars(ReadReply(h))
  /\ WF_linksVars(HandleNext /\ UNCHANGED reach)

LinksSpec == LinksInit /\ [][LinksNext]_linksVars /\ Fairness

-----------------------------------------------------------------------------
\* A packet does not wait for ever if the requests for its next hop are
\* answered and the answers can be read: unless the links below are never
\* silent, the order of the links holds nobody up for good.
WaitingEnds ==
  \A id \in 1..MaxPackets :
    id \in Queued ~>
      \/ id \notin Queued
      \/ Hop(arrived[id]) \in unanswered
      \/ ~Heard(Hop(arrived[id]))

=============================================================================
