------------------------------- MODULE Router -------------------------------
(***************************************************************************)
(* The data plane of homework1-public: router.cpp's loop over received     *)
(* frames, ip_handler and arp_handler (lib/handlers.cpp), the ARP cache    *)
(* and the queue of packets that wait for an address.  The network is the  *)
(* environment: hosts send packets of any TTL, introduce themselves with   *)
(* ARP requests of their own and answer the router's, or fail to.          *)
(* What tells frames apart by MAC address is left out, and so are the      *)
(* bytes of the ICMP messages.  In what order the links are read, and what *)
(* must happen in the end, is in RouterLinks.                              *)
(***************************************************************************)
EXTENDS Integers, Sequences, FiniteSets

CONSTANTS
  Hops,        \* next-hop addresses of the routing table
  Dests,       \* destinations reached through the routing table
  Me,          \* the address of the interface the packet came in on
  NoRoute,     \* get_next_hop found nothing (interface -1)
  RouteOf,     \* the next hop get_next_hop finds for each destination
  Ttls,        \* TTL values of arriving packets
  MaxPackets   \* bound: IP packets received in a behaviour

ASSUME RouterAssumption ==
  /\ Me \notin Dests
  /\ NoRoute \notin Hops
  /\ RouteOf \in [Dests -> Hops \cup {NoRoute}]
  /\ Ttls \subseteq 0..255
  /\ MaxPackets \in Nat

VARIABLES
  arp_table,     \* the next hops whose MAC address is known
  packet_queue,  \* packets waiting for an address, as they were pushed
  turns,         \* turns the loop over the queue in arp_handler has left
  sent,          \* what became of the others, in order (history)
  arrived,       \* the packets received, in order (history)
  asking,        \* ARP requests for each next hop that may still be answered
  unanswered,    \* next hops some request for which was lost
  replies,       \* ARP replies handled so far (history)
  introduced     \* next hops learned from a request while packets waited
                 \* for them (history)

vars == <<arp_table, packet_queue, turns, sent, arrived, asking, unanswered,
          replies, introduced>>

Packet == [id : Nat, dst : Dests \cup {Me}, ttl : 0..255]
Fates == {"forward", "echo_reply", "time_exceeded", "unreachable"}
Ids == DOMAIN arrived

TypeOK ==
  /\ arp_table \subseteq Hops
  /\ packet_queue \in Seq(Packet)
  /\ turns \in 0..Len(packet_queue)
  /\ sent \in Seq([id : Nat, as : Fates, ttl : 0..255, after : Nat])
  /\ arrived \in Seq([dst : Dests \cup {Me}, ttl : 0..255, valid : BOOLEAN,
                      after : Nat])
  /\ asking \in [Hops -> Nat]
  /\ unanswered \subseteq Hops
  /\ replies \in Nat
  /\ introduced \subseteq Hops

Init ==
  /\ arp_table = {}
  /\ packet_queue = <<>>
  /\ turns = 0
  /\ sent = <<>>
  /\ arrived = <<>>
  /\ asking = [h \in Hops |-> 0]
  /\ unanswered = {}
  /\ replies = 0
  /\ introduced = {}

-----------------------------------------------------------------------------
(* ip_handler                                                              *)

Hop(p) == RouteOf[p.dst]
RoutedAtOne(p) == p.dst # Me /\ p.ttl > 0 /\ Hop(p) # NoRoute  \* mutant
Routed(p) == p.dst # Me /\ p.ttl > 1 /\ Hop(p) # NoRoute

Fate(p) ==
  CASE p.dst = Me -> "echo_reply"
    [] p.dst # Me /\ p.ttl <= 1 -> "time_exceeded"
    [] p.dst # Me /\ p.ttl > 1 /\ Hop(p) = NoRoute -> "unreachable"
    [] Routed(p) -> "forward"

\* The TTL is written back before the packet is pushed or sent.
Decremented(p) == IF Routed(p) THEN [p EXCEPT !.ttl = @ - 1] ELSE p

Waits(p) == Routed(p) /\ Hop(p) \notin arp_table
LeavesAlways(p) == TRUE  \* mutant: no return after arp_request
Leaves(p) == ~Waits(p)

PushedInFront(queue, p) == <<p>> \o queue  \* mutant: a stack
Pushed(queue, p) == Append(queue, p)

AskOneAtATime(h) ==  \* mutant: no request while any packet waits
  IF packet_queue = <<>> THEN [asking EXCEPT ![h] = @ + 1] ELSE asking
Ask(h) == [asking EXCEPT ![h] = @ + 1]

\* One that must wait is pushed onto `queue', and its next hop asked for.
HandleIp(p, queue) ==
  /\ packet_queue' = IF Waits(p) THEN Pushed(queue, Decremented(p)) ELSE queue
  /\ asking' = IF Waits(p) THEN Ask(Hop(p)) ELSE asking
  /\ sent' = IF Leaves(p)
             THEN Append(sent, [id |-> p.id, as |-> Fate(p),
                                ttl |-> Decremented(p).ttl, after |-> replies])
             ELSE sent

\* A packet whose header checksum is wrong is dropped.
ReceiveIp(dst, ttl, valid) ==
  LET p == [id |-> Len(arrived) + 1, dst |-> dst, ttl |-> ttl]
  IN  /\ turns = 0
      /\ Len(arrived) < MaxPackets
      /\ arrived' = Append(arrived, [dst |-> dst, ttl |-> ttl, valid |-> valid,
                                     after |-> replies])
      /\ \/ valid /\ HandleIp(p, packet_queue)
         \/ ~valid /\ UNCHANGED <<packet_queue, sent, asking>>
      /\ UNCHANGED <<arp_table, turns, unanswered, replies, introduced>>

-----------------------------------------------------------------------------
(* arp_handler and the hosts it talks to.                                  *)

\* A request from h is answered, and h learned; the queue is not looked at.
ReceiveArpRequest(h) ==
  /\ turns = 0
  /\ arp_table' = arp_table \cup {h}
  /\ introduced' = IF \E i \in DOMAIN packet_queue : Hop(packet_queue[i]) = h
                   THEN introduced \cup {h} ELSE introduced
  /\ UNCHANGED <<packet_queue, turns, sent, arrived, asking, unanswered, replies>>

\* A reply from h: the loop makes as many turns as there are packets now.
LearnOnly(h) ==  \* mutant: keeps the queue for later
  /\ turns = 0 /\ asking[h] > 0
  /\ arp_table' = arp_table \cup {h}
  /\ replies' = replies + 1
  /\ asking' = [asking EXCEPT ![h] = @ - 1]
  /\ UNCHANGED <<packet_queue, turns, sent, arrived, unanswered, introduced>>
ReceiveArpReply(h) ==
  /\ turns = 0 /\ asking[h] > 0
  /\ arp_table' = arp_table \cup {h}
  /\ replies' = replies + 1
  /\ asking' = [asking EXCEPT ![h] = @ - 1]
  /\ turns' = Len(packet_queue)
  /\ UNCHANGED <<packet_queue, sent, arrived, unanswered, introduced>>

\* A turn: the packet in front is handled again, from the first check on;
\* one that still has to wait is pushed anew.
HandleNext ==
  /\ turns > 0
  /\ turns' = turns - 1
  /\ HandleIp(Head(packet_queue), Tail(packet_queue))
  /\ UNCHANGED <<arp_table, arrived, unanswered, replies, introduced>>

\* A request, or the answer to it, gets lost.
Lose(h) ==
  /\ asking[h] > 0
  /\ asking' = [asking EXCEPT ![h] = @ - 1]
  /\ unanswered' = unanswered \cup {h}
  /\ UNCHANGED <<arp_table, packet_queue, turns, sent, arrived, replies,
                 introduced>>

Next ==
  \/ \E dst \in Dests \cup {Me}, ttl \in Ttls, valid \in BOOLEAN :
       ReceiveIp(dst, ttl, valid)
  \/ \E h \in Hops : ReceiveArpRequest(h) \/ ReceiveArpReply(h) \/ Lose(h)
  \/ HandleNext

Spec == Init /\ [][Next]_vars

-----------------------------------------------------------------------------
Queued == {packet_queue[i].id : i \in DOMAIN packet_queue}
Done == {sent[i].id : i \in DOMAIN sent}

\* No packet is lost, doubled or made up, over any number of rounds through
\* the queue: each good one waits or has met its fate, once.
EachPacketOnce ==
  /\ Queued \cap Done = {}
  /\ Queued \cup Done = {id \in Ids : arrived[id].valid}
  /\ \A i, j \in DOMAIN packet_queue :
       packet_queue[i].id = packet_queue[j].id => i = j
  /\ \A i, j \in DOMAIN sent : sent[i].id = sent[j].id => i = j

\* A packet is handled from the first check on every time its turn comes, and
\* each time its TTL, a uint8_t, goes down: however many rounds it makes, the
\* TTL never passes zero, and a packet is forwarded older by a hop at least.
\* By that one hop alone if no ARP reply was handled in between; what a reply
\* costs the packets that wait is a fault of the code, and not in question
\* here.
TtlNeverWraps ==
  /\ \A i \in DOMAIN packet_queue :
       packet_queue[i].ttl \in 1..(arrived[packet_queue[i].id].ttl - 1)
  /\ \A i \in DOMAIN sent :
       LET came == arrived[sent[i].id]
       IN  sent[i].as = "forward" =>
             /\ sent[i].ttl \in 1..(came.ttl - 1)
             /\ sent[i].after = came.after => sent[i].ttl = came.ttl - 1

\* No packet is left with nobody to wake the queue for it: a request for its
\* next hop is on its way, or one was lost, or its turn to leave comes in this
\* loop.  How many requests there are is not said; the code sends one for each
\* packet.
WaitingIsAsked ==
  \A i \in DOMAIN packet_queue :
    LET h == Hop(packet_queue[i])
    IN  asking[h] > 0 \/ h \in unanswered \/ (i <= turns /\ h \in arp_table)

\* Packets for one next hop are forwarded in the order they came, unless
\* that hop was learned from a request of its own while some waited for it.
NoOvertaking ==
  \A i \in DOMAIN sent, id \in Ids :
    LET first == arrived[id]
        later == sent[i]
    IN  /\ later.as = "forward" /\ id < later.id
        /\ first.valid /\ first.dst # Me
        /\ Hop(first) = Hop(arrived[later.id])
        => \/ Hop(first) \in introduced
           \/ \E j \in 1..(i - 1) : sent[j].id = id

=============================================================================
