---------------------------- MODULE RouterProofs ----------------------------
(***************************************************************************)
(* Theorems about Router for every set of hops, routes, TTLs and number of *)
(* packets.                                                                *)
(***************************************************************************)
EXTENDS RouterLinks, SequenceTheorems, TLAPS

(* Every packet that waits is one that arrived, was good and has a route.  *)
Known(p, log) ==
  /\ p.id \in DOMAIN log /\ log[p.id].valid /\ p.dst = log[p.id].dst
  /\ p.dst # Me /\ Hop(p) \in Hops /\ p.ttl > 0
QueueKnown == \A i \in DOMAIN packet_queue : Known(packet_queue[i], arrived)

(* The packets wait in the order they came, the ones pushed anew by the    *)
(* loop before those whose turn is still to come.                          *)
Ahead(i, j) == IF i <= turns THEN i < j /\ j <= turns ELSE j <= turns \/ i < j
QueueRotates ==
  \A i, j \in DOMAIN packet_queue :
    Ahead(i, j) => packet_queue[i].id < packet_queue[j].id

(* The loop pushes only packets whose next hop is unknown, so that between *)
(* two loops a packet with a known next hop waits only if that one was     *)
(* learned from a request.                                                 *)
PushedUnknown ==
  \A i \in DOMAIN packet_queue :
    i > turns /\ Hop(packet_queue[i]) \in arp_table =>
      turns = 0 /\ Hop(packet_queue[i]) \in introduced

PacketInv == QueueKnown /\ QueueRotates /\ EachPacketOnce

-----------------------------------------------------------------------------
(* What HandleIp does, step by step.                                       *)

LEMMA PacketKept ==
  ASSUME NEW p \in Packet
  PROVE  /\ Decremented(p) \in Packet
         /\ Decremented(p).id = p.id /\ Decremented(p).dst = p.dst
         /\ Routed(p) => Decremented(p).ttl = p.ttl - 1
         /\ Fate(p) \in Fates
         /\ Fate(p) = "forward" <=> Routed(p)
<1>1. p.id \in Nat /\ p.dst \in Dests \cup {Me} /\ p.ttl \in 0..255
  BY DEF Packet
<1>2. /\ Decremented(p) \in Packet
      /\ Decremented(p).id = p.id /\ Decremented(p).dst = p.dst
      /\ Routed(p) => Decremented(p).ttl = p.ttl - 1
  <2>1. CASE Routed(p)
    <3>1. p.ttl > 1
      BY <2>1 DEF Routed
    <3>2. Decremented(p) = [p EXCEPT !.ttl = p.ttl - 1]
      BY <2>1 DEF Decremented
    <3>3. p.ttl - 1 \in 0..255
      BY <1>1, <3>1
    <3>4. QED
      BY <3>2, <3>3 DEF Packet
  <2>2. CASE ~Routed(p)
    BY <2>2 DEF Decremented
  <2>3. QED
    BY <2>1, <2>2
<1>3. Fate(p) \in Fates
  BY <1>1 DEF Fate, Fates, Routed
<1>4. Fate(p) = "forward" <=> Routed(p)
  BY <1>1 DEF Fate, Routed
<1>5. QED
  BY <1>2, <1>3, <1>4

LEMMA RoutedHop ==
  ASSUME NEW p \in Packet, Routed(p)
  PROVE  p.dst \in Dests /\ Hop(p) \in Hops
BY RouterAssumption DEF Packet, Routed, Hop

\* The record a packet leaves behind.
Fared(p) == [id |-> p.id, as |-> Fate(p), ttl |-> Decremented(p).ttl,
             after |-> replies]
Outcome == [id : Nat, as : Fates, ttl : 0..255, after : Nat]

LEMMA FaredType ==
  ASSUME NEW p \in Packet, replies \in Nat
  PROVE  Fared(p) \in Outcome
<1>1. Decremented(p) \in Packet /\ Fate(p) \in Fates
  BY PacketKept
<1>2. p.id \in Nat /\ Decremented(p).ttl \in 0..255
  BY <1>1 DEF Packet
<1>3. QED
  BY <1>1, <1>2 DEF Fared, Outcome

LEMMA HandleType ==
  ASSUME TypeOK, NEW p \in Packet, NEW queue \in Seq(Packet), HandleIp(p, queue)
  PROVE  /\ packet_queue' \in Seq(Packet)
         /\ asking' \in [Hops -> Nat]
         /\ sent' \in Seq(Outcome)
         /\ Len(packet_queue') \in {Len(queue), Len(queue) + 1}
<1>0. sent \in Seq(Outcome) /\ replies \in Nat /\ asking \in [Hops -> Nat]
  BY DEF TypeOK, Outcome
<1>1. Fared(p) \in Outcome /\ Decremented(p) \in Packet
  BY <1>0, FaredType, PacketKept
<1>2. CASE Waits(p)
  <2>1. packet_queue' = Append(queue, Decremented(p))
    BY <1>2 DEF HandleIp, Pushed
  <2>2. packet_queue' \in Seq(Packet) /\ Len(packet_queue') = Len(queue) + 1
    BY <1>1, <2>1, AppendProperties
  <2>3. Hop(p) \in Hops
    BY <1>2, RoutedHop DEF Waits
  <2>4. asking' = [asking EXCEPT ![Hop(p)] = @ + 1]
    BY <1>2 DEF HandleIp, Ask
  <2>5. asking' \in [Hops -> Nat]
    BY <1>0, <2>3, <2>4
  <2>6. sent' = sent
    BY <1>2 DEF HandleIp, Leaves
  <2>7. QED
    BY <1>0, <2>2, <2>5, <2>6
<1>3. CASE ~Waits(p)
  <2>1. packet_queue' = queue /\ asking' = asking /\ sent' = Append(sent, Fared(p))
    BY <1>3 DEF HandleIp, Leaves, Fared
  <2>2. sent' \in Seq(Outcome)
    BY <1>0, <1>1, <2>1, AppendProperties
  <2>3. QED
    BY <1>0, <2>1, <2>2
<1>4. QED
  BY <1>2, <1>3

-----------------------------------------------------------------------------
(* The types.                                                              *)

Arrived == [dst : Dests \cup {Me}, ttl : 0..255, valid : BOOLEAN, after : Nat]

LEMMA TypeStep == TypeOK /\ [Next]_vars => TypeOK'
<1> SUFFICES ASSUME TypeOK, [Next]_vars PROVE TypeOK'
  OBVIOUS
<1>0. /\ packet_queue \in Seq(Packet) /\ turns \in 0..Len(packet_queue)
      /\ arrived \in Seq(Arrived) /\ asking \in [Hops -> Nat] /\ replies \in Nat
      /\ arp_table \subseteq Hops /\ introduced \subseteq Hops
      /\ unanswered \subseteq Hops /\ sent \in Seq(Outcome)
      /\ Len(packet_queue) \in Nat
  BY DEF TypeOK, Arrived, Outcome
<1> USE DEF Arrived, Outcome
<1>1. ASSUME NEW dst \in Dests \cup {Me}, NEW ttl \in Ttls, NEW valid \in BOOLEAN,
             ReceiveIp(dst, ttl, valid)
      PROVE  TypeOK'
  <2> DEFINE p == [id |-> Len(arrived) + 1, dst |-> dst, ttl |-> ttl]
             r == [dst |-> dst, ttl |-> ttl, valid |-> valid, after |-> replies]
  <2>1. ttl \in 0..255
    BY RouterAssumption
  <2>2. p \in Packet /\ r \in Arrived
    BY <1>0, <2>1 DEF Packet
  <2>3. arrived' \in Seq(Arrived)
    BY <1>0, <1>1, <2>2, AppendProperties DEF ReceiveIp
  <2>4. UNCHANGED <<arp_table, turns, unanswered, replies, introduced>> /\ turns = 0
    BY <1>1 DEF ReceiveIp
  <2>5. CASE HandleIp(p, packet_queue)
    <3>1. /\ packet_queue' \in Seq(Packet) /\ asking' \in [Hops -> Nat]
          /\ sent' \in Seq(Outcome)
      BY <1>0, <2>2, <2>5, HandleType
    <3>2. Len(packet_queue') \in Nat
      BY <3>1
    <3>3. QED
      BY <1>0, <2>3, <2>4, <3>1, <3>2 DEF TypeOK
  <2>6. CASE UNCHANGED <<packet_queue, sent, asking>>
    BY <1>0, <2>3, <2>4, <2>6 DEF TypeOK
  <2>7. QED
    BY <1>1, <2>5, <2>6 DEF ReceiveIp
<1>2. ASSUME NEW h \in Hops, ReceiveArpRequest(h) PROVE TypeOK'
  BY <1>0, <1>2 DEF ReceiveArpRequest, TypeOK
<1>3. ASSUME NEW h \in Hops, ReceiveArpReply(h) PROVE TypeOK'
  <2>1. asking' \in [Hops -> Nat]
    BY <1>0, <1>3 DEF ReceiveArpReply
  <2>2. QED
    BY <1>0, <1>3, <2>1 DEF ReceiveArpReply, TypeOK
<1>4. ASSUME NEW h \in Hops, Lose(h) PROVE TypeOK'
  <2>1. asking' \in [Hops -> Nat]
    BY <1>0, <1>4 DEF Lose
  <2>2. QED
    BY <1>0, <1>4, <2>1 DEF Lose, TypeOK
<1>5. CASE HandleNext
  <2>1. packet_queue # <<>> /\ turns \in Nat /\ turns > 0
    BY <1>0, <1>5 DEF HandleNext
  <2>2. PICK p \in Packet, rest \in Seq(Packet) :
          HandleIp(p, rest) /\ Len(rest) = Len(packet_queue) - 1
    <3>1. /\ Head(packet_queue) \in Packet /\ Tail(packet_queue) \in Seq(Packet)
          /\ Len(Tail(packet_queue)) = Len(packet_queue) - 1
      BY <1>0, <2>1, HeadTailProperties
    <3>2. QED
      BY <1>5, <3>1 DEF HandleNext
  <2>4. /\ packet_queue' \in Seq(Packet) /\ asking' \in [Hops -> Nat]
        /\ sent' \in Seq(Outcome)
        /\ Len(packet_queue') \in {Len(rest), Len(rest) + 1}
    BY <2>2, HandleType
  <2>5. turns' \in 0..Len(packet_queue')
    BY <1>0, <1>5, <2>1, <2>2, <2>4 DEF HandleNext
  <2>6. QED
    BY <1>0, <1>5, <2>4, <2>5 DEF HandleNext, TypeOK
<1>6. CASE UNCHANGED vars
  BY <1>0, <1>6 DEF vars, TypeOK
<1>7. QED
  BY <1>1, <1>2, <1>3, <1>4, <1>5, <1>6 DEF Next

\* Every variable keeps its type, whatever arrives and in whatever order.
THEOREM TypeCorrect == Spec => []TypeOK
<1>1. Init => TypeOK
  BY EmptySeq DEF Init, TypeOK
<1>2. QED
  BY <1>1, TypeStep, PTL DEF Spec

-----------------------------------------------------------------------------
(* The two outcomes of HandleIp, and of a turn of the loop, packet by      *)
(* packet.                                                                 *)

Queues(p, queue) ==
  /\ Waits(p)
  /\ Len(packet_queue') = Len(queue) + 1
  /\ \A i \in 1..Len(queue) : packet_queue'[i] = queue[i]
  /\ packet_queue'[Len(queue) + 1] = Decremented(p)
  /\ sent' = sent
  /\ asking' = [asking EXCEPT ![Hop(p)] = @ + 1]

Sends(p, queue) ==
  /\ ~Waits(p)
  /\ packet_queue' = queue
  /\ Len(sent') = Len(sent) + 1
  /\ \A i \in 1..Len(sent) : sent'[i] = sent[i]
  /\ sent'[Len(sent) + 1] = Fared(p)
  /\ asking' = asking

LEMMA HandleCases ==
  ASSUME TypeOK, NEW p \in Packet, NEW queue \in Seq(Packet), HandleIp(p, queue)
  PROVE  Queues(p, queue) \/ Sends(p, queue)
<1>0. sent \in Seq(Outcome) /\ replies \in Nat
  BY DEF TypeOK, Outcome
<1>1. Fared(p) \in Outcome /\ Decremented(p) \in Packet
  BY <1>0, FaredType, PacketKept
<1>2. CASE Waits(p)
  <2>1. packet_queue' = Append(queue, Decremented(p))
    BY <1>2 DEF HandleIp, Pushed
  <2>2. /\ Len(packet_queue') = Len(queue) + 1
        /\ \A i \in 1..Len(queue) : packet_queue'[i] = queue[i]
        /\ packet_queue'[Len(queue) + 1] = Decremented(p)
    BY <1>1, <2>1, AppendProperties
  <2>3. QED
    BY <1>2, <2>2 DEF HandleIp, Leaves, Ask, Queues
<1>3. CASE ~Waits(p)
  <2>1. sent' = Append(sent, Fared(p))
    BY <1>3 DEF HandleIp, Leaves, Fared
  <2>2. /\ Len(sent') = Len(sent) + 1
        /\ \A i \in 1..Len(sent) : sent'[i] = sent[i]
        /\ sent'[Len(sent) + 1] = Fared(p)
    BY <1>0, <1>1, <2>1, AppendProperties
  <2>3. QED
    BY <1>3, <2>2 DEF HandleIp, Leaves, Sends
<1>4. QED
  BY <1>2, <1>3

Front == packet_queue[1]

Moves ==
  /\ Waits(Front)
  /\ Len(packet_queue') = Len(packet_queue)
  /\ \A i \in 1..(Len(packet_queue) - 1) : packet_queue'[i] = packet_queue[i + 1]
  /\ packet_queue'[Len(packet_queue)] = Decremented(Front)
  /\ sent' = sent
  /\ asking' = [asking EXCEPT ![Hop(Front)] = @ + 1]

Departs ==
  /\ ~Waits(Front)
  /\ Len(packet_queue') = Len(packet_queue) - 1
  /\ \A i \in 1..(Len(packet_queue) - 1) : packet_queue'[i] = packet_queue[i + 1]
  /\ Len(sent') = Len(sent) + 1
  /\ \A i \in 1..Len(sent) : sent'[i] = sent[i]
  /\ sent'[Len(sent) + 1] = Fared(Front)
  /\ asking' = asking

LEMMA TurnCases ==
  ASSUME TypeOK, HandleNext
  PROVE  /\ Len(packet_queue) \in Nat \ {0} /\ turns \in 1..Len(packet_queue)
         /\ Front \in Packet
         /\ Moves \/ Departs
<1>1. /\ packet_queue \in Seq(Packet) /\ turns \in 1..Len(packet_queue)
      /\ Len(packet_queue) \in Nat \ {0} /\ packet_queue # <<>>
  BY DEF TypeOK, HandleNext
<1>2. /\ Head(packet_queue) = Front /\ Front \in Packet
      /\ Tail(packet_queue) \in Seq(Packet)
      /\ Len(Tail(packet_queue)) = Len(packet_queue) - 1
      /\ \A i \in 1..Len(Tail(packet_queue)) :
           Tail(packet_queue)[i] = packet_queue[i + 1]
  BY <1>1, HeadTailProperties DEF Front
<1>3. HandleIp(Front, Tail(packet_queue))
  BY <1>2 DEF HandleNext
<1>4. CASE Queues(Front, Tail(packet_queue))
  BY <1>1, <1>2, <1>4 DEF Queues, Moves
<1>5. CASE Sends(Front, Tail(packet_queue))
  BY <1>1, <1>2, <1>5 DEF Sends, Departs
<1>6. QED
  BY <1>1, <1>2, <1>3, <1>4, <1>5, HandleCases

\* The arrival of a packet: it is dropped, queued or sent at once.
NewPacket(dst, ttl) == [id |-> Len(arrived) + 1, dst |-> dst, ttl |-> ttl]
Arrives(dst, ttl, valid) ==
  /\ turns = 0
  /\ Len(arrived') = Len(arrived) + 1
  /\ \A i \in 1..Len(arrived) : arrived'[i] = arrived[i]
  /\ arrived'[Len(arrived) + 1] = [dst |-> dst, ttl |-> ttl, valid |-> valid,
                                   after |-> replies]

LEMMA ArrivalCases ==
  ASSUME TypeOK, NEW dst \in Dests \cup {Me}, NEW ttl \in Ttls,
         NEW valid \in BOOLEAN, ReceiveIp(dst, ttl, valid)
  PROVE  /\ Arrives(dst, ttl, valid)
         /\ NewPacket(dst, ttl) \in Packet
         /\ UNCHANGED <<arp_table, turns, unanswered, replies, introduced>>
         /\ \/ valid /\ Queues(NewPacket(dst, ttl), packet_queue)
            \/ valid /\ Sends(NewPacket(dst, ttl), packet_queue)
            \/ ~valid /\ UNCHANGED <<packet_queue, sent, asking>>
<1> DEFINE r == [dst |-> dst, ttl |-> ttl, valid |-> valid, after |-> replies]
<1>1. arrived \in Seq(Arrived) /\ packet_queue \in Seq(Packet) /\ replies \in Nat
  BY DEF TypeOK, Arrived
<1>2. ttl \in 0..255
  BY RouterAssumption
<1>3. NewPacket(dst, ttl) \in Packet
  BY <1>1, <1>2 DEF NewPacket, Packet
<1>4. r \in Arrived
  BY <1>1, <1>2 DEF Arrived
<1>5. arrived' = Append(arrived, r)
  BY DEF ReceiveIp
<1>6. Arrives(dst, ttl, valid)
  BY <1>1, <1>4, <1>5, AppendProperties DEF Arrives, ReceiveIp
<1>7. \/ valid /\ HandleIp(NewPacket(dst, ttl), packet_queue)
      \/ ~valid /\ UNCHANGED <<packet_queue, sent, asking>>
  BY DEF ReceiveIp, NewPacket
<1>8. UNCHANGED <<arp_table, turns, unanswered, replies, introduced>>
  BY DEF ReceiveIp
<1>9. QED
  BY <1>1, <1>3, <1>6, <1>7, <1>8, HandleCases

-----------------------------------------------------------------------------
(* Each packet once, in a queue that rotates.                              *)

StateTypes ==
  /\ DOMAIN packet_queue = 1..Len(packet_queue) /\ Len(packet_queue) \in Nat
  /\ DOMAIN sent = 1..Len(sent) /\ Len(sent) \in Nat
  /\ Ids = 1..Len(arrived) /\ Len(arrived) \in Nat
  /\ \A i \in 1..Len(packet_queue) :
       packet_queue[i] \in Packet /\ packet_queue[i].id \in Nat
  /\ \A i \in 1..Len(sent) : sent[i] \in Outcome /\ sent[i].id \in Nat
  /\ \A i \in 1..Len(arrived) : arrived[i] \in Arrived
  /\ turns \in 0..Len(packet_queue) /\ replies \in Nat

LEMMA Types == TypeOK => StateTypes
<1> SUFFICES ASSUME TypeOK PROVE StateTypes
  OBVIOUS
<1>1. /\ packet_queue \in Seq(Packet) /\ sent \in Seq(Outcome)
      /\ arrived \in Seq(Arrived)
  BY DEF TypeOK, Outcome, Arrived
<1>2. \A i \in 1..Len(packet_queue) : packet_queue[i] \in Packet
  BY <1>1
<1>3. \A i \in 1..Len(sent) : sent[i] \in Outcome
  BY <1>1
<1>4. \A i \in 1..Len(arrived) : arrived[i] \in Arrived
  BY <1>1
<1>5. (\A p \in Packet : p.id \in Nat) /\ (\A r \in Outcome : r.id \in Nat)
  BY DEF Packet, Outcome
<1>6. /\ DOMAIN packet_queue = 1..Len(packet_queue) /\ Len(packet_queue) \in Nat
      /\ DOMAIN sent = 1..Len(sent) /\ Len(sent) \in Nat
      /\ Ids = 1..Len(arrived) /\ Len(arrived) \in Nat
  BY <1>1 DEF Ids
<1>7. turns \in 0..Len(packet_queue) /\ replies \in Nat
  BY DEF TypeOK
<1>8. /\ \A i \in 1..Len(packet_queue) :
           packet_queue[i] \in Packet /\ packet_queue[i].id \in Nat
      /\ \A i \in 1..Len(sent) : sent[i] \in Outcome /\ sent[i].id \in Nat
  BY <1>2, <1>3, <1>5
<1>9. QED
  BY <1>4, <1>6, <1>7, <1>8 DEF StateTypes

LEMMA TypesNext == TypeOK' => StateTypes'
BY Types, PTL

\* The identifiers of the first n packets of s, and that none is there twice.
IdsOf(s, n) == {s[i].id : i \in 1..n}
Once(s, n) == \A i, j \in 1..n : s[i].id = s[j].id => i = j

LEMMA OneMore ==
  ASSUME NEW s, NEW t, NEW n \in Nat, \A i \in 1..n : t[i] = s[i]
  PROVE  /\ IdsOf(t, n + 1) = IdsOf(s, n) \cup {t[n + 1].id}
         /\ Once(s, n) /\ t[n + 1].id \notin IdsOf(s, n) => Once(t, n + 1)
<1>1. IdsOf(t, n + 1) \subseteq IdsOf(s, n) \cup {t[n + 1].id}
  BY DEF IdsOf
<1>2. IdsOf(s, n) \subseteq IdsOf(t, n + 1)
  BY DEF IdsOf
<1>3. t[n + 1].id \in IdsOf(t, n + 1)
  BY DEF IdsOf
<1>4. ASSUME Once(s, n), t[n + 1].id \notin IdsOf(s, n),
             NEW i \in 1..(n + 1), NEW j \in 1..(n + 1), t[i].id = t[j].id
      PROVE  i = j
  <2>1. \A k \in 1..n : t[k].id # t[n + 1].id
    BY <1>4 DEF IdsOf
  <2>2. CASE i \in 1..n /\ j \in 1..n
    BY <1>4, <2>2 DEF Once
  <2>3. QED
    BY <1>4, <2>1, <2>2
<1>5. QED
  BY <1>1, <1>2, <1>3, <1>4 DEF Once

LEMMA FirstGone ==
  ASSUME NEW s, NEW t, NEW n \in Nat \ {0}, Once(s, n),
         \A i \in 1..(n - 1) : t[i] = s[i + 1]
  PROVE  /\ IdsOf(t, n - 1) = IdsOf(s, n) \ {s[1].id}
         /\ Once(t, n - 1)
<1>1. ASSUME NEW i \in 1..(n - 1) PROVE t[i].id \in IdsOf(s, n) \ {s[1].id}
  <2>1. i + 1 \in 1..n /\ 1 \in 1..n /\ i + 1 # 1 /\ t[i] = s[i + 1]
    OBVIOUS
  <2>2. s[i + 1].id # s[1].id
    BY <2>1 DEF Once
  <2>3. QED
    BY <2>1, <2>2 DEF IdsOf
<1>2. ASSUME NEW i \in 1..n, s[i].id # s[1].id PROVE s[i].id \in IdsOf(t, n - 1)
  <2>1. i # 1
    BY <1>2
  <2>2. i - 1 \in 1..(n - 1) /\ t[i - 1] = s[i]
    BY <2>1
  <2>3. QED
    BY <2>2 DEF IdsOf
<1>3. IdsOf(t, n - 1) \subseteq IdsOf(s, n) \ {s[1].id}
  BY <1>1 DEF IdsOf
<1>4. IdsOf(s, n) \ {s[1].id} \subseteq IdsOf(t, n - 1)
  BY <1>2 DEF IdsOf
<1>5. ASSUME NEW i \in 1..(n - 1), NEW j \in 1..(n - 1), t[i].id = t[j].id
      PROVE  i = j
  <2>1. i + 1 \in 1..n /\ j + 1 \in 1..n /\ s[i + 1].id = s[j + 1].id
    BY <1>5
  <2>2. i + 1 = j + 1
    BY <2>1 DEF Once
  <2>3. QED
    BY <2>2
<1>6. QED
  BY <1>3, <1>4, <1>5 DEF Once

LEMMA FirstToEnd ==
  ASSUME NEW s, NEW t, NEW n \in Nat \ {0}, Once(s, n),
         \A i \in 1..(n - 1) : t[i] = s[i + 1], t[n].id = s[1].id
  PROVE  IdsOf(t, n) = IdsOf(s, n) /\ Once(t, n)
<1>1. IdsOf(t, n - 1) = IdsOf(s, n) \ {s[1].id} /\ Once(t, n - 1)
  BY FirstGone
<1>2. n - 1 \in Nat /\ (n - 1) + 1 = n
  OBVIOUS
<1>3. /\ IdsOf(t, n) = IdsOf(t, n - 1) \cup {t[n].id}
      /\ Once(t, n - 1) /\ t[n].id \notin IdsOf(t, n - 1) => Once(t, n)
  BY <1>2, OneMore
<1>4. s[1].id \in IdsOf(s, n)
  BY DEF IdsOf
<1>5. QED
  BY <1>1, <1>3, <1>4

Valid == {id \in Ids : arrived[id].valid}

OnceSplit ==
  /\ Queued = IdsOf(packet_queue, Len(packet_queue))
  /\ Done = IdsOf(sent, Len(sent))
  /\ EachPacketOnce <=> /\ Queued \cap Done = {}
                        /\ Queued \cup Done = Valid
                        /\ Once(packet_queue, Len(packet_queue))
                        /\ Once(sent, Len(sent))

LEMMA OnceEach == StateTypes => OnceSplit
<1> SUFFICES ASSUME StateTypes PROVE OnceSplit
  OBVIOUS
<1>1. DOMAIN packet_queue = 1..Len(packet_queue) /\ DOMAIN sent = 1..Len(sent)
  BY DEF StateTypes
<1>2. Queued = IdsOf(packet_queue, Len(packet_queue)) /\ Done = IdsOf(sent, Len(sent))
  BY <1>1 DEF Queued, Done, IdsOf
<1>3. QED
  BY <1>1, <1>2 DEF OnceSplit, EachPacketOnce, Once, Valid

LEMMA OnceEachNext == StateTypes' => OnceSplit'
BY OnceEach, PTL

LEMMA ArrivalKeepsPackets ==
  ASSUME TypeOK, TypeOK', PacketInv, NEW dst \in Dests \cup {Me}, NEW ttl \in Ttls,
         NEW valid \in BOOLEAN, ReceiveIp(dst, ttl, valid)
  PROVE  PacketInv'
<1> DEFINE p == NewPacket(dst, ttl)
           new == Len(arrived) + 1
           q == Len(packet_queue)
           d == Len(sent)
<1>0. StateTypes /\ StateTypes'
  BY Types, TypesNext
<1>1. /\ Arrives(dst, ttl, valid)
      /\ p \in Packet /\ p.id = new /\ p.dst = dst
      /\ UNCHANGED turns /\ turns = 0
  BY ArrivalCases DEF Arrives, NewPacket
<1>2. /\ Ids' = Ids \cup {new} /\ new \notin Ids
      /\ \A id \in Ids : arrived'[id] = arrived[id]
      /\ arrived'[new].dst = dst /\ arrived'[new].valid = valid
  BY <1>0, <1>1 DEF Arrives, StateTypes
<1>3. /\ valid => Valid' = Valid \cup {new}
      /\ ~valid => Valid' = Valid
  BY <1>2 DEF Valid
<1>4. QueueKnown /\ QueueRotates
  BY DEF PacketInv
<1>5. /\ Queued \cup Done = Valid /\ Queued \cap Done = {}
      /\ Once(packet_queue, q) /\ Once(sent, d) /\ q \in Nat /\ d \in Nat
      /\ Queued = IdsOf(packet_queue, q) /\ Done = IdsOf(sent, d)
  BY <1>0, OnceEach DEF PacketInv, StateTypes, OnceSplit
<1>6. new \notin Queued /\ new \notin Done
  BY <1>2, <1>5 DEF Valid
<1>7. \A r : Known(r, arrived) => Known(r, arrived')
  BY <1>2 DEF Known, Ids
<1>8. \A i \in 1..q : Known(packet_queue[i], arrived')
  BY <1>0, <1>4, <1>7 DEF QueueKnown, StateTypes
<1>9. CASE ~valid /\ UNCHANGED <<packet_queue, sent, asking>>
  <2>1. packet_queue' = packet_queue /\ sent' = sent
    BY <1>9
  <2>2. QueueKnown'
    BY <1>0, <1>8, <2>1 DEF QueueKnown, StateTypes
  <2>3. QueueRotates'
    BY <1>1, <1>4, <2>1 DEF QueueRotates, Ahead
  <2>4. EachPacketOnce'
    BY <1>0, <1>3, <1>5, <1>9, <2>1, OnceEachNext DEF OnceSplit
  <2>5. QED
    BY <2>2, <2>3, <2>4 DEF PacketInv
<1>10. CASE valid /\ Queues(p, packet_queue)
  <2>1. /\ Len(packet_queue') = q + 1
        /\ \A i \in 1..q : packet_queue'[i] = packet_queue[i]
        /\ packet_queue'[q + 1] = Decremented(p)
        /\ sent' = sent
        /\ DOMAIN packet_queue' = 1..(q + 1)
    BY <1>0, <1>10 DEF Queues, StateTypes
  <2> HIDE DEF p
  <2>2. Routed(p) /\ p.ttl \in 0..255 /\ p.ttl > 1 /\ p.dst # Me
    BY <1>1, <1>10 DEF Queues, Waits, Packet, Routed
  <2>3. /\ Decremented(p).id = new /\ Decremented(p).dst = dst
        /\ Decremented(p).ttl = p.ttl - 1 /\ Hop(p) \in Hops
    BY <1>1, <2>2, PacketKept, RoutedHop
  <2>a. arrived'[new].valid /\ arrived'[new].dst = dst /\ new \in DOMAIN arrived'
    <3>1. valid = TRUE /\ new \in Ids'
      BY <1>2, <1>10
    <3>2. QED
      BY <1>2, <3>1 DEF Ids
  <2>4. Known(Decremented(p), arrived')
    <3>0. Hop(Decremented(p)) = Hop(p)
      BY <1>1, <2>3 DEF Hop
    <3>1. Decremented(p).ttl > 0
      <4>1. PICK k \in Int : k = p.ttl /\ k > 1
        BY <2>2
      <4>2. Decremented(p).ttl = k - 1
        BY <2>3, <4>1
      <4>3. QED
        BY <4>1, <4>2
    <3>2. QED
      BY <1>1, <2>2, <2>3, <2>a, <3>0, <3>1 DEF Known
  <2>5. QueueKnown'
    BY <1>5, <1>8, <2>1, <2>4 DEF QueueKnown
  <2>6. \A i \in 1..q : packet_queue[i].id < new
    <3>1. DOMAIN arrived = 1..Len(arrived) /\ Len(arrived) \in Nat
          /\ DOMAIN packet_queue = 1..q
      BY <1>0 DEF StateTypes, Ids
    <3>2. \A i \in 1..q : packet_queue[i].id \in 1..Len(arrived)
      BY <1>4, <3>1 DEF QueueKnown, Known
    <3>3. QED
      BY <3>1, <3>2
  <2>7. QueueRotates'
    <3> SUFFICES ASSUME NEW i \in 1..(q + 1), NEW j \in 1..(q + 1), Ahead(i, j)'
                 PROVE  packet_queue'[i].id < packet_queue'[j].id
      BY <2>1 DEF QueueRotates
    <3>1. i < j /\ i \in 1..q /\ Ahead(i, j)
      BY <1>1, <1>5 DEF Ahead
    <3>2. CASE j = q + 1
      BY <2>1, <2>3, <2>6, <3>1, <3>2
    <3>3. CASE j # q + 1
      <4>1. j \in 1..q
        BY <1>5, <3>3
      <4>2. QED
        BY <1>0, <1>4, <2>1, <3>1, <4>1 DEF QueueRotates, StateTypes
    <3>4. QED
      BY <3>2, <3>3
  <2>8. Queued' = Queued \cup {new} /\ Once(packet_queue', q + 1)
    <3>1. /\ IdsOf(packet_queue', q + 1)
               = IdsOf(packet_queue, q) \cup {packet_queue'[q + 1].id}
          /\ Once(packet_queue, q) /\ packet_queue'[q + 1].id \notin IdsOf(packet_queue, q)
               => Once(packet_queue', q + 1)
      <4> HIDE DEF q, new
      <4> QED
        BY <1>5, <2>1, OneMore
    <3>2. /\ IdsOf(packet_queue', q + 1) = IdsOf(packet_queue, q) \cup {new}
          /\ Once(packet_queue', q + 1)
      <4> HIDE DEF q, new
      <4> QED
        BY <1>5, <1>6, <2>1, <2>3, <3>1
    <3>3. QED
      BY <1>0, <1>5, <2>1, <3>2, OnceEachNext DEF OnceSplit
  <2>9. EachPacketOnce'
    BY <1>0, <1>3, <1>5, <1>6, <1>10, <2>1, <2>8, OnceEachNext DEF OnceSplit
  <2>10. QED
    BY <2>5, <2>7, <2>9 DEF PacketInv
<1>11. CASE valid /\ Sends(p, packet_queue)
  <2>1. /\ packet_queue' = packet_queue
        /\ Len(sent') = d + 1
        /\ \A i \in 1..d : sent'[i] = sent[i]
        /\ sent'[d + 1].id = new
    BY <1>1, <1>11 DEF Sends, Fared
  <2>2. QueueKnown'
    BY <1>0, <1>8, <2>1 DEF QueueKnown, StateTypes
  <2>3. QueueRotates'
    BY <1>1, <1>4, <2>1 DEF QueueRotates, Ahead
  <2>4. Done' = Done \cup {new} /\ Once(sent', d + 1)
    <3>0. /\ IdsOf(sent', d + 1) = IdsOf(sent, d) \cup {sent'[d + 1].id}
          /\ Once(sent, d) /\ sent'[d + 1].id \notin IdsOf(sent, d)
               => Once(sent', d + 1)
      <4> HIDE DEF d, new
      <4> QED
        BY <1>5, <2>1, OneMore
    <3>1. IdsOf(sent', d + 1) = IdsOf(sent, d) \cup {new} /\ Once(sent', d + 1)
      <4> HIDE DEF d, new
      <4> QED
        BY <1>5, <1>6, <2>1, <3>0
    <3>2. QED
      BY <1>0, <1>5, <2>1, <3>1, OnceEachNext DEF OnceSplit
  <2>5. EachPacketOnce'
    BY <1>0, <1>3, <1>5, <1>6, <1>11, <2>1, <2>4, OnceEachNext DEF OnceSplit
  <2>6. QED
    BY <2>2, <2>3, <2>5 DEF PacketInv
<1>12. QED
  BY <1>9, <1>10, <1>11, ArrivalCases

LEMMA TurnKeepsPackets ==
  ASSUME TypeOK, TypeOK', PacketInv, HandleNext
  PROVE  PacketInv'
<1> DEFINE n == Len(packet_queue)
           d == Len(sent)
           id0 == packet_queue[1].id
<1>0. StateTypes /\ StateTypes'
  BY Types, TypesNext
<1>1. /\ n \in Nat \ {0} /\ turns \in 1..n /\ turns' = turns - 1
      /\ Front \in Packet /\ Front = packet_queue[1]
      /\ arrived' = arrived
  BY TurnCases DEF HandleNext, Front
<1>2. QueueKnown /\ QueueRotates
  BY DEF PacketInv
<1>3. /\ Queued \cup Done = Valid /\ Queued \cap Done = {}
      /\ Once(packet_queue, n) /\ Once(sent, d) /\ d \in Nat
      /\ Queued = IdsOf(packet_queue, n) /\ Done = IdsOf(sent, d)
  BY <1>0, OnceEach DEF PacketInv, StateTypes, OnceSplit
<1>4. Valid' = Valid /\ id0 \in Queued
  BY <1>1, <1>3 DEF Valid, Ids, IdsOf
<1>5. \A i \in 1..(n - 1) : packet_queue'[i] = packet_queue[i + 1]
  BY TurnCases DEF Moves, Departs
<1>6. \A i \in 1..n : Known(packet_queue[i], arrived) /\ packet_queue[i].id \in Nat
  BY <1>0, <1>2 DEF QueueKnown, StateTypes
<1>7. DOMAIN packet_queue = 1..n /\ DOMAIN packet_queue' = 1..Len(packet_queue')
  BY <1>0 DEF StateTypes
<1>8. CASE Moves
  <2>1. /\ Len(packet_queue') = n /\ DOMAIN packet_queue' = 1..n
        /\ packet_queue'[n] = Decremented(Front) /\ sent' = sent
    BY <1>7, <1>8 DEF Moves
  <2>2. Known(Decremented(Front), arrived) /\ Decremented(Front).id = id0
    <3>1. Routed(Front) /\ Front.ttl \in 0..255 /\ Front.ttl > 1
      BY <1>1, <1>8 DEF Moves, Waits, Routed, Packet
    <3>2. /\ Decremented(Front).id = id0 /\ Decremented(Front).dst = Front.dst
          /\ Decremented(Front).ttl = Front.ttl - 1
      BY <1>1, <3>1, PacketKept
    <3>3. Decremented(Front).ttl > 0
      <4>1. PICK k \in Int : k = Front.ttl /\ k > 1
        BY <3>1
      <4>2. Decremented(Front).ttl = k - 1
        BY <3>2, <4>1
      <4>3. QED
        BY <4>1, <4>2
    <3>4. Known(Front, arrived)
      BY <1>1, <1>6
    <3>5. QED
      BY <1>1, <3>2, <3>3, <3>4 DEF Known, Hop
  <2>3. \A k \in 1..n :
          /\ k = n => packet_queue'[k] = Decremented(Front)
          /\ k # n => packet_queue'[k] = packet_queue[k + 1] /\ k + 1 \in 1..n
    <3> TAKE k \in 1..n
    <3>1. CASE k # n
      <4>1. k \in 1..(n - 1)
        BY <1>1, <3>1
      <4>2. QED
        BY <1>1, <1>5, <3>1, <4>1
    <3>2. QED
      BY <2>1, <3>1
  <2>4. QueueKnown'
    <3> SUFFICES ASSUME NEW k \in 1..n
                 PROVE  Known(packet_queue'[k], arrived)
      BY <1>1, <2>1 DEF QueueKnown
    <3>1. QED
      BY <1>6, <2>2, <2>3
  <2>5. QueueRotates'
    <3> SUFFICES ASSUME NEW i \in 1..n, NEW j \in 1..n, Ahead(i, j)'
                 PROVE  packet_queue'[i].id < packet_queue'[j].id
      BY <2>1 DEF QueueRotates
    <3> DEFINE was(k) == IF k = n THEN 1 ELSE k + 1
    <3>1. /\ packet_queue'[i].id = packet_queue[was(i)].id /\ was(i) \in 1..n
          /\ packet_queue'[j].id = packet_queue[was(j)].id /\ was(j) \in 1..n
      BY <1>1, <2>2, <2>3
    <3>2. Ahead(was(i), was(j))
      BY <1>1 DEF Ahead
    <3>3. packet_queue[was(i)].id < packet_queue[was(j)].id
      BY <1>2, <1>7, <3>1, <3>2 DEF QueueRotates
    <3>4. QED
      BY <3>1, <3>3
  <2>6. IdsOf(packet_queue', n) = IdsOf(packet_queue, n) /\ Once(packet_queue', n)
    <3>1. packet_queue'[n].id = packet_queue[1].id
      BY <2>1, <2>2
    <3> HIDE DEF n
    <3>2. QED
      BY <1>1, <1>3, <1>5, <3>1, FirstToEnd
  <2>7. Queued' = Queued /\ Done' = Done
    BY <1>0, <1>3, <2>1, <2>6, OnceEachNext DEF OnceSplit
  <2>8. EachPacketOnce'
    BY <1>0, <1>3, <1>4, <2>1, <2>6, <2>7, OnceEachNext DEF OnceSplit
  <2>9. QED
    BY <2>4, <2>5, <2>8 DEF PacketInv
<1>9. CASE Departs
  <2>1. /\ Len(packet_queue') = n - 1 /\ DOMAIN packet_queue' = 1..(n - 1)
        /\ Len(sent') = d + 1
        /\ \A i \in 1..d : sent'[i] = sent[i]
        /\ sent'[d + 1].id = id0
    BY <1>1, <1>7, <1>9 DEF Departs, Fared
  <2>2. \A k \in 1..(n - 1) : packet_queue'[k] = packet_queue[k + 1] /\ k + 1 \in 1..n
    BY <1>1, <1>5
  <2>3. QueueKnown'
    <3> SUFFICES ASSUME NEW k \in 1..(n - 1)
                 PROVE  Known(packet_queue'[k], arrived)
      BY <1>1, <2>1 DEF QueueKnown
    <3>1. QED
      BY <1>6, <2>2
  <2>4. QueueRotates'
    <3> SUFFICES ASSUME NEW i \in 1..(n - 1), NEW j \in 1..(n - 1), Ahead(i, j)'
                 PROVE  packet_queue'[i].id < packet_queue'[j].id
      BY <2>1 DEF QueueRotates
    <3>1. Ahead(i + 1, j + 1) /\ i + 1 \in 1..n /\ j + 1 \in 1..n
      BY <1>1 DEF Ahead
    <3>2. packet_queue[i + 1].id < packet_queue[j + 1].id
      BY <1>2, <1>7, <3>1 DEF QueueRotates
    <3>3. QED
      BY <2>2, <3>2
  <2>5. /\ IdsOf(packet_queue', n - 1) = IdsOf(packet_queue, n) \ {id0}
        /\ Once(packet_queue', n - 1)
    <3> HIDE DEF n
    <3>1. QED
      BY <1>1, <1>3, <1>5, FirstGone
  <2>6. IdsOf(sent', d + 1) = IdsOf(sent, d) \cup {id0} /\ Once(sent', d + 1)
    <3>1. id0 \notin IdsOf(sent, d)
      BY <1>3, <1>4
    <3> HIDE DEF d, id0
    <3>2. /\ IdsOf(sent', d + 1) = IdsOf(sent, d) \cup {sent'[d + 1].id}
          /\ Once(sent, d) /\ sent'[d + 1].id \notin IdsOf(sent, d)
               => Once(sent', d + 1)
      BY <1>3, <2>1, OneMore
    <3>3. QED
      BY <1>3, <2>1, <3>1, <3>2
  <2>7. Queued' = Queued \ {id0} /\ Done' = Done \cup {id0}
    BY <1>0, <1>3, <2>1, <2>5, <2>6, OnceEachNext DEF OnceSplit
  <2>8. EachPacketOnce'
    BY <1>0, <1>3, <1>4, <2>1, <2>5, <2>6, <2>7, OnceEachNext DEF OnceSplit
  <2>9. QED
    BY <2>3, <2>4, <2>8 DEF PacketInv
<1>10. QED
  BY <1>8, <1>9, TurnCases

LEMMA OtherStepsKeepPackets ==
  ASSUME TypeOK, PacketInv, packet_queue' = packet_queue, sent' = sent,
         arrived' = arrived,
         turns' = turns \/ (turns = 0 /\ turns' = Len(packet_queue))
  PROVE  PacketInv'
<1>0. StateTypes
  BY Types
<1>1. QueueKnown'
  BY DEF PacketInv, QueueKnown
<1>2. \A i, j \in DOMAIN packet_queue : Ahead(i, j)' => Ahead(i, j)
  BY <1>0 DEF Ahead, StateTypes
<1>3. QueueRotates'
  BY <1>2 DEF PacketInv, QueueRotates
<1>4. Queued' = Queued /\ Done' = Done /\ Ids' = Ids
  BY DEF Queued, Done, Ids
<1>5. EachPacketOnce'
  BY <1>4 DEF PacketInv, EachPacketOnce
<1>6. QED
  BY <1>1, <1>3, <1>5 DEF PacketInv

LEMMA PacketStep == TypeOK /\ TypeOK' /\ PacketInv /\ [Next]_vars => PacketInv'
<1> SUFFICES ASSUME TypeOK, TypeOK', PacketInv, [Next]_vars PROVE PacketInv'
  OBVIOUS
<1>1. ASSUME NEW dst \in Dests \cup {Me}, NEW ttl \in Ttls, NEW valid \in BOOLEAN,
             ReceiveIp(dst, ttl, valid)
      PROVE  PacketInv'
  BY <1>1, ArrivalKeepsPackets
<1>2. ASSUME NEW h \in Hops, ReceiveArpRequest(h) PROVE PacketInv'
  <2>1. /\ packet_queue' = packet_queue /\ sent' = sent /\ arrived' = arrived
        /\ turns' = turns \/ (turns = 0 /\ turns' = Len(packet_queue))
    BY <1>2 DEF ReceiveArpRequest
  <2>2. QED
    BY <2>1, OtherStepsKeepPackets
<1>3. ASSUME NEW h \in Hops, ReceiveArpReply(h) PROVE PacketInv'
  BY <1>3, OtherStepsKeepPackets DEF ReceiveArpReply
<1>4. ASSUME NEW h \in Hops, Lose(h) PROVE PacketInv'
  <2>1. /\ packet_queue' = packet_queue /\ sent' = sent /\ arrived' = arrived
        /\ turns' = turns \/ (turns = 0 /\ turns' = Len(packet_queue))
    BY <1>4 DEF Lose
  <2>2. QED
    BY <2>1, OtherStepsKeepPackets
<1>5. CASE HandleNext
  BY <1>5, TurnKeepsPackets
<1>6. CASE UNCHANGED vars
  <2>1. /\ packet_queue' = packet_queue /\ sent' = sent /\ arrived' = arrived
        /\ turns' = turns \/ (turns = 0 /\ turns' = Len(packet_queue))
    BY <1>6 DEF vars
  <2>2. QED
    BY <2>1, OtherStepsKeepPackets
<1>7. QED
  BY <1>1, <1>2, <1>3, <1>4, <1>5, <1>6 DEF Next

LEMMA PacketInvariant == Spec => []PacketInv
<1>1. Init => PacketInv
  BY DEF Init, PacketInv, QueueKnown, QueueRotates, EachPacketOnce, Queued, Done, Ids
<1>2. QED
  BY <1>1, PacketStep, TypeCorrect, PTL DEF Spec

\* No packet is lost, doubled or made up, over any number of loops over the
\* queue.
THEOREM PacketsOnce == Spec => []EachPacketOnce
<1>1. PacketInv => EachPacketOnce
  BY DEF PacketInv
<1>2. QED
  BY <1>1, PacketInvariant, PTL

-----------------------------------------------------------------------------
(* The order of the packets for one next hop.                              *)

LEMMA TurnPushes ==
  ASSUME TypeOK, TypeOK', PushedUnknown, HandleNext
  PROVE  \A i \in DOMAIN packet_queue' :
           i > turns' => Hop(packet_queue'[i]) \notin arp_table'
<1>0. StateTypes /\ StateTypes'
  BY Types, TypesNext
<1> DEFINE n == Len(packet_queue)
<1>1. /\ n \in Nat \ {0} /\ turns \in 1..n /\ turns' = turns - 1
      /\ Front \in Packet /\ arp_table' = arp_table
      /\ DOMAIN packet_queue = 1..n /\ DOMAIN packet_queue' = 1..Len(packet_queue')
  BY <1>0, TurnCases DEF HandleNext, StateTypes
<1>2. \A i \in 1..(n - 1) : packet_queue'[i] = packet_queue[i + 1]
  BY TurnCases DEF Moves, Departs
<1>3. \A i \in 1..n : i > turns => Hop(packet_queue[i]) \notin arp_table
  BY <1>1 DEF PushedUnknown
<1>4. \A i \in 1..(n - 1) : i > turns' => Hop(packet_queue'[i]) \notin arp_table
  <2> SUFFICES ASSUME NEW i \in 1..(n - 1), i > turns'
               PROVE  Hop(packet_queue'[i]) \notin arp_table
    OBVIOUS
  <2>1. i + 1 \in 1..n /\ i + 1 > turns
    BY <1>1
  <2>2. QED
    BY <1>2, <1>3, <2>1
<1>5. CASE Departs
  <2>1. DOMAIN packet_queue' = 1..(n - 1)
    BY <1>1, <1>5 DEF Departs
  <2>2. QED
    BY <1>1, <1>4, <2>1
<1>6. CASE Moves
  <2>1. DOMAIN packet_queue' = 1..n /\ packet_queue'[n] = Decremented(Front)
    BY <1>1, <1>6 DEF Moves
  <2>2. Hop(Decremented(Front)) = Hop(Front)
    BY <1>1, PacketKept DEF Hop
  <2>3. Hop(packet_queue'[n]) \notin arp_table
    BY <1>6, <2>1, <2>2 DEF Moves, Waits
  <2>4. \A i \in 1..n : i = n \/ i \in 1..(n - 1)
    <3>1. \A m \in Nat \ {0} : \A i \in 1..m : i = m \/ i \in 1..(m - 1)
      OBVIOUS
    <3>2. QED
      BY <1>1, <3>1
  <2>5. QED
    BY <1>1, <1>4, <2>1, <2>3, <2>4
<1>7. QED
  BY <1>5, <1>6, TurnCases

LEMMA PushedStep ==
  ASSUME TypeOK, TypeOK', PushedUnknown, [Next]_vars
  PROVE  PushedUnknown'
<1>0. StateTypes /\ StateTypes'
  BY Types, TypesNext
<1>1. ASSUME NEW dst \in Dests \cup {Me}, NEW ttl \in Ttls, NEW valid \in BOOLEAN,
             ReceiveIp(dst, ttl, valid)
      PROVE  PushedUnknown'
  <2> DEFINE p == NewPacket(dst, ttl)
  <2>1. /\ turns = 0 /\ turns' = 0 /\ arp_table' = arp_table
        /\ introduced' = introduced /\ p \in Packet
    BY <1>1, ArrivalCases DEF Arrives
  <2>2. CASE packet_queue' = packet_queue
    BY <2>1, <2>2 DEF PushedUnknown
  <2>3. CASE Queues(p, packet_queue)
    <3> DEFINE n == Len(packet_queue)
    <3>1. /\ \A i \in 1..n : packet_queue'[i] = packet_queue[i]
          /\ Hop(packet_queue'[n + 1]) \notin arp_table
          /\ DOMAIN packet_queue' = 1..(n + 1) /\ DOMAIN packet_queue = 1..n
          /\ n \in Nat
      <4>1. Hop(Decremented(p)) = Hop(p)
        BY <2>1, PacketKept DEF Hop
      <4>2. QED
        BY <1>0, <2>3, <4>1 DEF Queues, Waits, StateTypes
    <3>2. QED
      BY <2>1, <3>1 DEF PushedUnknown
  <2>4. QED
    BY <1>1, <2>2, <2>3, ArrivalCases DEF Sends
<1>2. ASSUME NEW h \in Hops, ReceiveArpRequest(h) PROVE PushedUnknown'
  BY <1>2 DEF ReceiveArpRequest, PushedUnknown
<1>3. ASSUME NEW h \in Hops, ReceiveArpReply(h) PROVE PushedUnknown'
  BY <1>0, <1>3 DEF ReceiveArpReply, PushedUnknown, StateTypes
<1>4. ASSUME NEW h \in Hops, Lose(h) PROVE PushedUnknown'
  BY <1>4 DEF Lose, PushedUnknown
<1>5. CASE HandleNext
  BY <1>5, TurnPushes DEF PushedUnknown
<1>6. CASE UNCHANGED vars
  BY <1>6 DEF vars, PushedUnknown
<1>7. QED
  BY <1>1, <1>2, <1>3, <1>4, <1>5, <1>6 DEF Next

\* Packets that arrive leave the record of the earlier ones as it is.
LogGrows ==
  /\ Ids \subseteq Ids'
  /\ \A id \in Ids : arrived'[id] = arrived[id]
  /\ \A id \in Ids', last \in Ids : id < last => id \in Ids

LEMMA SentKeepsOrder ==
  ASSUME TypeOK, PacketInv, NoOvertaking, LogGrows, introduced \subseteq introduced',
         NEW i \in 1..Len(sent), \A j \in 1..i : sent'[j] = sent[j],
         NEW id \in Ids', sent'[i].as = "forward", id < sent'[i].id,
         arrived'[id].valid, arrived'[id].dst # Me,
         Hop(arrived'[id]) = Hop(arrived'[sent'[i].id])
  PROVE  \/ Hop(arrived'[id]) \in introduced'
         \/ \E j \in 1..(i - 1) : sent'[j].id = id
<1>0. StateTypes
  BY Types
<1>1. i \in DOMAIN sent /\ Len(sent) \in Nat /\ sent'[i] = sent[i]
  BY <1>0 DEF StateTypes
<1>2. sent[i].id \in Ids
  BY <1>1 DEF PacketInv, EachPacketOnce, Done
<1>3. id \in Ids /\ arrived'[id] = arrived[id]
      /\ arrived'[sent[i].id] = arrived[sent[i].id]
  BY <1>1, <1>2 DEF LogGrows
<1>4. Hop(arrived[id]) \in introduced \/ \E j \in 1..(i - 1) : sent[j].id = id
  BY <1>1, <1>3 DEF NoOvertaking
<1>5. QED
  BY <1>1, <1>3, <1>4

LEMMA NothingSentKeepsOrder ==
  ASSUME TypeOK, PacketInv, NoOvertaking, LogGrows, introduced \subseteq introduced',
         sent' = sent
  PROVE  NoOvertaking'
<1>1. DOMAIN sent = 1..Len(sent)
  BY Types DEF StateTypes
<1>2. SUFFICES ASSUME NEW i \in 1..Len(sent), NEW id \in Ids',
                      sent'[i].as = "forward", id < sent'[i].id,
                      arrived'[id].valid, arrived'[id].dst # Me,
                      Hop(arrived'[id]) = Hop(arrived'[sent'[i].id])
               PROVE  \/ Hop(arrived'[id]) \in introduced'
                      \/ \E j \in 1..(i - 1) : sent'[j].id = id
  BY <1>1 DEF NoOvertaking
<1>3. \A j \in 1..i : sent'[j] = sent[j]
  OBVIOUS
<1>4. QED
  BY <1>2, <1>3, SentKeepsOrder

LEMMA SendKeepsOrder ==
  ASSUME TypeOK, TypeOK', PacketInv, NoOvertaking, LogGrows, introduced' = introduced,
         NEW p \in Packet, ~Waits(p),
         Len(sent') = Len(sent) + 1, \A i \in 1..Len(sent) : sent'[i] = sent[i],
         sent'[Len(sent) + 1] = Fared(p),
         arrived'[p.id].dst = p.dst, \A id \in Ids' : id < p.id => id \in Ids,
         \A k \in DOMAIN packet_queue :
           /\ packet_queue[k].id < p.id
           /\ Hop(packet_queue[k]) = Hop(p) /\ Hop(p) \in arp_table
           => Hop(p) \in introduced
  PROVE  NoOvertaking'
<1> DEFINE d == Len(sent)
<1>0. StateTypes /\ StateTypes'
  BY Types, TypesNext
<1>1. DOMAIN sent' = 1..(d + 1) /\ DOMAIN sent = 1..d /\ d \in Nat
  BY <1>0 DEF StateTypes
<1>2. SUFFICES ASSUME NEW i \in 1..(d + 1), NEW id \in Ids',
                      sent'[i].as = "forward", id < sent'[i].id,
                      arrived'[id].valid, arrived'[id].dst # Me,
                      Hop(arrived'[id]) = Hop(arrived'[sent'[i].id])
               PROVE  \/ Hop(arrived'[id]) \in introduced'
                      \/ \E j \in 1..(i - 1) : sent'[j].id = id
  BY <1>1 DEF NoOvertaking
<1>3. CASE i \in 1..d
  <2>1. \A j \in 1..i : sent'[j] = sent[j]
    BY <1>1, <1>3
  <2>2. QED
    BY <1>2, <1>3, <2>1, SentKeepsOrder
<1>4. CASE i = d + 1
  <2>1. sent'[i].id = p.id /\ Routed(p)
    BY <1>2, <1>4, PacketKept DEF Fared
  <2>2. Hop(p) \in arp_table
    BY <2>1 DEF Waits
  <2>3. id \in Ids /\ id < p.id /\ arrived'[id] = arrived[id]
        /\ Hop(arrived[id]) = Hop(p)
    BY <1>2, <2>1 DEF LogGrows, Hop
  <2>4. id \in Queued \/ id \in Done
    BY <1>2, <2>3 DEF PacketInv, EachPacketOnce
  <2>5. CASE id \in Done
    <3>1. PICK j \in 1..d : sent[j].id = id
      BY <1>1, <2>5 DEF Done
    <3>2. j \in 1..(i - 1) /\ sent'[j].id = id
      BY <1>1, <1>4, <3>1
    <3>3. QED
      BY <3>2
  <2>6. CASE id \in Queued
    <3>1. PICK k \in DOMAIN packet_queue : packet_queue[k].id = id
      BY <2>6 DEF Queued
    <3>2. Hop(packet_queue[k]) = Hop(p)
      BY <2>3, <3>1 DEF PacketInv, QueueKnown, Known, Hop
    <3>3. QED
      BY <2>2, <2>3, <3>1, <3>2
  <2>7. QED
    BY <2>4, <2>5, <2>6
<1>5. QED
  BY <1>1, <1>3, <1>4

LEMMA LogStep == TypeOK /\ TypeOK' /\ [Next]_vars => LogGrows
<1> SUFFICES ASSUME TypeOK, TypeOK', [Next]_vars PROVE LogGrows
  OBVIOUS
<1>0. Ids = 1..Len(arrived) /\ Len(arrived) \in Nat /\ Ids' = 1..Len(arrived')
  BY Types, TypesNext DEF StateTypes
<1>1. CASE arrived' = arrived
  BY <1>1 DEF LogGrows, Ids
<1>2. ASSUME NEW dst \in Dests \cup {Me}, NEW ttl \in Ttls, NEW valid \in BOOLEAN,
             ReceiveIp(dst, ttl, valid)
      PROVE  LogGrows
  <2>1. /\ Len(arrived') = Len(arrived) + 1
        /\ \A i \in 1..Len(arrived) : arrived'[i] = arrived[i]
    BY <1>2, ArrivalCases DEF Arrives
  <2>2. QED
    BY <1>0, <2>1 DEF LogGrows
<1>3. QED
  BY <1>1, <1>2 DEF Next, vars, ReceiveArpRequest, ReceiveArpReply, Lose, HandleNext

LEMMA OrderStep ==
  ASSUME TypeOK, TypeOK', PacketInv, PushedUnknown, NoOvertaking, [Next]_vars
  PROVE  NoOvertaking'
<1>0. StateTypes /\ StateTypes'
  BY Types, TypesNext
<1>1. LogGrows
  BY LogStep
<1>2. ASSUME NEW dst \in Dests \cup {Me}, NEW ttl \in Ttls, NEW valid \in BOOLEAN,
             ReceiveIp(dst, ttl, valid)
      PROVE  NoOvertaking'
  <2> DEFINE p == NewPacket(dst, ttl)
  <2>1. /\ turns = 0 /\ introduced' = introduced /\ p \in Packet
        /\ p.id = Len(arrived) + 1 /\ p.dst = dst
        /\ arrived'[p.id].dst = p.dst /\ Len(arrived') = Len(arrived) + 1
    <3>0. Arrives(dst, ttl, valid) /\ introduced' = introduced /\ p \in Packet
      BY <1>2, ArrivalCases
    <3>1. /\ turns = 0 /\ Len(arrived') = Len(arrived) + 1
          /\ arrived'[Len(arrived) + 1].dst = dst
      BY <3>0 DEF Arrives
    <3>2. p.id = Len(arrived) + 1 /\ p.dst = dst
      BY DEF NewPacket
    <3>3. QED
      BY <3>0, <3>1, <3>2
  <2>2. CASE sent' = sent
    BY <1>1, <2>1, <2>2, NothingSentKeepsOrder
  <2>3. CASE Sends(p, packet_queue)
    <3> HIDE DEF p
    <3>1. /\ ~Waits(p) /\ Len(sent') = Len(sent) + 1
          /\ \A i \in 1..Len(sent) : sent'[i] = sent[i]
          /\ sent'[Len(sent) + 1] = Fared(p)
      BY <2>3 DEF Sends
    <3>2. \A id \in Ids' : id < p.id => id \in Ids
      BY <1>0, <2>1 DEF StateTypes
    <3>3. \A k \in DOMAIN packet_queue : k > turns
      BY <1>0, <2>1 DEF StateTypes
    <3>4. \A k \in DOMAIN packet_queue :
            /\ packet_queue[k].id < p.id
            /\ Hop(packet_queue[k]) = Hop(p) /\ Hop(p) \in arp_table
            => Hop(p) \in introduced
      BY <3>3 DEF PushedUnknown
    <3>5. QED
      BY <1>1, <2>1, <3>1, <3>2, <3>4, SendKeepsOrder
  <2>4. QED
    BY <1>2, <2>2, <2>3, ArrivalCases DEF Queues
<1>3. CASE HandleNext
  <2>1. /\ turns \in 1..Len(packet_queue) /\ Front \in Packet
        /\ introduced' = introduced /\ arrived' = arrived
        /\ Front = packet_queue[1] /\ Len(packet_queue) \in Nat \ {0}
    BY <1>3, TurnCases DEF HandleNext, Front
  <2>2. CASE Moves
    BY <1>1, <2>1, <2>2, NothingSentKeepsOrder DEF Moves
  <2>3. CASE Departs
    <3>1. /\ ~Waits(Front) /\ Len(sent') = Len(sent) + 1
          /\ \A i \in 1..Len(sent) : sent'[i] = sent[i]
          /\ sent'[Len(sent) + 1] = Fared(Front)
      BY <2>3 DEF Departs
    <3>2. arrived'[Front.id].dst = Front.dst /\ Front.id \in Ids
      BY <1>0, <2>1 DEF PacketInv, QueueKnown, Known, StateTypes, Ids
    <3>3. \A id \in Ids' : id < Front.id => id \in Ids
      BY <2>1 DEF Ids
    <3>4. ASSUME NEW k \in DOMAIN packet_queue, packet_queue[k].id < Front.id,
                 Hop(packet_queue[k]) = Hop(Front), Hop(Front) \in arp_table
          PROVE  FALSE
      <4>1. k \in 1..Len(packet_queue) /\ k # 1 /\ packet_queue[k].id \in Nat
            /\ Front.id \in Nat
        BY <1>0, <2>1, <3>4 DEF StateTypes
      <4>2. k > turns
        <5> SUFFICES ASSUME k <= turns PROVE FALSE
          BY <2>1, <4>1
        <5>1. Ahead(1, k)
          BY <2>1, <4>1 DEF Ahead
        <5>a. /\ \A i, j \in DOMAIN packet_queue :
                   Ahead(i, j) => packet_queue[i].id < packet_queue[j].id
              /\ DOMAIN packet_queue = 1..Len(packet_queue)
          BY <1>0 DEF PacketInv, QueueRotates, StateTypes
        <5>b. 1 \in DOMAIN packet_queue
          BY <2>1, <5>a
        <5>2. Front.id < packet_queue[k].id
          BY <2>1, <5>a, <5>b, <5>1
        <5>3. QED
          BY <3>4, <4>1, <5>2
      <4>3. turns # 0
        BY <2>1
      <4>4. QED
        BY <3>4, <4>2, <4>3 DEF PushedUnknown
    <3>5. QED
      BY <1>1, <2>1, <3>1, <3>2, <3>3, <3>4, SendKeepsOrder
  <2>4. QED
    BY <1>3, <2>2, <2>3, TurnCases
<1>4. CASE sent' = sent /\ introduced \subseteq introduced'
  BY <1>1, <1>4, NothingSentKeepsOrder
<1>5. QED
  BY <1>2, <1>3, <1>4 DEF Next, vars, ReceiveArpRequest, ReceiveArpReply, Lose

LEMMA OrderInvariant == Spec => [](PushedUnknown /\ NoOvertaking)
<1>1. Init => PushedUnknown /\ NoOvertaking
  BY DEF Init, PushedUnknown, NoOvertaking
<1>2. TypeOK /\ TypeOK' /\ PacketInv /\ PushedUnknown /\ NoOvertaking /\ [Next]_vars
      => (PushedUnknown /\ NoOvertaking)'
  BY PushedStep, OrderStep
<1>3. QED
  BY <1>1, <1>2, TypeCorrect, PacketInvariant, PTL DEF Spec

\* Packets for one next hop are forwarded in the order they came, unless that
\* hop introduced itself while some waited for it.
THEOREM OrderKept == Spec => []NoOvertaking
BY OrderInvariant, PTL

-----------------------------------------------------------------------------
(* What waiting costs.                                                     *)

\* p has paid for its push and for the replies up to the r-th, or has yet to
\* pay for the last of these.
Paid(p, log, r) ==
  log[p.id].ttl - p.ttl = 1 + r - log[p.id].after /\ log[p.id].after <= r
Owes(p, log, r) ==
  log[p.id].ttl - p.ttl = 1 + (r - 1) - log[p.id].after /\ log[p.id].after <= r

LEMMA OwesOneMore ==
  ASSUME NEW p, NEW log \in Seq(Arrived), p.id \in DOMAIN log,
         NEW r \in Nat, Paid(p, log, r - 1)
  PROVE  Owes(p, log, r)
<1>1. log[p.id] \in Arrived
  BY ElementOfSeq
<1>2. log[p.id].after \in Nat
  BY <1>1 DEF Arrived
<1>3. \A x, y \in Nat : x <= y - 1 => x <= y
  OBVIOUS
<1>4. QED
  BY <1>2, <1>3 DEF Paid, Owes

LEMMA PaysAnew ==
  ASSUME NEW p \in Packet, NEW log \in Seq(Arrived), p.id \in DOMAIN log,
         NEW r \in Nat, Owes(p, log, r), Routed(p)
  PROVE  /\ Paid(Decremented(p), log, r) /\ Decremented(p).ttl > 0
         /\ Decremented(p).ttl \in Int
<1>1. log[p.id] \in Arrived
  BY ElementOfSeq
<1>a. ASSUME NEW x \in Arrived PROVE x.ttl \in Int /\ x.after \in Int
  <2>1. x.ttl \in 0..255
    BY DEF Arrived
  <2>2. x.after \in Nat
    BY DEF Arrived
  <2>3. \A z \in 0..255 : z \in Int
    OBVIOUS
  <2>4. \A z \in Nat : z \in Int
    OBVIOUS
  <2>5. QED
    BY <2>1, <2>2, <2>3, <2>4, Zenon
<1>2. PICK t \in Int, a \in Int : t = log[p.id].ttl /\ a = log[p.id].after
  BY <1>1, <1>a
<1>3. PICK k \in Int : k = p.ttl /\ k > 1
  BY DEF Packet, Routed
<1>4. Decremented(p).id = p.id /\ Decremented(p).ttl = k - 1
  BY <1>3, PacketKept
<1>5. t - k = 1 + (r - 1) - a /\ a <= r
  BY <1>2, <1>3 DEF Owes
<1>6. t - (k - 1) = 1 + r - a
  <2>1. \A w, x, y, z \in Int : w - x = 1 + (y - 1) - z => w - (x - 1) = 1 + y - z
    OBVIOUS
  <2>2. t \in Int /\ k \in Int /\ r \in Int /\ a \in Int
    BY <1>2, <1>3
  <2>3. QED
    BY <1>5, <2>1, <2>2
<1>7. Paid(Decremented(p), log, r)
  BY <1>2, <1>4, <1>5, <1>6 DEF Paid
<1>8. QED
  BY <1>3, <1>4, <1>7

WaitingPays ==
  \A i \in DOMAIN packet_queue :
    Paid(packet_queue[i], arrived, IF i <= turns THEN replies - 1 ELSE replies)
LeavingPays ==
  \A i \in DOMAIN sent :
    sent[i].as = "forward" =>
      sent[i].ttl > 0 /\ Paid(sent[i], arrived, sent[i].after)

LEMMA CostStep ==
  ASSUME TypeOK, TypeOK', PacketInv, WaitingPays, LeavingPays, [Next]_vars
  PROVE  WaitingPays' /\ LeavingPays'
<1> DEFINE n == Len(packet_queue)
           d == Len(sent)
<1>0. StateTypes /\ StateTypes' /\ LogGrows
  BY Types, TypesNext, LogStep
<1>1. /\ DOMAIN packet_queue = 1..n /\ DOMAIN sent = 1..d /\ n \in Nat /\ d \in Nat
      /\ DOMAIN packet_queue' = 1..Len(packet_queue') /\ DOMAIN sent' = 1..Len(sent')
      /\ turns \in 0..n /\ replies \in Nat
      /\ arrived' \in Seq(Arrived) /\ arrived \in Seq(Arrived)
  BY <1>0 DEF StateTypes, TypeOK, Arrived
<1>2. \A p, r : p.id \in Ids /\ Paid(p, arrived, r) => Paid(p, arrived', r)
  BY <1>0 DEF Paid, LogGrows
<1>3. \A i \in 1..n : packet_queue[i] \in Packet /\ packet_queue[i].id \in Ids
  BY <1>0 DEF PacketInv, QueueKnown, Known, Ids, StateTypes
<1>4. \A i \in 1..d : sent[i].id \in Ids
  BY <1>1 DEF PacketInv, EachPacketOnce, Done
<1>5. \A i \in 1..d : sent[i].as = "forward" =>
        sent[i].ttl > 0 /\ Paid(sent[i], arrived', sent[i].after)
  BY <1>1, <1>2, <1>4 DEF LeavingPays
<1>6. \A i \in 1..n : Paid(packet_queue[i], arrived',
                           IF i <= turns THEN replies - 1 ELSE replies)
  BY <1>1, <1>2, <1>3 DEF WaitingPays
<1>7. ASSUME NEW p \in Packet, p.id \in Ids', Owes(p, arrived', replies),
             Len(sent') = d + 1, \A i \in 1..d : sent'[i] = sent[i],
             sent'[d + 1] = Fared(p)
      PROVE  LeavingPays'
  <2> SUFFICES ASSUME NEW i \in 1..(d + 1), sent'[i].as = "forward"
               PROVE  sent'[i].ttl > 0 /\ Paid(sent'[i], arrived', sent'[i].after)
    BY <1>1, <1>7 DEF LeavingPays
  <2>1. CASE i \in 1..d
    BY <1>5, <1>7, <2>1
  <2>2. CASE i = d + 1
    <3>1. /\ sent'[i].id = Decremented(p).id /\ sent'[i].ttl = Decremented(p).ttl
          /\ sent'[i].after = replies /\ Fate(p) = "forward"
      BY <1>7, <2>2, PacketKept DEF Fared
    <3>2. Paid(Decremented(p), arrived', replies) /\ Decremented(p).ttl > 0
      BY <1>1, <1>7, <3>1, PacketKept, PaysAnew DEF Ids
    <3>3. QED
      BY <3>1, <3>2 DEF Paid
  <2>3. QED
    BY <1>1, <2>1, <2>2
<1>8. ASSUME NEW dst \in Dests \cup {Me}, NEW ttl \in Ttls, NEW valid \in BOOLEAN,
             ReceiveIp(dst, ttl, valid)
      PROVE  WaitingPays' /\ LeavingPays'
  <2> DEFINE p == NewPacket(dst, ttl)
  <2>1. /\ turns = 0 /\ turns' = 0 /\ replies' = replies /\ p \in Packet
        /\ Arrives(dst, ttl, valid)
    BY <1>8, ArrivalCases DEF Arrives
  <2>2. /\ p.id = Len(arrived) + 1 /\ p.ttl = ttl /\ ttl \in Int
        /\ arrived'[p.id].ttl = ttl /\ arrived'[p.id].after = replies
        /\ p.id \in Ids'
    <3>1. p.id = Len(arrived) + 1 /\ p.ttl = ttl
      BY DEF NewPacket
    <3>2. ttl \in Int
      BY RouterAssumption
    <3>3. /\ arrived'[Len(arrived) + 1].ttl = ttl
          /\ arrived'[Len(arrived) + 1].after = replies
          /\ Len(arrived') = Len(arrived) + 1
      BY <2>1 DEF Arrives
    <3>4. Len(arrived) + 1 \in Ids'
      BY <1>0, <3>3 DEF StateTypes
    <3>5. QED
      BY <3>1, <3>2, <3>3, <3>4
  <2>a. \/ packet_queue' = packet_queue /\ sent' = sent
        \/ Queues(p, packet_queue) \/ Sends(p, packet_queue)
    BY <1>8, ArrivalCases
  <2> HIDE DEF p
  <2>3. Owes(p, arrived', replies)
    BY <1>1, <2>2 DEF Owes
  <2>4. ASSUME packet_queue' = packet_queue PROVE WaitingPays'
    <3>1. \A i \in 1..n : Paid(packet_queue[i], arrived', replies)
      BY <1>1, <1>6, <2>1
    <3>2. DOMAIN packet_queue' = 1..n
      BY <1>1, <2>4
    <3>3. SUFFICES ASSUME NEW i \in 1..n
                   PROVE  Paid(packet_queue[i], arrived',
                               IF i <= turns' THEN replies' - 1 ELSE replies')
      BY <2>4, <3>2 DEF WaitingPays
    <3>4. ~(i <= turns') /\ replies' = replies
      BY <1>1, <2>1
    <3>5. QED
      BY <3>1, <3>4
  <2>5. ASSUME sent' = sent PROVE LeavingPays'
    <3>1. DOMAIN sent' = 1..d
      BY <1>1, <2>5
    <3>2. SUFFICES ASSUME NEW i \in 1..d, sent[i].as = "forward"
                   PROVE  sent[i].ttl > 0 /\ Paid(sent[i], arrived', sent[i].after)
      BY <2>5, <3>1 DEF LeavingPays
    <3>3. QED
      BY <1>5, <3>2
  <2>6. CASE Queues(p, packet_queue)
    <3>1. Paid(Decremented(p), arrived', replies)
      BY <1>1, <2>1, <2>2, <2>3, <2>6, PaysAnew DEF Queues, Waits, Ids
    <3>2. /\ \A i \in 1..n : packet_queue'[i] = packet_queue[i]
          /\ packet_queue'[n + 1] = Decremented(p) /\ Len(packet_queue') = n + 1
          /\ sent' = sent
      BY <2>6 DEF Queues
    <3>3. \A i \in 1..(n + 1) : Paid(packet_queue'[i], arrived', replies)
      <4> TAKE i \in 1..(n + 1)
      <4>1. CASE i \in 1..n
        BY <1>6, <2>1, <3>2, <4>1
      <4>2. CASE i = n + 1
        BY <3>1, <3>2, <4>2
      <4>3. QED
        BY <1>1, <4>1, <4>2
    <3>4. WaitingPays'
      BY <1>1, <2>1, <3>2, <3>3 DEF WaitingPays
    <3>5. QED
      BY <2>5, <3>2, <3>4
  <2>7. CASE Sends(p, packet_queue)
    <3>1. /\ packet_queue' = packet_queue /\ Len(sent') = d + 1
          /\ \A i \in 1..d : sent'[i] = sent[i]
          /\ sent'[d + 1] = Fared(p)
      BY <2>7 DEF Sends
    <3>2. LeavingPays'
      BY <1>7, <2>1, <2>2, <2>3, <3>1
    <3>3. QED
      BY <2>4, <3>1, <3>2
  <2>8. QED
    BY <2>a, <2>4, <2>5, <2>6, <2>7
<1>9. CASE HandleNext
  <2>1. /\ turns \in 1..n /\ turns' = turns - 1 /\ Front \in Packet
        /\ Front = packet_queue[1] /\ arrived' = arrived /\ replies' = replies
        /\ n \in Nat \ {0}
    BY <1>9, TurnCases DEF HandleNext, Front
  <2>2. Owes(Front, arrived', replies) /\ Front.id \in Ids'
    <3>1. Paid(Front, arrived', replies - 1) /\ Front.id \in Ids'
      BY <1>3, <1>6, <2>1 DEF Ids
    <3>2. QED
      BY <1>1, <3>1, OwesOneMore DEF Ids
  <2>3. \A i \in 1..(n - 1) :
          /\ packet_queue'[i] = packet_queue[i + 1]
          /\ Paid(packet_queue'[i], arrived',
                  IF i <= turns' THEN replies - 1 ELSE replies)
    <3> TAKE i \in 1..(n - 1)
    <3>1. packet_queue'[i] = packet_queue[i + 1]
      BY <1>9, TurnCases DEF Moves, Departs
    <3>2. i + 1 \in 1..n /\ (i + 1 <= turns <=> i <= turns')
      BY <2>1
    <3>3. QED
      BY <1>6, <3>1, <3>2
  <2>4. CASE Moves
    <3>1. Paid(Decremented(Front), arrived', replies)
      BY <1>1, <2>1, <2>2, <2>4, PaysAnew DEF Moves, Waits, Ids
    <3>2. /\ packet_queue'[n] = Decremented(Front) /\ Len(packet_queue') = n
          /\ sent' = sent /\ ~(n <= turns')
      BY <2>1, <2>4 DEF Moves
    <3>3. \A i \in 1..n : i = n \/ i \in 1..(n - 1)
      <4>1. \A m \in Nat \ {0} : \A i \in 1..m : i = m \/ i \in 1..(m - 1)
        OBVIOUS
      <4>2. QED
        BY <2>1, <4>1
    <3>4. WaitingPays'
      BY <1>1, <2>1, <2>3, <3>1, <3>2, <3>3 DEF WaitingPays
    <3>5. LeavingPays'
      BY <1>1, <1>5, <3>2 DEF LeavingPays
    <3>6. QED
      BY <3>4, <3>5
  <2>5. CASE Departs
    <3>1. LeavingPays'
      BY <1>7, <2>1, <2>2, <2>5 DEF Departs
    <3>2. DOMAIN packet_queue' = 1..(n - 1)
      BY <1>1, <2>5 DEF Departs
    <3>3. WaitingPays'
      BY <2>1, <2>3, <3>2 DEF WaitingPays
    <3>4. QED
      BY <3>1, <3>3
  <2>6. QED
    BY <1>9, <2>4, <2>5, TurnCases
<1>10. ASSUME NEW h \in Hops, ReceiveArpReply(h) PROVE WaitingPays' /\ LeavingPays'
  <2>1. /\ turns = 0 /\ turns' = n /\ replies' = replies + 1
        /\ packet_queue' = packet_queue /\ sent' = sent /\ arrived' = arrived
    BY <1>10 DEF ReceiveArpReply
  <2>2. WaitingPays'
    BY <1>1, <1>6, <2>1 DEF WaitingPays
  <2>3. QED
    BY <1>1, <1>5, <2>1, <2>2 DEF LeavingPays
<1>11. CASE UNCHANGED <<packet_queue, turns, sent, arrived, replies>>
  BY <1>11 DEF WaitingPays, LeavingPays
<1>12. QED
  BY <1>8, <1>9, <1>10, <1>11 DEF Next, vars, ReceiveArpRequest, Lose

LEMMA PaidIsYounger ==
  ASSUME NEW p, NEW log \in Seq(Arrived), p.id \in DOMAIN log, NEW r \in Nat,
         p.ttl \in Nat, p.ttl > 0,
         Paid(p, log, r) \/ Paid(p, log, r - 1)
  PROVE  /\ p.ttl \in 1..(log[p.id].ttl - 1)
         /\ Paid(p, log, r) /\ r = log[p.id].after => p.ttl = log[p.id].ttl - 1
<1>1. log[p.id] \in Arrived
  BY ElementOfSeq
<1>2. PICK t \in 0..255, a \in Nat : t = log[p.id].ttl /\ a = log[p.id].after
  BY <1>1 DEF Arrived
<1>3. PICK k \in Nat : k = p.ttl /\ k > 0
  OBVIOUS
<1>4. \/ t - k = 1 + r - a /\ a <= r
      \/ t - k = 1 + (r - 1) - a /\ a <= r - 1
  BY <1>2, <1>3 DEF Paid
<1>5. k \in 1..(t - 1)
  BY <1>3, <1>4
<1>6. ASSUME Paid(p, log, r), r = log[p.id].after PROVE k = t - 1
  <2>1. t - k = 1 + r - a /\ r = a
    BY <1>2, <1>3, <1>6 DEF Paid
  <2>2. QED
    BY <2>1
<1>7. QED
  BY <1>2, <1>3, <1>5, <1>6

\* What waits and what is forwarded is younger than it came, and alive: by one
\* hop if no reply was handled between.
THEOREM TtlKept == Spec => []TtlNeverWraps
<1>1. Init => WaitingPays /\ LeavingPays
  BY DEF Init, WaitingPays, LeavingPays
<1>2. TypeOK /\ TypeOK' /\ PacketInv /\ (WaitingPays /\ LeavingPays) /\ [Next]_vars
      => (WaitingPays /\ LeavingPays)'
  BY CostStep
<1>3. TypeOK /\ PacketInv /\ WaitingPays /\ LeavingPays => TtlNeverWraps
  <2> SUFFICES ASSUME TypeOK, PacketInv, WaitingPays, LeavingPays
               PROVE  TtlNeverWraps
    OBVIOUS
  <2>1. StateTypes /\ arrived \in Seq(Arrived) /\ replies \in Nat
    BY Types DEF TypeOK, Arrived
  <2>2. ASSUME NEW i \in DOMAIN packet_queue
        PROVE  packet_queue[i].ttl \in 1..(arrived[packet_queue[i].id].ttl - 1)
    <3>1. packet_queue[i] \in Packet /\ packet_queue[i].ttl > 0
          /\ packet_queue[i].id \in DOMAIN arrived
      BY <2>1 DEF PacketInv, QueueKnown, Known, StateTypes
    <3>2. packet_queue[i].ttl \in Nat
      BY <3>1 DEF Packet
    <3>3. \/ Paid(packet_queue[i], arrived, replies)
          \/ Paid(packet_queue[i], arrived, replies - 1)
      BY DEF WaitingPays
    <3>4. QED
      BY <2>1, <3>1, <3>2, <3>3, PaidIsYounger
  <2>3. ASSUME NEW i \in DOMAIN sent, sent[i].as = "forward"
        PROVE  /\ sent[i].ttl \in 1..(arrived[sent[i].id].ttl - 1)
               /\ sent[i].after = arrived[sent[i].id].after
                    => sent[i].ttl = arrived[sent[i].id].ttl - 1
    <3>1. sent[i] \in Outcome
      BY <2>1 DEF StateTypes
    <3>2. sent[i].ttl \in Nat /\ sent[i].after \in Nat
      BY <3>1 DEF Outcome
    <3>3. sent[i].ttl > 0 /\ Paid(sent[i], arrived, sent[i].after)
      BY <2>3 DEF LeavingPays
    <3>4. sent[i].id \in DOMAIN arrived
      BY DEF PacketInv, EachPacketOnce, Done, Ids
    <3>5. QED
      BY <2>1, <3>2, <3>3, <3>4, PaidIsYounger
  <2>4. QED
    BY <2>2, <2>3 DEF TtlNeverWraps
<1>4. QED
  BY <1>1, <1>2, <1>3, TypeCorrect, PacketInvariant, PTL DEF Spec

-----------------------------------------------------------------------------
(* The requests that those who wait rely on.                               *)

\* There is somebody to wake the packet in place i.
Wakes(i) ==
  \/ asking[Hop(packet_queue[i])] > 0
  \/ Hop(packet_queue[i]) \in unanswered
  \/ i <= turns /\ Hop(packet_queue[i]) \in arp_table

LEMMA HopAsked ==
  ASSUME NEW p \in Packet, Waits(p)
  PROVE  Hop(p) \in Hops /\ Hop(Decremented(p)) = Hop(p)
BY RoutedHop, PacketKept DEF Waits, Hop

\* A step that asks for one hop more, and forgets no loss and no address.
LEMMA StillWoken ==
  ASSUME NEW i, NEW j, packet_queue'[j] = packet_queue[i], Wakes(i),
         Hop(packet_queue[i]) \in Hops,
         arp_table \subseteq arp_table', unanswered \subseteq unanswered',
         i <= turns => j <= turns',
         \A h \in Hops : asking[h] > 0 => asking'[h] > 0
  PROVE  Wakes(j)'
<1>1. Hop(packet_queue'[j]) = Hop(packet_queue[i])
  OBVIOUS
<1>2. QED
  BY <1>1 DEF Wakes

LEMMA AskingGrows ==
  ASSUME asking \in [Hops -> Nat], NEW g \in Hops,
         asking' = asking \/ asking' = [asking EXCEPT ![g] = @ + 1]
  PROVE  \A h \in Hops : asking[h] > 0 => asking'[h] > 0
OBVIOUS

LEMMA WakeStep ==
  ASSUME TypeOK, TypeOK', PacketInv, WaitingIsAsked, [Next]_vars
  PROVE  WaitingIsAsked'
<1> DEFINE n == Len(packet_queue)
           WokenAll == \A i \in 1..n : Wakes(i)
<1>0. StateTypes /\ StateTypes'
  BY Types, TypesNext
<1>1. /\ n \in Nat /\ turns \in 0..n /\ DOMAIN packet_queue = 1..n
      /\ asking \in [Hops -> Nat] /\ asking' \in [Hops -> Nat]
      /\ DOMAIN packet_queue' = 1..Len(packet_queue') /\ turns' \in Nat
  BY <1>0 DEF StateTypes, TypeOK
<1>2. \A i \in 1..n : Hop(packet_queue[i]) \in Hops /\ Wakes(i)
  BY <1>1 DEF PacketInv, QueueKnown, Known, WaitingIsAsked, Wakes
<1>3. SUFFICES \A j \in 1..Len(packet_queue') : Wakes(j)'
  BY <1>1 DEF WaitingIsAsked, Wakes
<1>4. ASSUME NEW dst \in Dests \cup {Me}, NEW ttl \in Ttls, NEW valid \in BOOLEAN,
             ReceiveIp(dst, ttl, valid), NEW j \in 1..Len(packet_queue')
      PROVE  Wakes(j)'
  <2> DEFINE p == NewPacket(dst, ttl)
  <2>1. /\ turns' = turns /\ arp_table' = arp_table /\ unanswered' = unanswered
        /\ p \in Packet
        /\ \/ packet_queue' = packet_queue /\ asking' = asking
           \/ Queues(p, packet_queue)
    BY <1>4, ArrivalCases DEF Sends
  <2> HIDE DEF p
  <2>2. CASE packet_queue' = packet_queue /\ asking' = asking
    BY <1>2, <1>4, <2>1, <2>2 DEF Wakes
  <2>3. CASE Queues(p, packet_queue)
    <3>1. /\ Len(packet_queue') = n + 1 /\ packet_queue'[n + 1] = Decremented(p)
          /\ \A i \in 1..n : packet_queue'[i] = packet_queue[i]
          /\ asking' = [asking EXCEPT ![Hop(p)] = @ + 1]
          /\ Hop(p) \in Hops /\ Hop(Decremented(p)) = Hop(p)
      BY <2>1, <2>3, HopAsked DEF Queues
    <3>2. CASE j = n + 1
      BY <1>1, <3>1, <3>2 DEF Wakes
    <3>3. CASE j \in 1..n
      BY <1>1, <1>2, <2>1, <3>1, <3>3, AskingGrows, StillWoken
    <3>4. QED
      BY <1>1, <1>4, <3>1, <3>2, <3>3
  <2>4. QED
    BY <2>1, <2>2, <2>3
<1>5. ASSUME NEW g \in Hops, ReceiveArpRequest(g), NEW j \in 1..Len(packet_queue')
      PROVE  Wakes(j)'
  BY <1>2, <1>5 DEF ReceiveArpRequest, Wakes
<1>6. ASSUME NEW g \in Hops, ReceiveArpReply(g), NEW j \in 1..Len(packet_queue')
      PROVE  Wakes(j)'
  <2>1. /\ packet_queue' = packet_queue /\ turns' = n
        /\ arp_table' = arp_table \cup {g} /\ unanswered' = unanswered
        /\ asking' = [asking EXCEPT ![g] = @ - 1]
    BY <1>6 DEF ReceiveArpReply
  <2>2. j \in 1..n
    BY <1>6, <2>1
  <2>3. Hop(packet_queue[j]) \in Hops /\ Wakes(j)
    BY <1>2, <2>2
  <2>4. CASE Hop(packet_queue[j]) = g
    BY <1>1, <2>1, <2>2, <2>4 DEF Wakes
  <2>5. CASE Hop(packet_queue[j]) # g
    <3>1. asking'[Hop(packet_queue[j])] = asking[Hop(packet_queue[j])]
      BY <1>1, <2>1, <2>3, <2>5
    <3>2. j <= n
      BY <1>1, <2>2
    <3>3. QED
      BY <2>1, <2>3, <3>1, <3>2 DEF Wakes
  <2>6. QED
    BY <2>4, <2>5
<1>7. ASSUME NEW g \in Hops, Lose(g), NEW j \in 1..Len(packet_queue')
      PROVE  Wakes(j)'
  <2>1. /\ packet_queue' = packet_queue /\ turns' = turns
        /\ arp_table' = arp_table /\ unanswered' = unanswered \cup {g}
        /\ asking' = [asking EXCEPT ![g] = @ - 1]
    BY <1>7 DEF Lose
  <2>2. Hop(packet_queue[j]) \in Hops /\ Wakes(j)
    BY <1>2, <1>7, <2>1
  <2>3. CASE Hop(packet_queue[j]) = g
    BY <2>1, <2>3 DEF Wakes
  <2>4. CASE Hop(packet_queue[j]) # g
    <3>1. asking'[Hop(packet_queue[j])] = asking[Hop(packet_queue[j])]
      BY <1>1, <2>1, <2>2, <2>4
    <3>2. QED
      BY <2>1, <2>2, <3>1 DEF Wakes
  <2>5. QED
    BY <2>3, <2>4
<1>8. ASSUME HandleNext, NEW j \in 1..Len(packet_queue') PROVE Wakes(j)'
  <2>1. /\ turns \in 1..n /\ turns' = turns - 1 /\ Front \in Packet
        /\ n \in Nat \ {0} /\ arp_table' = arp_table /\ unanswered' = unanswered
    BY <1>8, TurnCases DEF HandleNext
  <2>2. ASSUME packet_queue'[j] = packet_queue[j + 1], j \in 1..(n - 1),
               \A h \in Hops : asking[h] > 0 => asking'[h] > 0
        PROVE  Wakes(j)'
    <3>1. j + 1 \in 1..n /\ (j + 1 <= turns => j <= turns')
      BY <2>1, <2>2
    <3>2. Hop(packet_queue[j + 1]) \in Hops /\ Wakes(j + 1)
      BY <1>2, <3>1
    <3> DEFINE i == j + 1
    <3>3. packet_queue'[j] = packet_queue[i] /\ Wakes(i)
          /\ Hop(packet_queue[i]) \in Hops /\ (i <= turns => j <= turns')
      BY <2>2, <3>1, <3>2
    <3> HIDE DEF i
    <3>4. QED
      BY <2>1, <2>2, <3>3, StillWoken
  <2>3. CASE Moves
    <3>1. /\ Len(packet_queue') = n /\ packet_queue'[n] = Decremented(Front)
          /\ \A i \in 1..(n - 1) : packet_queue'[i] = packet_queue[i + 1]
          /\ asking' = [asking EXCEPT ![Hop(Front)] = @ + 1]
          /\ Hop(Front) \in Hops /\ Hop(Decremented(Front)) = Hop(Front)
      BY <2>1, <2>3, HopAsked DEF Moves
    <3>2. CASE j = n
      BY <1>1, <3>1, <3>2 DEF Wakes
    <3>3. CASE j \in 1..(n - 1)
      BY <1>1, <2>2, <3>1, <3>3, AskingGrows
    <3>4. QED
      BY <1>8, <2>1, <3>1, <3>2, <3>3
  <2>4. CASE Departs
    <3>1. /\ Len(packet_queue') = n - 1 /\ asking' = asking
          /\ \A i \in 1..(n - 1) : packet_queue'[i] = packet_queue[i + 1]
      BY <2>4 DEF Departs
    <3>2. QED
      BY <1>8, <2>2, <3>1
  <2>5. QED
    BY <1>8, <2>3, <2>4, TurnCases
<1>9. ASSUME UNCHANGED vars, NEW j \in 1..Len(packet_queue') PROVE Wakes(j)'
  BY <1>2, <1>9 DEF vars, Wakes
<1>10. QED
  BY <1>4, <1>5, <1>6, <1>7, <1>8, <1>9 DEF Next

\* For every packet that waits there is a request on its way, or one was lost,
\* or the loop is about to let it go.
THEOREM WaitingAsked == Spec => []WaitingIsAsked
<1>1. Init => WaitingIsAsked
  BY DEF Init, WaitingIsAsked
<1>2. QED
  BY <1>1, WakeStep, TypeCorrect, PacketInvariant, PTL DEF Spec

-----------------------------------------------------------------------------
\* Whatever the order of the links does is done by a router that reads its
\* frames in any order.
THEOREM LinksOnlyDelay == LinksSpec => Spec
<1>1. LinksInit => Init
  BY DEF LinksInit
<1>2. [LinksNext]_linksVars => [Next]_vars
  <2> SUFFICES ASSUME [LinksNext]_linksVars PROVE [Next]_vars
    OBVIOUS
  <2>1. ASSUME NEW k \in 0..LastLink, Flood(k) PROVE UNCHANGED vars
    BY <2>1 DEF Flood
  <2>2. CASE UNCHANGED linksVars
    BY <2>2 DEF linksVars
  <2>3. QED
    BY <2>1, <2>2 DEF LinksNext, ReadReply, Next
<1>3. QED
  BY <1>1, <1>2, PTL DEF LinksSpec, Spec

=============================================================================
