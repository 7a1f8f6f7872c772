---------------------------- MODULE BrokerProofs ----------------------------
(* What holds of Broker for any clients, identifiers, topics and bounds.   *)
(* The first half holds whatever the users do and whether or not clients   *)
(* are killed; the second, from FdInv on, while users take turns and       *)
(* nobody is killed, and ends in the refinement of Mailboxes.              *)
EXTENDS BrokerKilled, BrokerRefinement, BrokerKeyboard, FiniteSetTheorems, TLAPS

\* Sequences stay sequences when an element is taken out.
LEMMA RemoveAtType ==
  ASSUME NEW S, NEW s \in Seq(S), NEW i \in DOMAIN s
  PROVE  RemoveAt(s, i) \in Seq(S)
BY DEF RemoveAt

\* What is sent arrives as sequences of notifications.
LEMMA ForwardedType ==
  ASSUME TypeOK, NEW S \in SUBSET AllIds, NEW n \in Nat
  PROVE  Forwarded(S, n) \in [Clients -> Seq(Nat)]
<1>1. ASSUME NEW c \in Clients
      PROVE  Cardinality({id \in S : c \in Holders(socketfd[id])}) \in Nat
  <2>1. IsFiniteSet(AllIds)
    BY FS_AddElement, BrokerAssumption DEF AllIds
  <2>2. {id \in S : c \in Holders(socketfd[id])} \subseteq AllIds
    OBVIOUS
  <2>3. QED
    BY <2>1, <2>2, FS_Subset, FS_CardinalityType
<1>2. ASSUME NEW c \in Clients, NEW k \in Nat
      PROVE  down[c] \o [i \in 1..k |-> n] \in Seq(Nat)
  <2>1. [i \in 1..k |-> n] \in Seq(Nat)
    OBVIOUS
  <2>2. QED
    BY <2>1 DEF TypeOK
<1>3. QED
  BY <1>1, <1>2 DEF Forwarded, TypeOK

LEMMA FlushedType ==
  ASSUME TypeOK, NEW id \in AllIds
  PROVE  Flushed(id) \in [Clients -> Seq(Nat)]
<1>1. ASSUME NEW c \in Clients
      PROVE  down[c] \o notifications[id] \in Seq(Nat)
  BY DEF TypeOK
<1>2. QED
  BY <1>1 DEF Flushed, TypeOK

\* Functions keep their type when one value is replaced.
LEMMA UpdateType ==
  ASSUME NEW A, NEW B, NEW f \in [A -> B], NEW a \in A, NEW b \in B
  PROVE  [f EXCEPT ![a] = b] \in [A -> B]
OBVIOUS

LEMMA PlainType == ASSUME NEW cmd \in {"id", "exit"} PROVE Plain(cmd) \in Message
BY DEF Plain, Message

LEMMA WriteAsType ==
  ASSUME TypeOK, NEW c \in Clients, NEW msg \in Message,
         NEW state \in {"running", "gone"}, WriteAs(c, msg, state)
  PROVE  /\ up' \in [Clients -> Seq(Message)]
         /\ down' \in [Clients -> Seq(Nat)]
         /\ proc' \in [Clients -> {"unstarted", "connecting", "running", "gone"}]
<1>1. Append(up[c], msg) \in Seq(Message)
  BY DEF TypeOK
<1>2. up' \in [Clients -> Seq(Message)]
  BY <1>1 DEF WriteAs, TypeOK
<1>3. proc' \in [Clients -> {"unstarted", "connecting", "running", "gone"}]
  BY DEF WriteAs, TypeOK
<1>4. [down EXCEPT ![c] = <<>>] \in [Clients -> Seq(Nat)]
  <2>1. <<>> \in Seq(Nat)
    OBVIOUS
  <2>2. QED
    BY <2>1, UpdateType DEF TypeOK
<1>5. QED
  BY <1>2, <1>3, <1>4 DEF WriteAs, TypeOK

LEMMA ServerStopsType ==
  ASSUME TypeOK, NEW how \in {"exited", "dead"}, ServerStops(how),
         down' \in [Clients -> Seq(Nat)], UNCHANGED clients,
         datagrams' \in Seq([topic : Topics, to : SUBSET AllIds])
  PROVE  TypeOK'
<1>1. up' \in [Clients -> Seq(Message)]
  BY DEF ServerStops, EveryClient
<1>2. topics' \in [AllIds -> Seq(Subscription)]
  BY DEF ServerStops, EveryId
<1>3. notifications' \in [AllIds -> Seq(Nat)]
  BY DEF ServerStops, EveryId
<1>4. QED
  BY <1>1, <1>2, <1>3 DEF TypeOK, ServerStops, EveryId, EveryClient, clients

\* The handlers of the client program.
LEMMA ClientType ==
  ASSUME TypeOK, NEW c \in Clients, Client(c)
  PROVE  TypeOK'
<1>1. CASE Launch(c)
  <2>1. /\ backlog' \in Seq(Clients)
        /\ proc' \in [Clients -> {"unstarted", "connecting", "running", "gone"}]
    BY <1>1 DEF Launch, TypeOK
  <2>2. QED
    BY <1>1, <2>1 DEF Launch, TypeOK, subscribers
<1>2. CASE SendRegister(c)
  BY <1>2, WriteAsType, PlainType DEF SendRegister, TypeOK, subscribers
<1>3. CASE Exit(c)
  BY <1>3, WriteAsType, PlainType DEF Exit, TypeOK, subscribers
<1>4. CASE Crash(c)
  <2>1. /\ proc' \in [Clients -> {"unstarted", "connecting", "running", "gone"}]
        /\ down' \in [Clients -> Seq(Nat)]
    <3>1. <<>> \in Seq(Nat)
      OBVIOUS
    <3>2. QED
      BY <1>4, <3>1, UpdateType DEF Crash, TypeOK
  <2>2. QED
    BY <1>4, <2>1 DEF Crash, TypeOK, subscribers
<1>5. CASE ReceiveNotification(c)
  <2>1. Head(down[c]) \in Nat /\ Tail(down[c]) \in Seq(Nat)
    <3>1. down[c] \in Seq(Nat)
      BY DEF TypeOK
    <3>2. down[c] # <<>>
      BY <1>5 DEF ReceiveNotification
    <3>3. QED
      BY <3>1, <3>2
  <2>2. Append(printed[c], Head(down[c])) \in Seq(Nat)
    BY <2>1 DEF TypeOK
  <2>3. QED
    BY <1>5, <2>1, <2>2 DEF ReceiveNotification, TypeOK, subscribers
<1>6. CASE ServerClosed(c)
  BY <1>6 DEF ServerClosed, TypeOK, subscribers
<1>7. ASSUME NEW msg \in Message, TypeCommand(c, msg)
      PROVE  TypeOK'
  <2>1. /\ up' \in [Clients -> Seq(Message)]
        /\ down' \in [Clients -> Seq(Nat)]
        /\ proc' \in [Clients -> {"unstarted", "connecting", "running", "gone"}]
    BY <1>7, WriteAsType DEF TypeCommand
  <2>2. typed' \in [Clients -> Nat]
    BY <1>7 DEF TypeCommand, TypeOK
  <2>3. QED
    BY <1>7, <2>1, <2>2 DEF TypeCommand, TypeOK, subscribers
<1>8. CASE \E t \in Topics :
             Unsubscribe(c, t) \/ \E sf \in {0, 1} : Subscribe(c, t, sf)
  <2>1. PICK t \in Topics :
          Unsubscribe(c, t) \/ \E sf \in {0, 1} : Subscribe(c, t, sf)
    BY <1>8
  <2>2. \A cmd \in {"subscribe", "unsubscribe"}, sf \in {0, 1} :
          [cmd |-> cmd, topic |-> t, sf |-> sf] \in Message
    BY DEF Message
  <2>3. QED
    BY <1>7, <2>1, <2>2 DEF Subscribe, Unsubscribe
<1>9. QED
  BY <1>1, <1>2, <1>3, <1>4, <1>5, <1>6, <1>8 DEF Client

\* The second half of tcp_handler.
LEMMA RegisterType ==
  ASSUME TypeOK, NEW c \in Clients, RegisterClient(c)
  PROVE  TypeOK'
<1> DEFINE id == IF up[c] = <<>> THEN EmptyId ELSE IdOf[c]
           rest == IF up[c] = <<>> THEN <<>> ELSE Tail(up[c])
<1>1. id \in AllIds
  BY BrokerAssumption DEF AllIds
<1>2. rest \in Seq(Message)
  BY DEF TypeOK
<1>3. UNCHANGED clients /\ UNCHANGED datagrams
  BY DEF RegisterClient
<1>4. Reject(c) \/ Wake(c, id, rest) \/ AddSubscriber(c, id, rest)
  BY DEF RegisterClient
<1> HIDE DEF id, rest
<1>5. CASE Reject(c)
  <2>1. up' \in [Clients -> Seq(Message)]
    BY <1>5 DEF Reject, TypeOK
  <2>2. QED
    BY <1>3, <1>5, <2>1 DEF Reject, TypeOK, subscribers, clients
<1>6. CASE AddSubscriber(c, id, rest)
  <2>1. /\ topics' \in [AllIds -> Seq(Subscription)]
        /\ notifications' \in [AllIds -> Seq(Nat)]
    <3>1. <<>> \in Seq(Subscription) /\ <<>> \in Seq(Nat)
      OBVIOUS
    <3>2. QED
      BY <1>1, <1>6, <3>1, UpdateType DEF AddSubscriber, TypeOK
  <2>2. up' \in [Clients -> Seq(Message)]
    BY <1>2, <1>6 DEF AddSubscriber, TypeOK
  <2>3. QED
    BY <1>1, <1>3, <1>6, <2>1, <2>2 DEF AddSubscriber, TypeOK, clients
<1>7. CASE Wake(c, id, rest)
  <2>1. CASE down' = Flushed(id) /\ ~ServerStops("dead")
    <3>1. down' \in [Clients -> Seq(Nat)]
      BY <1>1, <2>1, FlushedType
    <3>2. /\ notifications' \in [AllIds -> Seq(Nat)]
          /\ up' \in [Clients -> Seq(Message)]
      <4>1. <<>> \in Seq(Nat)
        OBVIOUS
      <4>2. /\ notifications' = [notifications EXCEPT ![id] = <<>>]
            /\ up' = [up EXCEPT ![c] = rest]
        BY <1>7, <2>1 DEF Wake
      <4>3. QED
        BY <1>1, <1>2, <4>1, <4>2, UpdateType DEF TypeOK
    <3>3. QED
      BY <1>1, <1>3, <1>7, <2>1, <3>1, <3>2 DEF Wake, TypeOK, clients
  <2>2. CASE ServerStops("dead")
    <3>1. down' \in [Clients -> Seq(Nat)]
      <4>1. down' = Flushed(id) \/ down' = down
        BY <1>7, Zenon DEF Wake
      <4>2. Flushed(id) \in [Clients -> Seq(Nat)]
        BY <1>1, FlushedType
      <4>3. down \in [Clients -> Seq(Nat)]
        BY DEF TypeOK
      <4>4. QED
        BY <4>1, <4>2, <4>3
    <3>2. QED
      BY <1>3, <2>2, <3>1, ServerStopsType DEF TypeOK
  <2>3. QED
    BY <1>7, <2>1, <2>2 DEF Wake
<1>8. QED
  BY <1>4, <1>5, <1>6, <1>7

\* udp_handler.
LEMMA PublishType ==
  ASSUME TypeOK, NEW t \in Topics, Publish(t)
  PROVE  TypeOK'
<1> DEFINE n == Len(datagrams) + 1
           online == {id \in known : is_connected[id] /\ HasTopic(id, t)}
           offline == {id \in known : ~is_connected[id] /\ HasStoredTopic(id, t)}
<1>1. n \in Nat /\ online \in SUBSET AllIds /\ offline \in SUBSET AllIds
  BY DEF TypeOK
<1>2. datagrams' \in Seq([topic : Topics, to : SUBSET AllIds])
  <2>1. [topic |-> t, to |-> online \cup offline]
          \in [topic : Topics, to : SUBSET AllIds]
    BY <1>1
  <2>2. datagrams' = Append(datagrams, [topic |-> t, to |-> online \cup offline])
    BY DEF Publish
  <2>3. QED
    BY <2>1, <2>2 DEF TypeOK
<1>3. UNCHANGED clients
  BY DEF Publish
<1>4. CASE /\ down' = Forwarded(online, n)
           /\ notifications' = [id \in AllIds |->
                                  IF id \in offline
                                  THEN Append(notifications[id], n)
                                  ELSE notifications[id]]
           /\ UNCHANGED <<server, accepting, known, socketfd, is_connected,
                          topics, backlog, fdOf, up>>
  <2>1. down' \in [Clients -> Seq(Nat)]
    BY <1>1, <1>4, ForwardedType
  <2>2. notifications' \in [AllIds -> Seq(Nat)]
    <3>1. \A id \in AllIds : Append(notifications[id], n) \in Seq(Nat)
      BY <1>1 DEF TypeOK
    <3>2. QED
      BY <1>4, <3>1 DEF TypeOK
  <2>3. QED
    BY <1>2, <1>3, <1>4, <2>1, <2>2 DEF TypeOK, clients
<1>5. CASE /\ \E served \in SUBSET online : down' = Forwarded(served, n)
           /\ ServerStops("dead")
  <2>1. down' \in [Clients -> Seq(Nat)]
    BY <1>1, <1>5, ForwardedType
  <2>2. QED
    BY <1>2, <1>3, <1>5, <2>1, ServerStopsType
<1>6. QED
  <2>1. \/ /\ down' = Forwarded(online, n)
           /\ notifications' = [id \in AllIds |->
                                  IF id \in offline
                                  THEN Append(notifications[id], n)
                                  ELSE notifications[id]]
           /\ UNCHANGED <<server, accepting, known, socketfd, is_connected,
                          topics, backlog, fdOf, up>>
        \/ /\ \E served \in SUBSET online : down' = Forwarded(served, n)
           /\ ServerStops("dead")
    BY DEF Publish, Stored
  <2>2. QED
    BY <1>4, <1>5, <2>1

\* accept, the end of a connection, a message, and the command exit.
LEMMA AcceptType ==
  ASSUME TypeOK, Accept
  PROVE  TypeOK'
<1>1. CASE ServerStops("dead")
  BY <1>1, ServerStopsType DEF Accept, TypeOK
<1>2. CASE ~ServerStops("dead")
  <2>1. PICK fd \in FirstFd..(FirstFd + Cardinality(Clients)) :
          fdOf' = [fdOf EXCEPT ![Head(backlog)] = fd]
    BY <1>2 DEF Accept
  <2>2. fd \in Nat
    BY BrokerAssumption, FS_CardinalityType
  <2>3. Head(backlog) \in Clients /\ Tail(backlog) \in Seq(Clients)
    BY DEF Accept, TypeOK
  <2>4. QED
    BY <1>2, <2>1, <2>2, <2>3 DEF Accept, TypeOK, subscribers, clients
<1>3. QED
  BY <1>1, <1>2

LEMMA HandleMessageType ==
  ASSUME TypeOK, NEW c \in Clients, HandleMessage(c)
  PROVE  TypeOK'
<1> DEFINE msg == Head(up[c])
           id == IdOf[c]
<1>1. id \in AllIds
  BY BrokerAssumption DEF AllIds
<1>2. msg \in Message /\ Tail(up[c]) \in Seq(Message)
  BY DEF HandleMessage, TypeOK
<1>3. is_connected' \in [AllIds -> BOOLEAN]
  BY <1>1 DEF HandleMessage, Disconnect, AddTopic, RemoveTopic, TypeOK
<1>4. topics' \in [AllIds -> Seq(Subscription)]
  <2>1. CASE UNCHANGED topics
    BY <2>1 DEF TypeOK
  <2>2. CASE msg.cmd = "subscribe" /\ AddTopic(id, msg.topic, msg.sf)
    <3>1. [name |-> msg.topic, sf |-> msg.sf] \in Subscription
      BY <1>2, <2>2 DEF Message, Subscription
    <3>2. QED
      BY <1>1, <2>2, <3>1 DEF AddTopic, TypeOK
  <2>3. CASE RemoveTopic(id, msg.topic)
    <3>1. \A i \in DOMAIN topics[id] : RemoveAt(topics[id], i) \in Seq(Subscription)
      BY <1>1, RemoveAtType DEF TypeOK
    <3>2. QED
      BY <1>1, <2>3, <3>1 DEF RemoveTopic, TypeOK
  <2>4. QED
    BY <2>1, <2>2, <2>3 DEF HandleMessage, Disconnect
<1>5. QED
  BY <1>2, <1>3, <1>4 DEF HandleMessage, TypeOK, clients

\* Every variable keeps its type, whatever the users do.
THEOREM TypeCorrect == Spec => []TypeOK
<1>1. Init => TypeOK
  <2> SUFFICES ASSUME Init PROVE TypeOK
    OBVIOUS
  <2>1. /\ topics \in [AllIds -> Seq(Subscription)]
        /\ notifications \in [AllIds -> Seq(Nat)]
        /\ backlog \in Seq(Clients)
        /\ up \in [Clients -> Seq(Message)]
        /\ down \in [Clients -> Seq(Nat)]
        /\ printed \in [Clients -> Seq(Nat)]
        /\ datagrams \in Seq([topic : Topics, to : SUBSET AllIds])
    BY DEF Init, EveryId, EveryClient
  <2>2. QED
    BY <2>1 DEF Init, TypeOK, EveryId, EveryClient
<1>2. TypeOK /\ [Next]_vars => TypeOK'
  <2> SUFFICES ASSUME TypeOK, [Next]_vars PROVE TypeOK'
    OBVIOUS
  <2>1. ASSUME NEW c \in Clients, CloseConnection(c) PROVE TypeOK'
    BY <2>1 DEF CloseConnection, TypeOK, subscribers, clients
  <2>2. CASE ServerExit
    BY <2>2, ServerStopsType DEF ServerExit, TypeOK
  <2>3. CASE UNCHANGED vars
    BY <2>3 DEF vars, subscribers, clients, TypeOK
  <2>4. QED
    BY <2>1, <2>2, <2>3, AcceptType, RegisterType, PublishType,
       HandleMessageType, ClientType DEF Next, Server
<1>3. QED
  BY <1>1, <1>2, PTL DEF Spec

-----------------------------------------------------------------------------
\* What the server's map says between two steps: nothing is stored for those
\* who are connected, nor for the nameless entry.
Storing == OnlineQueueEmpty /\ PhantomHarmless

\* A step that leaves the map alone, or ends the server.
LEMMA StoringKept ==
  ASSUME Storing, UNCHANGED subscribers \/ known' = {}
  PROVE  Storing'
BY DEF Storing, OnlineQueueEmpty, PhantomHarmless, subscribers

LEMMA StoringStep == TypeOK /\ Storing /\ [Next]_vars => Storing'
<1> SUFFICES ASSUME TypeOK, Storing, [Next]_vars PROVE Storing'
  OBVIOUS
<1>1. ASSUME NEW c \in Clients, Client(c) PROVE Storing'
  BY <1>1, StoringKept DEF Client, Launch, SendRegister, Exit, Crash,
     ReceiveNotification, ServerClosed, Subscribe, Unsubscribe, TypeCommand
<1>2. CASE Accept \/ ServerExit
  BY <1>2, StoringKept DEF Accept, ServerExit, ServerStops
<1>3. ASSUME NEW c \in Clients, RegisterClient(c) PROVE Storing'
  <2> DEFINE id == IF up[c] = <<>> THEN EmptyId ELSE IdOf[c]
             rest == IF up[c] = <<>> THEN <<>> ELSE Tail(up[c])
  <2>1. id \in AllIds
    BY BrokerAssumption DEF AllIds
  <2>2. \/ Reject(c)
        \/ id \in known /\ ~is_connected[id] /\ Wake(c, id, rest)
        \/ id \notin known /\ AddSubscriber(c, id, rest)
    BY <1>3 DEF RegisterClient
  <2> HIDE DEF id, rest
  <2>3. CASE Reject(c)
    BY <2>3, StoringKept DEF Reject
  <2>4. CASE id \in known /\ ~is_connected[id] /\ Wake(c, id, rest)
    <3>1. CASE ServerStops("dead")
      BY <3>1, StoringKept DEF ServerStops
    <3>2. CASE ~ServerStops("dead")
      <4>1. /\ known' = known /\ topics' = topics
            /\ is_connected' = [is_connected EXCEPT ![id] = TRUE]
            /\ notifications' = [notifications EXCEPT ![id] = <<>>]
        BY <2>4, <3>2 DEF Wake
      <4>2. QED
        BY <2>1, <2>4, <4>1 DEF Storing, OnlineQueueEmpty, PhantomHarmless, TypeOK
    <3>3. QED
      BY <3>1, <3>2
  <2>5. CASE id \notin known /\ AddSubscriber(c, id, rest)
    BY <2>1, <2>5 DEF AddSubscriber, Storing, OnlineQueueEmpty, PhantomHarmless,
       TypeOK, AllIds
  <2>6. QED
    BY <2>2, <2>3, <2>4, <2>5
<1>4. ASSUME NEW t \in Topics, Publish(t) PROVE Storing'
  <2> DEFINE n == Len(datagrams) + 1
             offline == {id \in known : ~is_connected[id] /\ HasStoredTopic(id, t)}
  <2>1. CASE known' = {}
    BY <2>1, StoringKept
  <2>2. CASE known' # {}
    <3>1. /\ notifications' = [id \in AllIds |->
                                 IF id \in offline
                                 THEN Append(notifications[id], n)
                                 ELSE notifications[id]]
          /\ UNCHANGED <<known, is_connected, topics>>
      BY <1>4, <2>2 DEF Publish, Stored, ServerStops
    <3>2. \A id \in known : is_connected[id] => notifications'[id] = notifications[id]
      BY <3>1 DEF TypeOK
    <3>3. QED
      BY <3>1, <3>2 DEF Storing, OnlineQueueEmpty, PhantomHarmless
  <2>3. QED
    BY <2>1, <2>2
<1>5. ASSUME NEW c \in Clients, CloseConnection(c) PROVE Storing'
  BY <1>5, StoringKept DEF CloseConnection
<1>6. ASSUME NEW c \in Clients, HandleMessage(c) PROVE Storing'
  <2>1. IdOf[c] \in AllIds /\ IdOf[c] # EmptyId
    BY BrokerAssumption DEF AllIds
  <2>2. /\ known' = known /\ notifications' = notifications
        /\ \A id \in AllIds \ {IdOf[c]} : /\ is_connected'[id] = is_connected[id]
                                         /\ topics'[id] = topics[id]
        /\ is_connected'[IdOf[c]] => is_connected[IdOf[c]]
    BY <1>6, <2>1 DEF HandleMessage, Disconnect, AddTopic, RemoveTopic, TypeOK
  <2>3. QED
    BY <2>1, <2>2 DEF Storing, OnlineQueueEmpty, PhantomHarmless, TypeOK, AllIds
<1>7. CASE UNCHANGED vars
  BY <1>7, StoringKept DEF vars
<1>8. QED
  BY <1>1, <1>2, <1>3, <1>4, <1>5, <1>6, <1>7 DEF Next, Server

LEMMA StoringAlways == Spec => []Storing
<1>1. Init => Storing
  BY DEF Init, Storing, OnlineQueueEmpty, PhantomHarmless
<1>2. QED
  BY <1>1, StoringStep, TypeCorrect, PTL DEF Spec

\* Notifications are stored only for subscribers that are away.
THEOREM StoredOnlyWhenAway == Spec => []OnlineQueueEmpty
BY StoringAlways, PTL DEF Storing

\* The entry made for a connection that never named itself stays harmless.
THEOREM NamelessIsHarmless == Spec => []PhantomHarmless
BY StoringAlways, PTL DEF Storing

-----------------------------------------------------------------------------
\* The queue of one subscriber, as StoredInOrder wants it.
QueueInOrder(id) ==
  /\ \A i \in DOMAIN notifications[id] :
       /\ notifications[id][i] \in DOMAIN datagrams
       /\ id \in datagrams[notifications[id][i]].to
  /\ \A i, j \in DOMAIN notifications[id] :
       i < j => notifications[id][i] < notifications[id][j]

\* A step after which every queue is empty or what it was.
LEMMA QueuesKept ==
  ASSUME StoredInOrder, datagrams' = datagrams,
         \A id \in known' :
           \/ notifications'[id] = <<>>
           \/ id \in known /\ notifications'[id] = notifications[id]
  PROVE  StoredInOrder'
<1>1. ASSUME NEW id \in known' PROVE QueueInOrder(id)'
  <2>1. CASE notifications'[id] = <<>>
    BY <2>1 DEF QueueInOrder
  <2>2. CASE id \in known /\ notifications'[id] = notifications[id]
    BY <2>2 DEF StoredInOrder, QueueInOrder
  <2>3. QED
    BY <2>1, <2>2
<1>2. QED
  BY <1>1 DEF StoredInOrder, QueueInOrder

\* The history of datagrams only grows at its end.
LEMMA DatagramsGrow ==
  ASSUME TypeOK, NEW e \in [topic : Topics, to : SUBSET AllIds],
         datagrams' = Append(datagrams, e)
  PROVE  /\ Len(datagrams) \in Nat
         /\ DOMAIN datagrams = 1..Len(datagrams)
         /\ DOMAIN datagrams' = 1..(Len(datagrams) + 1)
         /\ \A i \in DOMAIN datagrams : datagrams'[i] = datagrams[i]
         /\ datagrams'[Len(datagrams) + 1] = e
<1>1. datagrams \in Seq([topic : Topics, to : SUBSET AllIds])
  BY DEF TypeOK
<1>2. QED
  BY <1>1

LEMMA PublishInOrder ==
  ASSUME TypeOK, StoredInOrder, NEW t \in Topics, Publish(t)
  PROVE  StoredInOrder'
<1> DEFINE n == Len(datagrams) + 1
           online == {id \in known : is_connected[id] /\ HasTopic(id, t)}
           offline == {id \in known : ~is_connected[id] /\ HasStoredTopic(id, t)}
           entry == [topic |-> t, to |-> online \cup offline]
<1>1. CASE ServerStops("dead")
  BY <1>1 DEF ServerStops, StoredInOrder
<1>2. CASE ~ServerStops("dead")
  <2>1. /\ known' = known
        /\ datagrams' = Append(datagrams, entry)
        /\ notifications' = [id \in AllIds |-> IF id \in offline
                                              THEN Append(notifications[id], n)
                                              ELSE notifications[id]]
    BY <1>2 DEF Publish, Stored
  <2>2. entry \in [topic : Topics, to : SUBSET AllIds]
    BY DEF TypeOK
  <2>3. /\ n \in Nat /\ n >= 1
        /\ DOMAIN datagrams = 1..(n - 1)
        /\ DOMAIN datagrams' = 1..n
        /\ \A i \in DOMAIN datagrams : datagrams'[i] = datagrams[i]
        /\ datagrams'[n] = entry
    BY <2>1, <2>2, DatagramsGrow
  <2>4. \A id \in offline : id \in entry.to
    OBVIOUS
  <2> HIDE DEF n, entry, online
  <2>5. ASSUME NEW id \in known PROVE QueueInOrder(id)'
    <3>1. QueueInOrder(id) /\ notifications[id] \in Seq(Nat) /\ id \in AllIds
      BY DEF StoredInOrder, QueueInOrder, TypeOK
    <3>2. CASE id \notin offline
      <4>1. notifications'[id] = notifications[id]
        BY <2>1, <3>1, <3>2
      <4>2. QED
        BY <2>3, <3>1, <4>1 DEF QueueInOrder
    <3>3. CASE id \in offline
      <4>1. notifications'[id] = Append(notifications[id], n)
        BY <2>1, <3>1, <3>3
      <4>2. /\ DOMAIN notifications[id] = 1..Len(notifications[id])
            /\ DOMAIN notifications'[id] = 1..(Len(notifications[id]) + 1)
            /\ Len(notifications[id]) \in Nat
            /\ \A i \in 1..Len(notifications[id]) :
                 notifications'[id][i] = notifications[id][i]
            /\ notifications'[id][Len(notifications[id]) + 1] = n
        BY <2>3, <3>1, <4>1
      <4>3. \A i \in 1..Len(notifications[id]) :
              /\ notifications[id][i] \in 1..(n - 1)
              /\ id \in datagrams'[notifications[id][i]].to
        BY <2>3, <3>1, <4>2 DEF QueueInOrder
      <4>4. \A i, j \in 1..Len(notifications[id]) :
              i < j => notifications[id][i] < notifications[id][j]
        BY <3>1, <4>2 DEF QueueInOrder
      <4>5. id \in datagrams'[n].to /\ n \in 1..n
        BY <2>3, <2>4, <3>3, <4>2
      <4>6. ASSUME NEW i \in DOMAIN notifications'[id]
            PROVE  /\ notifications'[id][i] \in DOMAIN datagrams'
                   /\ id \in datagrams'[notifications'[id][i]].to
        <5>1. CASE i = Len(notifications[id]) + 1
          BY <2>3, <4>2, <4>5, <5>1
        <5>2. CASE i \in 1..Len(notifications[id])
          BY <2>3, <4>2, <4>3, <5>2
        <5>3. QED
          BY <4>2, <5>1, <5>2
      <4>7. ASSUME NEW i \in DOMAIN notifications'[id],
                   NEW j \in DOMAIN notifications'[id], i < j
            PROVE  notifications'[id][i] < notifications'[id][j]
        <5>1. i \in 1..Len(notifications[id])
          BY <4>2, <4>7
        <5>2. CASE j = Len(notifications[id]) + 1
          BY <2>3, <4>2, <4>3, <5>1, <5>2
        <5>3. CASE j \in 1..Len(notifications[id])
          BY <4>2, <4>4, <4>7, <5>1, <5>3
        <5>4. QED
          BY <4>2, <5>2, <5>3
      <4>8. QED
        BY <4>6, <4>7 DEF QueueInOrder
    <3>4. QED
      BY <3>2, <3>3
  <2>6. QED
    BY <2>1, <2>5 DEF StoredInOrder, QueueInOrder
<1>3. QED
  BY <1>1, <1>2

\* A subscriber's queue holds what was addressed to it, once and in order.
THEOREM QueuesInOrder == Spec => []StoredInOrder
<1>1. Init => StoredInOrder
  BY DEF Init, StoredInOrder
<1>2. TypeOK /\ StoredInOrder /\ [Next]_vars => StoredInOrder'
  <2> SUFFICES ASSUME TypeOK, StoredInOrder, [Next]_vars PROVE StoredInOrder'
    OBVIOUS
  <2>1. ASSUME NEW c \in Clients, Client(c) PROVE StoredInOrder'
    BY QueuesKept, <2>1 DEF Client, Launch, SendRegister, Exit, Crash, subscribers,
       ReceiveNotification, ServerClosed, Subscribe, Unsubscribe, TypeCommand
  <2>2. ASSUME NEW c \in Clients,
               CloseConnection(c) \/ HandleMessage(c)
        PROVE  StoredInOrder'
    BY QueuesKept, <2>2 DEF CloseConnection, HandleMessage, subscribers
  <2>3. ASSUME NEW c \in Clients, RegisterClient(c) PROVE StoredInOrder'
    <3> DEFINE who == IF up[c] = <<>> THEN EmptyId ELSE IdOf[c]
               rest == IF up[c] = <<>> THEN <<>> ELSE Tail(up[c])
    <3>1. who \in AllIds
      BY BrokerAssumption DEF AllIds
    <3>2. /\ Reject(c) \/ Wake(c, who, rest) \/ AddSubscriber(c, who, rest)
          /\ datagrams' = datagrams
      BY <2>3 DEF RegisterClient
    <3> HIDE DEF who, rest
    <3>3. \/ known' = {}
          \/ known' = known /\ notifications' = notifications
          \/ /\ known' \subseteq known \cup {who}
             /\ notifications' = [notifications EXCEPT ![who] = <<>>]
      BY <3>2 DEF Reject, Wake, AddSubscriber, ServerStops, subscribers
    <3>4. ASSUME NEW other \in known'
          PROVE  \/ notifications'[other] = <<>>
                 \/ other \in known /\ notifications'[other] = notifications[other]
      <4>1. CASE /\ known' \subseteq known \cup {who}
                 /\ notifications' = [notifications EXCEPT ![who] = <<>>]
        <5>1. CASE other = who
          BY <3>1, <4>1, <5>1 DEF TypeOK
        <5>2. CASE other # who
          BY <3>4, <4>1, <5>2 DEF TypeOK
        <5>3. QED
          BY <5>1, <5>2
      <4>2. QED
        BY <3>3, <3>4, <4>1
    <3>5. QED
      BY QueuesKept, <3>2, <3>4
  <2>4. CASE UNCHANGED vars
    BY QueuesKept, <2>4 DEF vars, subscribers
  <2>5. CASE Accept \/ ServerExit
    BY QueuesKept, <2>5 DEF Accept, ServerExit, ServerStops, subscribers
  <2>6. QED
    BY <2>1, <2>2, <2>3, <2>4, <2>5, PublishInOrder DEF Next, Server
<1>3. QED
  BY <1>1, <1>2, TypeCorrect, PTL DEF Spec

-----------------------------------------------------------------------------
(* Who is logged in: no identifier is ever served to two processes, and    *)
(* tcp_handler and the epoll loop never read each other's messages.        *)

Waiting(c) == accepting = c \/ c \in ToSet(backlog)

PendingExit(c) == \E i \in DOMAIN up[c] : up[c][i].cmd = "exit"

\* c is logged in: its process can still send, or what it sent last, "exit",
\* is still to be handled.
Session(c) == Registered(c) /\ (proc[c] = "running" \/ PendingExit(c))

\* What is known of one client, its connection and its place in the map.
ClientInv(c) ==
  /\ c \in ToSet(backlog) => fdOf[c] = 0 /\ accepting # c
  /\ accepting = c => fdOf[c] # 0
  /\ proc[c] = "unstarted" => ~Waiting(c) /\ fdOf[c] = 0
  /\ proc[c] \in {"unstarted", "connecting"} => up[c] = <<>> /\ ~Registered(c)
  /\ proc[c] = "running" /\ Waiting(c) => up[c] # <<>>
  /\ \A i \in DOMAIN up[c] :
       /\ up[c][i].cmd = "exit" => i = Len(up[c]) /\ proc[c] = "gone"
       /\ up[c][i].cmd = "id" <=> i = 1 /\ Waiting(c)
  /\ Session(c) => IdOf[c] \in known /\ is_connected[IdOf[c]]

Injective(s) == \A i, j \in DOMAIN s : s[i] = s[j] => i = j

SessionInv ==
  /\ Injective(backlog)
  /\ \A c \in Clients : ClientInv(c)
  /\ \A c, d \in Clients :
       Session(c) /\ Session(d) /\ IdOf[c] = IdOf[d] => c = d

-----------------------------------------------------------------------------
\* The queue of pending connections.
LEMMA ToSetAppend ==
  ASSUME NEW S, NEW s \in Seq(S), NEW e \in S
  PROVE  ToSet(Append(s, e)) = ToSet(s) \cup {e}
<1>1. /\ DOMAIN Append(s, e) = 1..(Len(s) + 1)
      /\ DOMAIN s = 1..Len(s)
      /\ \A i \in 1..Len(s) : Append(s, e)[i] = s[i]
      /\ Append(s, e)[Len(s) + 1] = e
      /\ Len(s) \in Nat
  OBVIOUS
<1>2. 1..(Len(s) + 1) = 1..Len(s) \cup {Len(s) + 1}
  BY <1>1
<1>3. QED
  BY <1>1, <1>2 DEF ToSet

LEMMA InjectiveAppend ==
  ASSUME NEW S, NEW s \in Seq(S), NEW e \in S \ ToSet(s), Injective(s)
  PROVE  Injective(Append(s, e))
<1>1. /\ DOMAIN Append(s, e) = 1..(Len(s) + 1)
      /\ DOMAIN s = 1..Len(s)
      /\ \A i \in 1..Len(s) : Append(s, e)[i] = s[i] /\ s[i] # e
      /\ Append(s, e)[Len(s) + 1] = e
      /\ Len(s) \in Nat
  BY DEF ToSet
<1>2. QED
  BY <1>1 DEF Injective

LEMMA TailOfInjective ==
  ASSUME NEW S, NEW s \in Seq(S), s # <<>>, Injective(s)
  PROVE  /\ Injective(Tail(s))
         /\ ToSet(Tail(s)) = ToSet(s) \ {Head(s)}
         /\ Head(s) \in ToSet(s)
<1>1. /\ Len(s) \in Nat \ {0}
      /\ DOMAIN s = 1..Len(s)
      /\ DOMAIN Tail(s) = 1..(Len(s) - 1)
      /\ \A i \in 1..(Len(s) - 1) : Tail(s)[i] = s[i + 1]
      /\ Head(s) = s[1]
  OBVIOUS
<1>2. Injective(Tail(s))
  BY <1>1 DEF Injective
<1>3. Head(s) \in ToSet(s)
  BY <1>1 DEF ToSet
<1>4. ToSet(Tail(s)) \subseteq ToSet(s) \ {Head(s)}
  BY <1>1 DEF ToSet, Injective
<1>5. ASSUME NEW e \in ToSet(s) \ {Head(s)} PROVE e \in ToSet(Tail(s))
  <2>1. PICK i \in 1..Len(s) : s[i] = e
    BY <1>1, <1>5 DEF ToSet
  <2>2. i - 1 \in 1..(Len(s) - 1) /\ (i - 1) + 1 = i
    BY <1>1, <1>5, <2>1
  <2>3. QED
    BY <1>1, <2>1, <2>2 DEF ToSet
<1>6. QED
  BY <1>2, <1>3, <1>4, <1>5

\* A step that changes nothing about c itself.
SameFor(c) ==
  /\ proc'[c] = proc[c] /\ up'[c] = up[c] /\ fdOf'[c] = fdOf[c]
  /\ accepting' = c <=> accepting = c
  /\ c \in ToSet(backlog') <=> c \in ToSet(backlog)
  /\ Session(c) => IdOf[c] \in known' /\ is_connected'[IdOf[c]]

LEMMA SameForKeeps ==
  ASSUME NEW c \in Clients, ClientInv(c), SameFor(c)
  PROVE  ClientInv(c)' /\ (Session(c)' <=> Session(c))
<1>1. (Waiting(c)' <=> Waiting(c)) /\ (Registered(c)' <=> Registered(c))
  BY DEF SameFor, Waiting, Registered
<1>2. PendingExit(c)' <=> PendingExit(c)
  BY DEF SameFor, PendingExit
<1>3. Session(c)' <=> Session(c)
  BY <1>1, <1>2 DEF SameFor, Session
<1>4. QED
  BY <1>1, <1>3 DEF SameFor, ClientInv

\* A step of one client or one connection.
LEMMA OneClientStep ==
  ASSUME SessionInv, NEW d \in Clients, Injective(backlog)', ClientInv(d)',
         \A c \in Clients \ {d} : SameFor(c),
         Session(d)' => \/ Session(d)
                        \/ \A c \in Clients \ {d} :
                             IdOf[c] = IdOf[d] => ~Session(c)
  PROVE  SessionInv'
<1>1. \A c \in Clients \ {d} : ClientInv(c)' /\ (Session(c)' <=> Session(c))
  BY SameForKeeps DEF SessionInv
<1>2. QED
  BY <1>1 DEF SessionInv

\* A step of nobody's.
LEMMA NobodyStep ==
  ASSUME SessionInv, Injective(backlog)', \A c \in Clients : SameFor(c)
  PROVE  SessionInv'
BY SameForKeeps DEF SessionInv

LEMMA StopsStep ==
  ASSUME SessionInv, NEW how, ServerStops(how), proc' = proc
  PROVE  SessionInv'
<1>1. backlog' = <<>> /\ ToSet(backlog') = {} /\ Injective(backlog)'
  BY DEF ServerStops, ToSet, Injective
<1>2. ASSUME NEW c \in Clients PROVE ClientInv(c)' /\ ~Session(c)'
  <2>1. accepting' # c /\ fdOf'[c] = 0 /\ up'[c] = <<>>
    BY BrokerAssumption DEF ServerStops, EveryClient
  <2>2. QED
    BY <1>1, <2>1 DEF ClientInv, Session, Registered, Waiting
<1>3. QED
  BY <1>1, <1>2 DEF SessionInv

-----------------------------------------------------------------------------
\* The client program.
LEMMA LaunchSession ==
  ASSUME TypeOK, SessionInv, NEW d \in Clients, Launch(d)
  PROVE  SessionInv'
<1>1. ClientInv(d)
  BY DEF SessionInv
<1>2. d \notin ToSet(backlog) /\ accepting # d /\ fdOf[d] = 0 /\ up[d] = <<>>
  BY <1>1 DEF ClientInv, Launch, Waiting
<1>3. ToSet(backlog') = ToSet(backlog) \cup {d} /\ Injective(backlog)'
  BY <1>2, ToSetAppend, InjectiveAppend DEF Launch, TypeOK, SessionInv
<1>4. ClientInv(d)' /\ ~Session(d)'
  BY <1>2, <1>3 DEF ClientInv, Launch, Session, Registered, Waiting, TypeOK
<1>5. ASSUME NEW c \in Clients \ {d} PROVE SameFor(c)
  <2>1. ClientInv(c)
    BY DEF SessionInv
  <2>2. QED
    BY <1>3, <2>1 DEF SameFor, Launch, TypeOK, ClientInv, subscribers
<1>6. QED
  BY <1>3, <1>4, <1>5, OneClientStep

\* What writing, dying or being cut off leaves alone.
LEMMA OthersUntouched ==
  ASSUME TypeOK, SessionInv, NEW d \in Clients,
         \A c \in Clients \ {d} : proc'[c] = proc[c] /\ up'[c] = up[c],
         UNCHANGED <<accepting, subscribers, backlog, fdOf>>
  PROVE  /\ \A c \in Clients \ {d} : SameFor(c)
         /\ Injective(backlog)'
BY DEF SameFor, SessionInv, ClientInv, subscribers

LEMMA WriteSession ==
  ASSUME TypeOK, SessionInv, NEW d \in Clients,
         SendRegister(d) \/ Exit(d)
           \/ \E msg \in Message : /\ TypeCommand(d, msg)
                                  /\ msg.cmd \in {"subscribe", "unsubscribe"}
  PROVE  SessionInv'
<1>1. ClientInv(d)
  BY DEF SessionInv
<1>2. UNCHANGED <<accepting, subscribers, backlog, fdOf>>
  BY DEF SendRegister, Exit, TypeCommand
<1>3. PICK msg \in Message, state \in {"running", "gone"} :
        /\ WriteAs(d, msg, state)
        /\ \/ /\ proc[d] = "connecting" /\ state = "running" /\ msg.cmd = "id"
           \/ /\ proc[d] = "running" /\ state = "gone" /\ msg.cmd = "exit"
           \/ /\ proc[d] = "running" /\ state = "running"
              /\ msg.cmd \in {"subscribe", "unsubscribe"}
  <2>1. CASE SendRegister(d)
    BY <2>1, PlainType DEF SendRegister, Plain
  <2>2. CASE Exit(d)
    BY <2>2, PlainType DEF Exit, Plain
  <2>3. CASE \E msg \in Message : /\ TypeCommand(d, msg)
                                 /\ msg.cmd \in {"subscribe", "unsubscribe"}
    BY <2>3 DEF TypeCommand
  <2>4. QED
    BY <2>1, <2>2, <2>3
<1>4. \A c \in Clients \ {d} : proc'[c] = proc[c] /\ up'[c] = up[c]
  BY <1>3 DEF WriteAs, TypeOK
<1>5. Waiting(d)' = Waiting(d) /\ Registered(d)' = Registered(d)
  BY <1>2 DEF Waiting, Registered
<1>6. Waiting(d) => Reachable(d)
  BY <1>1 DEF Waiting, Reachable, ClientInv
<1>7. Registered(d) => Reachable(d)
  BY DEF Registered, Reachable
<1>8. CASE Reachable(d)
  <2>1. proc'[d] = state /\ up'[d] = Append(up[d], msg)
    BY <1>3, <1>8 DEF WriteAs, TypeOK
  <2>2. /\ DOMAIN up'[d] = 1..(Len(up[d]) + 1)
        /\ Len(up'[d]) = Len(up[d]) + 1
        /\ DOMAIN up[d] = 1..Len(up[d])
        /\ \A i \in 1..Len(up[d]) : up'[d][i] = up[d][i]
        /\ up'[d][Len(up[d]) + 1] = msg
        /\ Len(up[d]) \in Nat /\ up'[d] # <<>>
    <3>1. up[d] \in Seq(Message)
      BY DEF TypeOK
    <3>2. /\ DOMAIN Append(up[d], msg) = 1..(Len(up[d]) + 1)
          /\ Len(Append(up[d], msg)) = Len(up[d]) + 1
          /\ DOMAIN up[d] = 1..Len(up[d])
          /\ \A i \in 1..Len(up[d]) : Append(up[d], msg)[i] = up[d][i]
          /\ Append(up[d], msg)[Len(up[d]) + 1] = msg
          /\ Len(up[d]) \in Nat /\ Append(up[d], msg) # <<>>
      BY <3>1
    <3>3. QED
      BY <2>1, <3>2
  <2>3. up[d] = <<>> => Len(up[d]) = 0
    OBVIOUS
  <2>4. \A i \in DOMAIN up[d] : up[d][i].cmd # "exit"
    BY <1>1, <1>3 DEF ClientInv
  <2>5. CASE proc[d] = "connecting" /\ state = "running" /\ msg.cmd = "id"
    <3>1. ~Registered(d) /\ up[d] = <<>> /\ Waiting(d)
      BY <1>1, <1>8, <2>5 DEF ClientInv, Reachable, Registered, Waiting
    <3>2. ClientInv(d)' /\ ~Session(d)'
      BY <1>1, <1>2, <1>5, <2>1, <2>2, <2>3, <2>5, <3>1
         DEF ClientInv, Session
    <3>3. QED
      BY <1>2, <1>4, <3>2, OneClientStep, OthersUntouched
  <2>6. CASE proc[d] = "running" /\ msg.cmd # "id"
    <3>1. Waiting(d) => Len(up[d]) # 0
      BY <1>1, <2>6 DEF ClientInv, TypeOK
    <3>2. Session(d)' => Session(d)
      BY <1>5, <2>6 DEF Session
    <3>3. \A i \in DOMAIN up'[d] :
            /\ up'[d][i].cmd = "exit" => i = Len(up'[d]) /\ proc'[d] = "gone"
            /\ up'[d][i].cmd = "id" <=> i = 1 /\ Waiting(d)
      <4>1. ASSUME NEW i \in 1..Len(up[d])
            PROVE  /\ up'[d][i].cmd # "exit"
                   /\ up'[d][i].cmd = "id" <=> i = 1 /\ Waiting(d)
        BY <1>1, <2>2, <2>4, <4>1 DEF ClientInv
      <4>2. /\ msg.cmd # "id"
            /\ msg.cmd = "exit" => proc'[d] = "gone"
            /\ Len(up[d]) + 1 = 1 => ~Waiting(d)
        BY <1>3, <2>1, <2>2, <2>6, <3>1
      <4>3. QED
        BY <2>2, <4>1, <4>2
    <3>4. ClientInv(d)'
      BY <1>1, <1>2, <1>3, <1>5, <2>1, <2>2, <2>6, <3>2, <3>3
         DEF ClientInv, subscribers
    <3>5. QED
      BY <1>2, <1>4, <3>2, <3>4, OneClientStep, OthersUntouched
  <2>7. QED
    BY <1>3, <2>5, <2>6
<1>9. CASE ~Reachable(d)
  <2>1. proc'[d] \in {"running", "gone"} /\ up'[d] = up[d]
    BY <1>3, <1>9 DEF WriteAs, TypeOK
  <2>2. ~Waiting(d) /\ ~Registered(d)
    BY <1>6, <1>7, <1>9
  <2>3. \A i \in DOMAIN up[d] : up[d][i].cmd # "exit"
    BY <1>1, <1>3 DEF ClientInv
  <2>4. ClientInv(d)' /\ ~Session(d)'
    BY <1>1, <1>2, <1>5, <2>1, <2>2, <2>3 DEF ClientInv, Session
  <2>5. QED
    BY <1>2, <1>4, <2>4, OneClientStep, OthersUntouched
<1>10. QED
  BY <1>8, <1>9

LEMMA GoneSession ==
  ASSUME TypeOK, SessionInv, NEW d \in Clients, Crash(d) \/ ServerClosed(d)
  PROVE  SessionInv'
<1>1. ClientInv(d)
  BY DEF SessionInv
<1>2. /\ UNCHANGED <<accepting, subscribers, backlog, fdOf, up>>
      /\ proc' = [proc EXCEPT ![d] = "gone"]
  BY DEF Crash, ServerClosed
<1>3. /\ Waiting(d)' = Waiting(d) /\ Registered(d)' = Registered(d)
      /\ PendingExit(d)' = PendingExit(d)
  BY <1>2 DEF Waiting, Registered, PendingExit
<1>4. proc'[d] = "gone"
  BY <1>2 DEF TypeOK
<1>5. Session(d)' => Session(d)
  BY <1>3, <1>4 DEF Session
<1>6. ClientInv(d)'
  BY <1>1, <1>2, <1>3, <1>4, <1>5 DEF ClientInv, subscribers
<1>7. QED
  BY <1>2, <1>5, <1>6, OneClientStep, OthersUntouched DEF TypeOK

-----------------------------------------------------------------------------
\* The server.
LEMMA AcceptSession ==
  ASSUME TypeOK, SessionInv, Accept
  PROVE  SessionInv'
<1>1. CASE ServerStops("dead")
  BY <1>1, StopsStep DEF Accept, clients
<1>2. CASE ~ServerStops("dead")
  <2>0. PICK d \in Clients : d = Head(backlog)
    <3>1. backlog \in Seq(Clients)
      BY DEF TypeOK
    <3>2. backlog # <<>>
      BY DEF Accept
    <3>3. QED
      BY <3>1, <3>2
  <2>1. PICK fd \in FirstFd..(FirstFd + Cardinality(Clients)) :
          fdOf' = [fdOf EXCEPT ![d] = fd]
    BY <1>2, <2>0 DEF Accept
  <2>2. fd # 0
    BY BrokerAssumption, FS_CardinalityType
  <2>3. /\ accepting' = d /\ backlog' = Tail(backlog) /\ backlog # <<>>
        /\ accepting = NoClient
        /\ UNCHANGED <<proc, up, known, is_connected>>
    BY <1>2, <2>0 DEF Accept, InLoop, subscribers, clients
  <2>5. /\ Injective(backlog)'
        /\ ToSet(backlog') = ToSet(backlog) \ {d}
        /\ d \in ToSet(backlog)
    BY <2>0, <2>3, TailOfInjective DEF TypeOK, SessionInv
  <2>6. fdOf'[d] = fd /\ \A c \in Clients \ {d} : fdOf'[c] = fdOf[c]
    BY <2>1 DEF TypeOK
  <2>7. ClientInv(d)
    BY DEF SessionInv
  <2>8. Waiting(d) /\ Waiting(d)' /\ ~Registered(d) /\ ~Registered(d)'
    BY <2>3, <2>5, <2>7 DEF Waiting, Registered, ClientInv
  <2>9. ClientInv(d)' /\ ~Session(d)'
    BY <2>2, <2>3, <2>5, <2>6, <2>7, <2>8 DEF ClientInv, Session
  <2>10. ASSUME NEW c \in Clients \ {d} PROVE SameFor(c)
    <3>1. ClientInv(c) /\ c # NoClient
      BY BrokerAssumption DEF SessionInv
    <3>2. QED
      BY <2>3, <2>5, <2>6, <3>1 DEF SameFor, ClientInv
  <2>11. QED
    BY <2>5, <2>9, <2>10, OneClientStep
<1>3. QED
  BY <1>1, <1>2

LEMMA RegisterSession ==
  ASSUME TypeOK, SessionInv, NEW d \in Clients, RegisterClient(d)
  PROVE  SessionInv'
<1> DEFINE id == IF up[d] = <<>> THEN EmptyId ELSE IdOf[d]
           rest == IF up[d] = <<>> THEN <<>> ELSE Tail(up[d])
<1>1. /\ accepting = d /\ proc' = proc
      /\ up[d] # <<>> \/ proc[d] = "gone"
  BY DEF RegisterClient, Readable, clients
<1>2. \/ Reject(d)
      \/ id \in known /\ ~is_connected[id] /\ Wake(d, id, rest)
      \/ id \notin known /\ AddSubscriber(d, id, rest)
  BY DEF RegisterClient
<1>3. id \in AllIds /\ (up[d] # <<>> => id = IdOf[d])
  BY BrokerAssumption DEF AllIds
<1>4. ClientInv(d)
  BY DEF SessionInv
<1>5. /\ d \notin ToSet(backlog) /\ fdOf[d] # 0 /\ d # NoClient
      /\ Waiting(d) /\ ~Registered(d) /\ proc[d] \notin {"unstarted", "connecting"}
  BY <1>1, <1>4, BrokerAssumption DEF ClientInv, Waiting, Registered
<1>6. rest \in Seq(Message)
  BY DEF TypeOK
<1>7. /\ up[d] = <<>> => rest = <<>>
      /\ up[d] # <<>> => /\ DOMAIN up[d] = 1..Len(up[d])
                         /\ Len(up[d]) \in Nat \ {0}
                         /\ DOMAIN rest = 1..(Len(up[d]) - 1)
                         /\ Len(rest) = Len(up[d]) - 1
                         /\ \A i \in 1..(Len(up[d]) - 1) : rest[i] = up[d][i + 1]
  BY DEF TypeOK
<1> HIDE DEF id, rest
<1>8. \A i \in DOMAIN rest :
        /\ rest[i].cmd = "exit" => i = Len(rest) /\ proc[d] = "gone"
        /\ rest[i].cmd # "id"
  <2>1. CASE up[d] = <<>>
    BY <1>7, <2>1
  <2>2. CASE up[d] # <<>>
    <3>1. ASSUME NEW i \in DOMAIN rest
          PROVE  /\ i + 1 \in DOMAIN up[d] /\ i + 1 # 1
                 /\ rest[i] = up[d][i + 1]
                 /\ i + 1 = Len(up[d]) => i = Len(rest)
      BY <1>7, <2>2
    <3>2. QED
      BY <1>4, <3>1 DEF ClientInv
  <2>3. QED
    BY <2>1, <2>2
<1>9. CASE Reject(d)
  <2>1. /\ accepting' = NoClient /\ fdOf'[d] = 0 /\ up'[d] = <<>>
        /\ \A c \in Clients \ {d} : up'[c] = up[c] /\ fdOf'[c] = fdOf[c]
        /\ UNCHANGED <<backlog, known, is_connected>>
    BY <1>9 DEF Reject, TypeOK, subscribers
  <2>2. ClientInv(d)' /\ ~Session(d)'
    BY <1>1, <1>5, <2>1 DEF ClientInv, Session, Registered, Waiting
  <2>3. ASSUME NEW c \in Clients \ {d} PROVE SameFor(c)
    <3>1. ClientInv(c) /\ c # NoClient
      BY BrokerAssumption DEF SessionInv
    <3>2. QED
      BY <1>1, <2>1, <3>1 DEF SameFor, ClientInv
  <2>4. QED
    BY <2>1, <2>2, <2>3, OneClientStep DEF SessionInv
<1>10. CASE /\ id \notin known \/ ~is_connected[id]
            /\ id \in known'
            /\ known \subseteq known'
            /\ is_connected' = [is_connected EXCEPT ![id] = TRUE]
            /\ up' = [up EXCEPT ![d] = rest]
            /\ accepting' = NoClient
            /\ UNCHANGED <<backlog, fdOf>>
  <2>1. /\ up'[d] = rest
        /\ is_connected'[id]
        /\ \A c \in Clients \ {d} : up'[c] = up[c]
        /\ \A i \in AllIds : is_connected[i] => is_connected'[i]
    BY <1>3, <1>10 DEF TypeOK
  <2>2. Registered(d)' /\ ~Waiting(d)'
    BY <1>5, <1>10 DEF Registered, Waiting
  <2>3. Session(d)' => up[d] # <<>>
    BY <1>1, <1>7, <2>1 DEF Session, PendingExit
  <2>4. ASSUME up[d] # <<>>, NEW c \in Clients \ {d}, IdOf[c] = IdOf[d], Session(c)
        PROVE  FALSE
    <3>1. ClientInv(c)
      BY DEF SessionInv
    <3>2. QED
      BY <1>3, <1>10, <2>4, <3>1 DEF ClientInv
  <2>5. ClientInv(d)'
    BY <1>1, <1>3, <1>5, <1>8, <1>10, <2>1, <2>2, <2>3 DEF ClientInv
  <2>6. ASSUME NEW c \in Clients \ {d} PROVE SameFor(c)
    <3>1. ClientInv(c) /\ c # NoClient /\ IdOf[c] \in AllIds
      BY BrokerAssumption DEF SessionInv, AllIds
    <3>2. QED
      BY <1>1, <1>10, <2>1, <3>1 DEF SameFor, ClientInv
  <2>7. QED
    BY <1>10, <2>3, <2>4, <2>5, <2>6, OneClientStep DEF SessionInv
<1>11. CASE id \in known /\ ~is_connected[id] /\ Wake(d, id, rest)
  <2>1. CASE ServerStops("dead")
    BY <1>1, <2>1, StopsStep
  <2>2. CASE ~ServerStops("dead")
    BY <1>10, <1>11, <2>2 DEF Wake
  <2>3. QED
    BY <2>1, <2>2
<1>12. CASE id \notin known /\ AddSubscriber(d, id, rest)
  BY <1>10, <1>12 DEF AddSubscriber
<1>13. QED
  BY <1>2, <1>9, <1>11, <1>12

LEMMA CloseSession ==
  ASSUME TypeOK, SessionInv, NEW d \in Clients, CloseConnection(d)
  PROVE  SessionInv'
<1>1. /\ accepting = NoClient /\ fdOf[d] # 0 /\ up[d] = <<>> /\ proc[d] = "gone"
      /\ UNCHANGED <<accepting, subscribers, backlog, up, proc>>
      /\ fdOf'[d] = 0 /\ \A c \in Clients \ {d} : fdOf'[c] = fdOf[c]
  BY DEF CloseConnection, InLoop, clients, TypeOK
<1>2. ClientInv(d) /\ d # NoClient
  BY BrokerAssumption DEF SessionInv
<1>3. ClientInv(d)' /\ ~Session(d)'
  BY <1>1, <1>2 DEF ClientInv, Session, Registered, Waiting
<1>4. ASSUME NEW c \in Clients \ {d} PROVE SameFor(c)
  <2>1. ClientInv(c)
    BY DEF SessionInv
  <2>2. QED
    BY <1>1, <2>1 DEF SameFor, ClientInv, subscribers
<1>5. QED
  BY <1>1, <1>3, <1>4, OneClientStep DEF SessionInv

LEMMA HandleSession ==
  ASSUME TypeOK, SessionInv, NEW d \in Clients, HandleMessage(d)
  PROVE  SessionInv'
<1>1. /\ accepting = NoClient /\ fdOf[d] # 0 /\ up[d] # <<>>
      /\ UNCHANGED <<accepting, known, backlog, fdOf, proc>>
      /\ up'[d] = Tail(up[d]) /\ \A c \in Clients \ {d} : up'[c] = up[c]
  BY DEF HandleMessage, InLoop, clients, TypeOK
<1>2. ClientInv(d) /\ d # NoClient
  BY BrokerAssumption DEF SessionInv
<1>3. /\ Len(up[d]) \in Nat \ {0}
      /\ DOMAIN up[d] = 1..Len(up[d])
      /\ DOMAIN up'[d] = 1..(Len(up[d]) - 1)
      /\ Len(up'[d]) = Len(up[d]) - 1
      /\ \A i \in 1..(Len(up[d]) - 1) : up'[d][i] = up[d][i + 1]
      /\ Head(up[d]) = up[d][1] /\ 1 \in DOMAIN up[d]
      /\ up'[d] # <<>> => Len(up[d]) > 1
  <2>1. up[d] \in Seq(Message)
    BY DEF TypeOK
  <2>2. QED
    BY <1>1, <2>1
<1>4. ~Waiting(d) /\ ~Waiting(d)' /\ Registered(d) /\ Registered(d)'
  BY <1>1, <1>2 DEF Waiting, Registered, ClientInv
<1>5. PendingExit(d)' => PendingExit(d)
  <2>1. ASSUME NEW i \in DOMAIN up'[d]
        PROVE  i + 1 \in DOMAIN up[d] /\ up'[d][i] = up[d][i + 1]
    BY <1>3
  <2>2. QED
    BY <2>1 DEF PendingExit
<1>6. Session(d)' => Session(d)
  BY <1>1, <1>4, <1>5 DEF Session
<1>7. \A i \in DOMAIN up'[d] :
        /\ up'[d][i].cmd = "exit" => i = Len(up'[d]) /\ proc'[d] = "gone"
        /\ up'[d][i].cmd # "id"
  <2>1. ASSUME NEW i \in DOMAIN up'[d]
        PROVE  /\ i + 1 \in DOMAIN up[d] /\ up'[d][i] = up[d][i + 1]
               /\ i + 1 = Len(up[d]) => i = Len(up'[d])
    BY <1>3
  <2>2. QED
    BY <1>1, <1>2, <1>4, <2>1 DEF ClientInv
<1>8. IdOf[d] \in AllIds
  BY BrokerAssumption DEF AllIds
<1>9. CASE Head(up[d]).cmd = "exit"
  <2>1. proc[d] = "gone" /\ Len(up[d]) = 1
    BY <1>2, <1>3, <1>9 DEF ClientInv
  <2>2. Session(d)
    BY <1>3, <1>4, <1>9 DEF Session, PendingExit
  <2>3. ~Session(d)'
    BY <1>1, <1>3, <2>1 DEF Session, PendingExit
  <2>4. \A i \in AllIds \ {IdOf[d]} : is_connected'[i] = is_connected[i]
    BY <1>8 DEF HandleMessage, Disconnect, AddTopic, RemoveTopic, TypeOK
  <2>5. ASSUME NEW c \in Clients \ {d} PROVE SameFor(c)
    <3>1. ClientInv(c) /\ IdOf[c] \in AllIds
      BY BrokerAssumption DEF SessionInv, AllIds
    <3>2. Session(c) => IdOf[c] # IdOf[d]
      BY <2>2 DEF SessionInv
    <3>3. QED
      BY <1>1, <2>4, <3>1, <3>2 DEF SameFor, ClientInv
  <2>6. ClientInv(d)'
    BY <1>1, <1>2, <1>4, <1>7, <2>1, <2>3 DEF ClientInv
  <2>7. QED
    BY <1>1, <2>3, <2>5, <2>6, OneClientStep DEF SessionInv
<1>10. CASE Head(up[d]).cmd # "exit"
  <2>1. is_connected' = is_connected
    BY <1>10 DEF HandleMessage, AddTopic, RemoveTopic
  <2>2. ASSUME NEW c \in Clients \ {d} PROVE SameFor(c)
    <3>1. ClientInv(c)
      BY DEF SessionInv
    <3>2. QED
      BY <1>1, <2>1, <3>1 DEF SameFor, ClientInv
  <2>3. ClientInv(d)'
    BY <1>1, <1>2, <1>4, <1>6, <1>7, <2>1 DEF ClientInv
  <2>4. QED
    BY <1>1, <1>6, <2>2, <2>3, OneClientStep DEF SessionInv
<1>11. QED
  BY <1>9, <1>10

-----------------------------------------------------------------------------
LEMMA SessionStep == TypeOK /\ SessionInv /\ [Next]_vars => SessionInv'
<1> SUFFICES ASSUME TypeOK, SessionInv, [Next]_vars PROVE SessionInv'
  OBVIOUS
<1>1. ASSUME UNCHANGED <<accepting, known, is_connected, backlog, fdOf, up, proc>>
      PROVE  SessionInv'
  <2>1. ASSUME NEW c \in Clients PROVE SameFor(c)
    <3>1. ClientInv(c)
      BY DEF SessionInv
    <3>2. QED
      BY <1>1, <3>1 DEF SameFor, ClientInv
  <2>2. QED
    BY <1>1, <2>1, NobodyStep DEF SessionInv
<1>2. ASSUME NEW c \in Clients, Client(c) PROVE SessionInv'
  <2>1. CASE ReceiveNotification(c)
    BY <1>1, <2>1 DEF ReceiveNotification, subscribers
  <2>2. ASSUME NEW t \in Topics,
               Unsubscribe(c, t) \/ \E sf \in {0, 1} : Subscribe(c, t, sf)
        PROVE  SessionInv'
    <3>1. \A cmd \in {"subscribe", "unsubscribe"}, sf \in {0, 1} :
            [cmd |-> cmd, topic |-> t, sf |-> sf] \in Message
      BY DEF Message
    <3>2. QED
      BY <2>2, <3>1, WriteSession DEF Subscribe, Unsubscribe
  <2>3. QED
    BY <1>2, <2>1, <2>2, LaunchSession, WriteSession, GoneSession DEF Client
<1>3. ASSUME NEW t \in Topics, Publish(t) PROVE SessionInv'
  <2>1. CASE ServerStops("dead")
    BY <1>3, <2>1, StopsStep DEF Publish, clients
  <2>2. CASE ~ServerStops("dead")
    BY <1>1, <1>3, <2>2 DEF Publish, clients
  <2>3. QED
    BY <2>1, <2>2
<1>4. CASE ServerExit
  BY <1>4, StopsStep DEF ServerExit, clients
<1>5. CASE UNCHANGED vars
  BY <1>1, <1>5 DEF vars, subscribers, clients
<1>6. QED
  BY <1>2, <1>3, <1>4, <1>5, AcceptSession, RegisterSession, CloseSession,
     HandleSession DEF Next, Server

LEMMA SessionAlways == Spec => []SessionInv
<1>1. Init => SessionInv
  <2> SUFFICES ASSUME Init PROVE SessionInv
    OBVIOUS
  <2>1. ToSet(backlog) = {} /\ Injective(backlog)
    BY DEF Init, ToSet, Injective
  <2>2. ASSUME NEW c \in Clients PROVE ClientInv(c) /\ ~Session(c)
    BY <2>1, BrokerAssumption
       DEF Init, EveryClient, ClientInv, Session, Registered, Waiting
  <2>3. QED
    BY <2>1, <2>2 DEF SessionInv
<1>2. QED
  BY <1>1, SessionStep, TypeCorrect, PTL DEF Spec

\* Two processes of one identifier are never served at the same time.
THEOREM OneSessionPerIdentifier == Spec => []OneLiveSession
<1>1. SessionInv => OneLiveSession
  BY DEF SessionInv, OneLiveSession, Session
<1>2. QED
  BY <1>1, SessionAlways, PTL

\* tcp_handler reads identifiers and nothing else does.
THEOREM IdentifiersReadFirst == Spec => []IdentifierFirst
<1>1. SessionInv => IdentifierFirst
  BY DEF SessionInv, ClientInv, IdentifierFirst, Waiting
<1>2. QED
  BY <1>1, SessionAlways, PTL

-----------------------------------------------------------------------------
(* Why a login is refused (BrokerKilled): whoever is connected in the map  *)
(* has a session, or one of its runs was killed.                           *)

Holds(c) == Session(c) \/ c \in killed

HeldInv ==
  /\ \A c \in Clients : c \in killed => proc[c] = "gone"
  /\ \A c \in Clients :
       Waiting(c) /\ proc[c] = "gone" => c \in killed \/ PendingExit(c)
  /\ \A id \in Ids :
       id \in known /\ is_connected[id] =>
         \E c \in Clients : IdOf[c] = id /\ Holds(c)

\* A step that changes nothing about c or its connection.
Untouched(c) ==
  /\ proc'[c] = proc[c] /\ up'[c] = up[c] /\ fdOf'[c] = fdOf[c]
  /\ accepting' = c <=> accepting = c
  /\ c \in ToSet(backlog') <=> c \in ToSet(backlog)

LEMMA UntouchedKeeps ==
  ASSUME NEW c \in Clients, Untouched(c)
  PROVE  /\ Session(c)' <=> Session(c)
         /\ Waiting(c)' <=> Waiting(c)
         /\ PendingExit(c)' <=> PendingExit(c)
BY DEF Untouched, Session, Registered, Waiting, PendingExit

\* A step of one client or one connection.
LEMMA OneHeldStep ==
  ASSUME HeldInv, NEW d \in Clients, killed \subseteq killed',
         \A c \in Clients \ {d} : Untouched(c) /\ (c \in killed' => c \in killed),
         d \in killed' => proc'[d] = "gone",
         Waiting(d)' /\ proc'[d] = "gone" => d \in killed' \/ PendingExit(d)',
         \A id \in Ids \ {IdOf[d]} :
           id \in known' /\ is_connected'[id] => id \in known /\ is_connected[id],
         IdOf[d] \in known' /\ is_connected'[IdOf[d]] =>
           \/ Session(d)' \/ d \in killed'
           \/ ~Session(d) /\ IdOf[d] \in known /\ is_connected[IdOf[d]]
  PROVE  HeldInv'
<1>1. \A c \in Clients \ {d} : /\ Session(c)' <=> Session(c)
                               /\ Waiting(c)' <=> Waiting(c)
                               /\ PendingExit(c)' <=> PendingExit(c)
                               /\ proc'[c] = proc[c]
  <2> SUFFICES ASSUME NEW c \in Clients \ {d}
      PROVE  /\ Session(c)' <=> Session(c)
             /\ Waiting(c)' <=> Waiting(c)
             /\ PendingExit(c)' <=> PendingExit(c)
             /\ proc'[c] = proc[c]
    OBVIOUS
  <2>1. Untouched(c)
    OBVIOUS
  <2>2. QED
    BY <2>1, UntouchedKeeps DEF Untouched
<1>2. ASSUME NEW c \in Clients, c \in killed' PROVE proc'[c] = "gone"
  BY <1>1, <1>2 DEF HeldInv
<1>3. ASSUME NEW c \in Clients, Waiting(c)', proc'[c] = "gone"
      PROVE  c \in killed' \/ PendingExit(c)'
  BY <1>1, <1>3 DEF HeldInv
<1>4. ASSUME NEW id \in Ids, id \in known', is_connected'[id]
      PROVE  \E c \in Clients : IdOf[c] = id /\ (Session(c)' \/ c \in killed')
  <2>1. CASE id = IdOf[d] /\ (Session(d)' \/ d \in killed')
    BY <2>1
  <2>2. CASE /\ id \in known /\ is_connected[id]
             /\ id = IdOf[d] => ~Session(d)
    <3>1. PICK c \in Clients : IdOf[c] = id /\ Holds(c)
      BY <2>2 DEF HeldInv
    <3>2. QED
      BY <1>1, <2>2, <3>1 DEF Holds
  <2>3. QED
    BY <1>4, <2>1, <2>2
<1>5. QED
  BY <1>2, <1>3, <1>4 DEF HeldInv, Holds

Kills == killed' = killed \cup KilledNow

LEMMA KilledGrows ==
  ASSUME Kills
  PROVE  /\ killed \subseteq killed'
         /\ \A c \in Clients :
              c \in killed' <=> \/ c \in killed
                                \/ /\ proc[c] # "gone" /\ proc'[c] = "gone"
                                   /\ Reachable(c) /\ up'[c] = up[c]
BY DEF Kills, KilledNow

\* What a client does to its own connection.
LEMMA ClientHeld ==
  ASSUME HeldInv, Kills, NEW d \in Clients,
         UNCHANGED <<accepting, known, is_connected, fdOf>>,
         \A c \in Clients \ {d} : Untouched(c),
         proc[d] = "gone" => proc'[d] = "gone",
         Session(d) => Session(d)' \/ d \in killed',
         Waiting(d)' /\ proc'[d] = "gone" => d \in killed' \/ PendingExit(d)'
  PROVE  HeldInv'
<1>1. \A c \in Clients \ {d} : c \in killed' => c \in killed
  BY KilledGrows DEF Untouched
<1>2. d \in killed' => proc'[d] = "gone"
  BY KilledGrows DEF HeldInv
<1>3. QED
  BY <1>1, <1>2, KilledGrows, OneHeldStep

LEMMA LaunchHeld ==
  ASSUME TypeOK, SessionInv, HeldInv, Kills, NEW d \in Clients, Launch(d)
  PROVE  HeldInv'
<1>1. ClientInv(d)
  BY DEF SessionInv
<1>2. ~Session(d)
  BY <1>1 DEF Launch, ClientInv, Session, Registered
<1>3. proc'[d] = "connecting" /\ proc[d] = "unstarted"
  BY DEF Launch, TypeOK
<1>4. ToSet(backlog') = ToSet(backlog) \cup {d}
  BY ToSetAppend DEF Launch, TypeOK
<1>5. \A c \in Clients \ {d} : Untouched(c)
  BY <1>4 DEF Launch, TypeOK, Untouched
<1>6. UNCHANGED <<accepting, known, is_connected, fdOf>>
  BY DEF Launch, subscribers
<1>7. QED
  BY <1>2, <1>3, <1>5, <1>6, ClientHeld

LEMMA WriteHeld ==
  ASSUME TypeOK, SessionInv, HeldInv, Kills, NEW d \in Clients,
         NEW msg \in Message, NEW state \in {"running", "gone"},
         WriteAs(d, msg, state), state = "gone" => msg.cmd = "exit",
         proc[d] \in {"connecting", "running"},
         UNCHANGED <<accepting, known, is_connected, backlog, fdOf>>
  PROVE  HeldInv'
<1>1. ClientInv(d)
  BY DEF SessionInv
<1>2. \A c \in Clients \ {d} : Untouched(c)
  BY DEF WriteAs, TypeOK, Untouched
<1>3. (Registered(d)' <=> Registered(d)) /\ (Waiting(d)' <=> Waiting(d))
  BY DEF Registered, Waiting
<1>4. Registered(d) \/ Waiting(d) => Reachable(d)
  BY <1>1 DEF Waiting, Registered, Reachable, ClientInv
<1>5. CASE Reachable(d)
  <2>1. proc'[d] = state /\ up'[d] = Append(up[d], msg)
    BY <1>5 DEF WriteAs, TypeOK
  <2>2. /\ Len(up[d]) + 1 \in DOMAIN up'[d]
        /\ up'[d][Len(up[d]) + 1] = msg
    <3>1. up[d] \in Seq(Message)
      BY DEF TypeOK
    <3>2. QED
      BY <2>1, <3>1
  <2>3. state = "gone" => PendingExit(d)'
    BY <2>2 DEF PendingExit
  <2>4. Registered(d) => Session(d)'
    BY <1>3, <2>1, <2>3 DEF Session
  <2>5. QED
    BY <1>2, <2>1, <2>3, <2>4, ClientHeld DEF Session
<1>6. CASE ~Reachable(d)
  BY <1>2, <1>3, <1>4, <1>6, ClientHeld DEF Session
<1>7. QED
  BY <1>5, <1>6

LEMMA GoneHeld ==
  ASSUME TypeOK, SessionInv, HeldInv, Kills, NEW d \in Clients,
         Crash(d) \/ ServerClosed(d)
  PROVE  HeldInv'
<1>1. ClientInv(d)
  BY DEF SessionInv
<1>2. /\ UNCHANGED <<accepting, known, is_connected, backlog, fdOf, up>>
      /\ proc' = [proc EXCEPT ![d] = "gone"] /\ proc[d] # "gone"
  BY DEF Crash, ServerClosed, subscribers
<1>3. proc'[d] = "gone" /\ \A c \in Clients \ {d} : proc'[c] = proc[c]
  BY <1>2 DEF TypeOK
<1>4. Registered(d) \/ Waiting(d) => Reachable(d)
  BY <1>1 DEF Waiting, Registered, Reachable, ClientInv
<1>5. Reachable(d) => d \in killed'
  BY <1>2, <1>3, KilledGrows
<1>6. Waiting(d)' <=> Waiting(d)
  BY <1>2 DEF Waiting
<1>7. \A c \in Clients \ {d} : Untouched(c)
  BY <1>2, <1>3 DEF Untouched
<1>8. QED
  BY <1>2, <1>3, <1>4, <1>5, <1>6, <1>7, ClientHeld DEF Session

\* What the server does about one client: the client's process goes on.
LEMMA ServerHeld ==
  ASSUME HeldInv, Kills, NEW d \in Clients, proc' = proc,
         \A c \in Clients \ {d} : Untouched(c),
         Waiting(d)' /\ proc[d] = "gone" =>
           Waiting(d) /\ (PendingExit(d) => PendingExit(d)'),
         \A id \in Ids \ {IdOf[d]} :
           id \in known' /\ is_connected'[id] => id \in known /\ is_connected[id],
         IdOf[d] \in known' /\ is_connected'[IdOf[d]] =>
           \/ Session(d)' \/ d \in killed
           \/ ~Session(d) /\ IdOf[d] \in known /\ is_connected[IdOf[d]]
  PROVE  HeldInv'
<1>1. killed' = killed
  BY DEF Kills, KilledNow
<1>2. d \in killed' => proc'[d] = "gone"
  BY <1>1 DEF HeldInv
<1>3. Waiting(d)' /\ proc'[d] = "gone" => d \in killed' \/ PendingExit(d)'
  BY <1>1 DEF HeldInv
<1>4. QED
  BY <1>1, <1>2, <1>3, OneHeldStep

LEMMA StopsHeld ==
  ASSUME HeldInv, Kills, NEW how, ServerStops(how), proc' = proc
  PROVE  HeldInv'
<1>1. killed' = killed
  BY DEF Kills, KilledNow
<1>2. known' = {} /\ ToSet(backlog') = {} /\ accepting' = NoClient
  BY DEF ServerStops, ToSet
<1>3. \A c \in Clients : ~Waiting(c)'
  BY <1>2, BrokerAssumption DEF Waiting
<1>4. QED
  BY <1>1, <1>2, <1>3 DEF HeldInv

LEMMA AcceptHeld ==
  ASSUME TypeOK, SessionInv, HeldInv, Kills, Accept
  PROVE  HeldInv'
<1>1. CASE ServerStops("dead")
  BY <1>1, StopsHeld DEF Accept, clients
<1>2. CASE ~ServerStops("dead")
  <2>1. backlog \in Seq(Clients) /\ backlog # <<>>
    BY DEF Accept, TypeOK
  <2>2. PICK d \in Clients : d = Head(backlog)
    BY <2>1
  <2>3. /\ accepting' = d /\ backlog' = Tail(backlog) /\ accepting = NoClient
        /\ \A c \in Clients \ {d} : fdOf'[c] = fdOf[c]
        /\ UNCHANGED <<proc, up, known, is_connected>>
    BY <1>2, <2>2 DEF Accept, InLoop, subscribers, clients, TypeOK
  <2>4. /\ ToSet(backlog') = ToSet(backlog) \ {d}
        /\ d \in ToSet(backlog)
    BY <2>1, <2>2, <2>3, TailOfInjective DEF SessionInv
  <2>5. ASSUME NEW c \in Clients \ {d} PROVE Untouched(c)
    <3>1. c # NoClient
      BY BrokerAssumption
    <3>2. QED
      BY <2>3, <2>4, <3>1 DEF Untouched
  <2>6. Waiting(d) /\ (PendingExit(d)' <=> PendingExit(d))
    BY <2>3, <2>4 DEF Waiting, PendingExit
  <2>7. ~Session(d)
    BY <2>4 DEF SessionInv, ClientInv, Session, Registered
  <2>8. QED
    BY <2>3, <2>5, <2>6, <2>7, ServerHeld
<1>3. QED
  BY <1>1, <1>2

LEMMA RegisterHeld ==
  ASSUME TypeOK, SessionInv, SessionInv', HeldInv, Kills,
         NEW d \in Clients, RegisterClient(d)
  PROVE  HeldInv'
<1> DEFINE id == IF up[d] = <<>> THEN EmptyId ELSE IdOf[d]
           rest == IF up[d] = <<>> THEN <<>> ELSE Tail(up[d])
<1>1. /\ accepting = d /\ proc' = proc /\ d # NoClient
      /\ up[d] # <<>> \/ proc[d] = "gone"
  BY BrokerAssumption DEF RegisterClient, Readable, clients
<1>2. CASE ServerStops("dead")
  BY <1>1, <1>2, StopsHeld
<1>3. CASE ~ServerStops("dead")
  <2>1. ClientInv(d) /\ Waiting(d) /\ ~Session(d) /\ fdOf[d] # 0
    BY <1>1 DEF SessionInv, ClientInv, Session, Registered, Waiting
  <2>2. /\ accepting' = NoClient /\ backlog' = backlog
        /\ \A c \in Clients \ {d} : up'[c] = up[c] /\ fdOf'[c] = fdOf[c]
    BY <1>3 DEF RegisterClient, Reject, Wake, AddSubscriber, TypeOK
  <2>3. ASSUME NEW c \in Clients \ {d} PROVE Untouched(c)
    <3>1. c # NoClient
      BY BrokerAssumption
    <3>2. QED
      BY <1>1, <2>2, <3>1 DEF Untouched
  <2>4. ~Waiting(d)'
    BY <1>1, <2>1, <2>2 DEF Waiting, ClientInv
  <2>5. CASE Reject(d)
    BY <1>1, <2>1, <2>3, <2>4, <2>5, ServerHeld DEF Reject, subscribers
  <2>6. CASE Wake(d, id, rest) \/ AddSubscriber(d, id, rest)
    <3>1. /\ known' \subseteq known \cup {id}
          /\ is_connected' = [is_connected EXCEPT ![id] = TRUE]
          /\ up' = [up EXCEPT ![d] = rest] /\ fdOf' = fdOf
      BY <1>3, <2>6 DEF Wake, AddSubscriber
    <3>2. id \in AllIds /\ EmptyId \notin Ids /\ Ids \subseteq AllIds /\ IdOf[d] \in Ids
      BY BrokerAssumption DEF AllIds
    <3>3. \A i \in Ids \ {id} :
            i \in known' /\ is_connected'[i] => i \in known /\ is_connected[i]
      BY <3>1, <3>2 DEF TypeOK
    <3>4. CASE up[d] = <<>>
      BY <1>1, <2>1, <2>3, <2>4, <3>2, <3>3, <3>4, ServerHeld
    <3>5. CASE up[d] # <<>>
      <4>1. Registered(d)'
        BY <1>1, <2>1, <2>2, <3>1 DEF Registered
      <4>2. PendingExit(d) => PendingExit(d)'
        <5>1. up[d] \in Seq(Message)
          BY DEF TypeOK
        <5>2. up'[d] = Tail(up[d])
          BY <3>1, <3>5 DEF TypeOK
        <5>3. ASSUME NEW i \in DOMAIN up[d], up[d][i].cmd = "exit"
              PROVE  i - 1 \in DOMAIN up'[d] /\ up'[d][i - 1] = up[d][i]
          <6>1. i # 1
            BY <2>1, <5>3 DEF ClientInv
          <6>2. QED
            BY <3>5, <5>1, <5>2, <6>1
        <5>4. QED
          BY <5>3 DEF PendingExit
      <4>3. proc[d] \in {"running", "gone"}
        BY <2>1, <3>5 DEF ClientInv, TypeOK
      <4>4. Session(d)' \/ d \in killed
        BY <1>1, <2>1, <4>1, <4>2, <4>3 DEF Session, HeldInv
      <4>5. QED
        BY <1>1, <2>3, <2>4, <3>3, <3>5, <4>4, ServerHeld
    <3>6. QED
      BY <3>4, <3>5
  <2>7. QED
    BY <2>5, <2>6 DEF RegisterClient
<1>4. QED
  BY <1>2, <1>3

LEMMA CloseHeld ==
  ASSUME TypeOK, SessionInv, HeldInv, Kills, NEW d \in Clients, CloseConnection(d)
  PROVE  HeldInv'
<1>1. /\ accepting = NoClient /\ fdOf[d] # 0 /\ up[d] = <<>> /\ proc[d] = "gone"
      /\ UNCHANGED <<accepting, known, is_connected, backlog, up, proc>>
      /\ \A c \in Clients \ {d} : fdOf'[c] = fdOf[c]
  BY DEF CloseConnection, InLoop, clients, subscribers, TypeOK
<1>2. ~Session(d)
  BY <1>1 DEF Session, PendingExit
<1>3. (Waiting(d)' <=> Waiting(d)) /\ (PendingExit(d)' <=> PendingExit(d))
  BY <1>1 DEF Waiting, PendingExit
<1>4. \A c \in Clients \ {d} : Untouched(c)
  BY <1>1 DEF Untouched
<1>5. QED
  BY <1>1, <1>2, <1>3, <1>4, ServerHeld

LEMMA HandleHeld ==
  ASSUME TypeOK, SessionInv, HeldInv, Kills, NEW d \in Clients, HandleMessage(d)
  PROVE  HeldInv'
<1>1. /\ accepting = NoClient /\ fdOf[d] # 0 /\ up[d] # <<>>
      /\ UNCHANGED <<accepting, known, backlog, fdOf, proc>>
      /\ up'[d] = Tail(up[d]) /\ \A c \in Clients \ {d} : up'[c] = up[c]
  BY DEF HandleMessage, InLoop, clients, TypeOK
<1>2. ClientInv(d) /\ d # NoClient /\ IdOf[d] \in AllIds /\ Ids \subseteq AllIds
  BY BrokerAssumption DEF SessionInv, AllIds
<1>3. ~Waiting(d) /\ ~Waiting(d)' /\ Registered(d)'
  BY <1>1, <1>2 DEF Waiting, Registered, ClientInv
<1>4. \A c \in Clients \ {d} : Untouched(c)
  BY <1>1 DEF Untouched
<1>5. CASE Head(up[d]).cmd = "exit"
  <2>1. IdOf[d] \in known =>
          is_connected' = [is_connected EXCEPT ![IdOf[d]] = FALSE]
    BY <1>5 DEF HandleMessage, Disconnect, Plain
  <2>2. IdOf[d] \notin known => is_connected' = is_connected
    BY DEF HandleMessage
  <2>3. ~(IdOf[d] \in known' /\ is_connected'[IdOf[d]])
    BY <1>1, <1>2, <2>1 DEF TypeOK
  <2>4. \A id \in Ids \ {IdOf[d]} : is_connected'[id] = is_connected[id]
    BY <1>2, <2>1, <2>2 DEF TypeOK
  <2>5. QED
    BY <1>1, <1>3, <1>4, <2>3, <2>4, ServerHeld
<1>6. CASE Head(up[d]).cmd # "exit"
  <2>1. is_connected' = is_connected
    BY <1>6 DEF HandleMessage, AddTopic, RemoveTopic
  <2>2. PendingExit(d) => PendingExit(d)'
    <3>1. up[d] \in Seq(Message)
      BY DEF TypeOK
    <3>2. ASSUME NEW i \in DOMAIN up[d], up[d][i].cmd = "exit"
          PROVE  i - 1 \in DOMAIN up'[d] /\ up'[d][i - 1] = up[d][i]
      <4>1. i # 1
        BY <1>1, <1>6, <3>1, <3>2
      <4>2. QED
        BY <1>1, <3>1, <4>1
    <3>3. QED
      BY <3>2 DEF PendingExit
  <2>3. Session(d) => Session(d)'
    BY <1>1, <1>3, <2>2 DEF Session
  <2>4. QED
    BY <1>1, <1>3, <1>4, <2>1, <2>3, ServerHeld
<1>7. QED
  BY <1>5, <1>6

LEMMA HeldStep ==
  TypeOK /\ SessionInv /\ SessionInv' /\ HeldInv /\ [KilledNext]_<<vars, killed>>
    => HeldInv'
<1> SUFFICES ASSUME TypeOK, SessionInv, SessionInv', HeldInv,
                    [KilledNext]_<<vars, killed>>
             PROVE  HeldInv'
  OBVIOUS
<1>1. CASE UNCHANGED <<vars, killed>>
  <2>1. \A c \in Clients : Untouched(c)
    BY <1>1 DEF vars, clients, Untouched
  <2>2. \A c \in Clients : /\ Session(c)' <=> Session(c)
                           /\ Waiting(c)' <=> Waiting(c)
                           /\ PendingExit(c)' <=> PendingExit(c)
    BY <2>1, UntouchedKeeps
  <2>3. UNCHANGED <<known, is_connected, proc, killed>>
    BY <1>1 DEF vars, subscribers, clients
  <2>4. QED
    BY <2>2, <2>3 DEF HeldInv, Holds
<1>2. CASE Next /\ Kills
  <2>1. ASSUME UNCHANGED <<accepting, known, is_connected, backlog, fdOf, up, proc>>
        PROVE  HeldInv'
    <3>1. killed' = killed
      BY <1>2, <2>1 DEF Kills, KilledNow
    <3>2. \A c \in Clients : Untouched(c)
      BY <2>1 DEF Untouched
    <3>3. \A c \in Clients : /\ Session(c)' <=> Session(c)
                             /\ Waiting(c)' <=> Waiting(c)
                             /\ PendingExit(c)' <=> PendingExit(c)
      BY <3>2, UntouchedKeeps
    <3>4. QED
      BY <2>1, <3>1, <3>3 DEF HeldInv, Holds
  <2>2. ASSUME NEW c \in Clients, Client(c) PROVE HeldInv'
    <3>1. CASE ReceiveNotification(c)
      BY <2>1, <3>1 DEF ReceiveNotification, subscribers
    <3>2. CASE SendRegister(c)
      BY <1>2, <3>2, PlainType, WriteHeld DEF SendRegister, subscribers
    <3>3. CASE Exit(c)
      BY <1>2, <3>3, PlainType, WriteHeld DEF Exit, subscribers, Plain
    <3>4. ASSUME NEW t \in Topics,
                 Unsubscribe(c, t) \/ \E sf \in {0, 1} : Subscribe(c, t, sf)
          PROVE  HeldInv'
      <4>1. \A cmd \in {"subscribe", "unsubscribe"}, sf \in {0, 1} :
              [cmd |-> cmd, topic |-> t, sf |-> sf] \in Message
        BY DEF Message
      <4>2. PICK msg \in Message : TypeCommand(c, msg)
        BY <3>4, <4>1 DEF Subscribe, Unsubscribe
      <4>3. QED
        BY <1>2, <4>2, WriteHeld DEF TypeCommand, subscribers
    <3>5. QED
      BY <1>2, <2>2, <3>1, <3>2, <3>3, <3>4, LaunchHeld, GoneHeld DEF Client
  <2>3. ASSUME NEW t \in Topics, Publish(t) PROVE HeldInv'
    <3>1. CASE ServerStops("dead")
      BY <1>2, <2>3, <3>1, StopsHeld DEF Publish, clients
    <3>2. CASE ~ServerStops("dead")
      BY <2>1, <2>3, <3>2 DEF Publish, clients
    <3>3. QED
      BY <3>1, <3>2
  <2>4. CASE ServerExit
    BY <1>2, <2>4, StopsHeld DEF ServerExit, clients
  <2>5. QED
    BY <1>2, <2>2, <2>3, <2>4, AcceptHeld, RegisterHeld, CloseHeld, HandleHeld
       DEF Next, Server
<1>3. QED
  BY <1>1, <1>2 DEF KilledNext, Kills

\* What is refused while a step is taken: tcp_handler's check found the
\* identifier connected.
LEMMA RefusedForAnother ==
  ASSUME TypeOK, SessionInv, HeldInv, [Next]_vars, NEW c \in Clients,
         accepting = c, proc[c] # "gone",
         accepting' = NoClient, fdOf'[c] = 0, server' = "running"
  PROVE  \E d \in Clients \ {c} : IdOf[d] = IdOf[c] /\ (fdOf[d] # 0 \/ d \in killed)
<1>1. c # NoClient /\ fdOf[c] # 0
  BY BrokerAssumption DEF SessionInv, ClientInv
<1>2. \A how \in {"dead", "exited"} : ~ServerStops(how)
  BY DEF ServerStops
<1>3. RegisterClient(c)
  <2>1. \A d \in Clients : ~Client(d)
    BY <1>1 DEF Client, Launch, SendRegister, Exit, Crash, ReceiveNotification,
                ServerClosed, Subscribe, Unsubscribe, TypeCommand
  <2>2. ~Accept /\ ~ServerExit /\ \A t \in Topics : ~Publish(t)
    BY <1>1 DEF Accept, ServerExit, Publish, InLoop
  <2>3. \A d \in Clients : ~CloseConnection(d) /\ ~HandleMessage(d)
    BY <1>1 DEF CloseConnection, HandleMessage, InLoop
  <2>4. ~UNCHANGED vars
    BY <1>1 DEF vars
  <2>5. \A d \in Clients : RegisterClient(d) => d = c
    BY DEF RegisterClient
  <2>6. QED
    BY <2>1, <2>2, <2>3, <2>4, <2>5 DEF Next, Server
<1>4. up[c] # <<>>
  BY <1>3 DEF RegisterClient, Readable
<1>5. IdOf[c] \in known /\ is_connected[IdOf[c]]
  BY <1>1, <1>2, <1>3, <1>4 DEF RegisterClient, Wake, AddSubscriber
<1>6. PICK d \in Clients : IdOf[d] = IdOf[c] /\ Holds(d)
  BY <1>5, BrokerAssumption DEF HeldInv
<1>7. ~Holds(c)
  BY DEF Holds, Session, Registered, HeldInv
<1>8. QED
  BY <1>6, <1>7 DEF Holds, Session, Registered

\* A login is refused only while another connection of its identifier is
\* open, or after one of that identifier was killed.
THEOREM RefusedOnlyIfConnected == KilledSpec => RejectedOnlyIfConnected
<1>1. KilledInit => Init
  BY DEF KilledInit
<1>2. [KilledNext]_<<vars, killed>> => [Next]_vars
  BY DEF KilledNext, vars
<1>3. KilledSpec => [](TypeOK /\ SessionInv)
  BY <1>1, <1>2, TypeCorrect, SessionAlways, PTL DEF KilledSpec, Spec
<1>4. KilledInit => HeldInv
  <2> SUFFICES ASSUME KilledInit PROVE HeldInv
    OBVIOUS
  <2>1. killed = {} /\ known = {} /\ ToSet(backlog) = {} /\ accepting = NoClient
    BY DEF KilledInit, Init, ToSet
  <2>2. \A c \in Clients : ~Waiting(c)
    BY <2>1, BrokerAssumption DEF Waiting
  <2>3. QED
    BY <2>1, <2>2 DEF HeldInv
<1>5. KilledSpec => []HeldInv
  BY <1>3, <1>4, HeldStep, PTL DEF KilledSpec
<1>6. TypeOK /\ SessionInv /\ HeldInv /\ [KilledNext]_<<vars, killed>>
        => [\A c \in Clients :
              /\ accepting = c /\ proc[c] # "gone"
              /\ accepting' = NoClient /\ fdOf'[c] = 0 /\ server' = "running"
              => \E d \in Clients \ {c} :
                   IdOf[d] = IdOf[c] /\ (fdOf[d] # 0 \/ d \in killed)]_<<vars, killed>>
  BY <1>2, RefusedForAnother
<1>7. QED
  BY <1>3, <1>5, <1>6, PTL DEF KilledSpec, RejectedOnlyIfConnected


-----------------------------------------------------------------------------
(* Orderly users and no killed clients.  The server never updates the      *)
(* descriptor it stored with a subscriber; that it still is the right one  *)
(* follows from how the kernel numbers descriptors and from who may come   *)
(* and go.                                                                 *)

\* The server's descriptors: different for different connections, and the
\* one tcp_handler has just got from accept is the lowest that was free.
FdInv ==
  /\ \A c \in Clients : fdOf[c] # 0 => fdOf[c] >= FirstFd
  /\ \A c, d \in Clients : fdOf[c] # 0 /\ fdOf[c] = fdOf[d] => c = d
  /\ \A c \in Clients : accepting = c =>
       \A f \in FirstFd..(fdOf[c] - 1) : \E d \in Clients : fdOf[d] = f

\* The numbers stored in the map: one each, and none left out.
Numbered ==
  /\ known \subseteq Ids
  /\ \A i \in known : socketfd[i] >= FirstFd
  /\ \A i, j \in known : socketfd[i] = socketfd[j] => i = j
  /\ \A i \in known : \A f \in FirstFd..(socketfd[i] - 1) :
       \E j \in known : socketfd[j] = f

\* c has ended and the server has not closed its connection yet.
Leaving(c) == Registered(c) /\ proc[c] = "gone"

\* c is in the map under the number of its own connection.
InMap(c) ==
  /\ IdOf[c] \in known
  /\ fdOf[c] = socketfd[IdOf[c]]
  /\ is_connected[IdOf[c]] => Session(c)

\* While one leaves nobody arrives, nor leaves another.
LeavesAlone(c) ==
  /\ accepting = NoClient
  /\ backlog = <<>>
  /\ \A d \in Clients : Leaving(d) => d = c
  /\ Away \subseteq {IdOf[c]}
  /\ \A i \in DOMAIN up[c] : up[c][i].cmd = "exit"

\* While one arrives nobody else does; if somebody is away, it is the one
\* who comes back, or else the newcomer will be turned away.
ArrivesAlone(c) ==
  /\ proc[c] # "gone"
  /\ \A d \in Clients : Waiting(d) => d = c
  /\ \/ Away = {}
     \/ IdOf[c] \in Away
     \/ IdOf[c] \in known /\ is_connected[IdOf[c]]

OrderInv ==
  /\ server # "running" => known = {}
  /\ Numbered
  /\ \A i, j \in Away : i = j
  /\ SocketMatches
  /\ \A c \in Clients : /\ Registered(c) => InMap(c)
                        /\ Leaving(c) => LeavesAlone(c)
                        /\ Waiting(c) => ArrivesAlone(c)

\* What c was sent, in order, as far as it was not lost when c ended.
Story(c) == printed[c] \o down[c]

Increasing(s) == \A i, j \in DOMAIN s : i < j => s[i] < s[j]

\* What is known of one client's story: it holds what was addressed to the
\* client's identifier, and all of it is older than what is stored for that.
StoryOf(c) ==
  /\ proc[c] \in {"unstarted", "connecting"} \/ Waiting(c) => Story(c) = <<>>
  /\ down[c] # <<>> =>
       /\ proc[c] = "running"
       /\ server = "running" => Registered(c)
  /\ Increasing(Story(c))
  /\ \A n \in ToSet(Story(c)) :
       /\ n \in DOMAIN datagrams
       /\ IdOf[c] \in datagrams[n].to
       /\ \A m \in ToSet(notifications[IdOf[c]]) : n < m

StoryInv ==
  /\ Len(datagrams) <= MaxDatagrams
  /\ \A id \in AllIds \ known : topics[id] = <<>> /\ notifications[id] = <<>>
  /\ \A c \in Clients : StoryOf(c)
  /\ \A c, d \in Clients :
       c # d /\ IdOf[c] = IdOf[d] =>
         /\ ToSet(Story(c)) \cap ToSet(Story(d)) = {}
         /\ down[c] = <<>> \/ down[d] = <<>>

-----------------------------------------------------------------------------
\* The server's descriptors.
LEMMA FdFewer ==
  ASSUME FdInv, accepting' = NoClient,
         \A c \in Clients : fdOf'[c] = fdOf[c] \/ fdOf'[c] = 0
  PROVE  FdInv'
<1>1. \A c \in Clients : c # NoClient
  BY BrokerAssumption
<1>2. \A c \in Clients : fdOf'[c] # 0 => fdOf'[c] = fdOf[c]
  OBVIOUS
<1>3. QED
  BY <1>1, <1>2 DEF FdInv

LEMMA FdSame ==
  ASSUME FdInv, UNCHANGED <<accepting, fdOf>>
  PROVE  FdInv'
BY DEF FdInv

LEMMA FdAccept ==
  ASSUME TypeOK, SessionInv, FdInv, Accept
  PROVE  FdInv'
<1>1. CASE ServerStops("dead")
  BY <1>1, FdFewer DEF ServerStops, EveryClient
<1>2. CASE ~ServerStops("dead")
  <2>1. backlog \in Seq(Clients) /\ backlog # <<>>
    BY DEF Accept, TypeOK
  <2>2. PICK d \in Clients : d = Head(backlog)
    BY <2>1
  <2>3. PICK fd \in FirstFd..(FirstFd + Cardinality(Clients)) :
          /\ LowestFree(fd)
          /\ fdOf' = [fdOf EXCEPT ![d] = fd]
    BY <1>2, <2>2 DEF Accept
  <2>4. accepting' = d
    BY <1>2, <2>2 DEF Accept
  <2>5. fd \in Int /\ fd >= FirstFd
    BY BrokerAssumption, FS_CardinalityType
  <2>6. fdOf[d] = 0
    BY <2>1, <2>2, TailOfInjective DEF SessionInv, ClientInv
  <2>7. fdOf'[d] = fd /\ \A c \in Clients \ {d} : fdOf'[c] = fdOf[c]
    BY <2>3 DEF TypeOK
  <2>8. \A c \in Clients : fdOf[c] # fd
    BY <2>3 DEF LowestFree
  <2>9. \A c \in Clients : fdOf'[c] # 0 => fdOf'[c] >= FirstFd
    BY <2>5, <2>7 DEF FdInv
  <2>10. \A c, e \in Clients : fdOf'[c] # 0 /\ fdOf'[c] = fdOf'[e] => c = e
    BY <2>7, <2>8 DEF FdInv
  <2>11. ASSUME NEW f \in FirstFd..(fd - 1) PROVE \E e \in Clients : fdOf'[e] = f
    <3>1. PICK e \in Clients : fdOf[e] = f
      BY <2>3 DEF LowestFree
    <3>2. f # 0
      BY <2>5, BrokerAssumption
    <3>3. QED
      BY <2>6, <2>7, <3>1, <3>2
  <2>12. QED
    BY <2>4, <2>7, <2>9, <2>10, <2>11 DEF FdInv
<1>3. QED
  BY <1>1, <1>2

LEMMA FdStep == TypeOK /\ SessionInv /\ FdInv /\ [Next]_vars => FdInv'
<1> SUFFICES ASSUME TypeOK, SessionInv, FdInv, [Next]_vars PROVE FdInv'
  OBVIOUS
<1>1. ASSUME NEW c \in Clients, Client(c) PROVE FdInv'
  BY <1>1, FdSame DEF Client, Launch, SendRegister, Exit, Crash,
     ReceiveNotification, ServerClosed, Subscribe, Unsubscribe, TypeCommand
<1>2. ASSUME NEW how, ServerStops(how) PROVE FdInv'
  BY <1>2, FdFewer DEF ServerStops, EveryClient
<1>3. ASSUME NEW c \in Clients, RegisterClient(c) PROVE FdInv'
  <2>1. CASE ServerStops("dead")
    BY <1>2, <2>1
  <2>2. CASE ~ServerStops("dead")
    <3>1. accepting' = NoClient
      BY <1>3, <2>2 DEF RegisterClient, Reject, Wake, AddSubscriber
    <3>2. fdOf' = fdOf \/ fdOf' = [fdOf EXCEPT ![c] = 0]
      BY <1>3, <2>2 DEF RegisterClient, Reject, Wake, AddSubscriber
    <3>3. \A e \in Clients : fdOf'[e] = fdOf[e] \/ fdOf'[e] = 0
      BY <3>2 DEF TypeOK
    <3>4. QED
      BY <3>1, <3>3, FdFewer
  <2>3. QED
    BY <2>1, <2>2
<1>4. ASSUME NEW c \in Clients, CloseConnection(c) PROVE FdInv'
  BY <1>4, FdFewer DEF CloseConnection, InLoop, TypeOK
<1>5. ASSUME NEW c \in Clients, HandleMessage(c) PROVE FdInv'
  BY <1>5, FdSame DEF HandleMessage
<1>6. ASSUME NEW t \in Topics, Publish(t) PROVE FdInv'
  <2>1. CASE ServerStops("dead")
    BY <1>2, <2>1
  <2>2. CASE ~ServerStops("dead")
    BY <1>6, <2>2, FdSame DEF Publish
  <2>3. QED
    BY <2>1, <2>2
<1>7. CASE ServerExit
  BY <1>2, <1>7 DEF ServerExit
<1>8. CASE UNCHANGED vars
  BY <1>8, FdSame DEF vars
<1>9. QED
  BY <1>1, <1>3, <1>4, <1>5, <1>6, <1>7, <1>8, FdAccept DEF Next, Server

LEMMA FdAlways == Spec => []FdInv
<1>1. Init => FdInv
  BY BrokerAssumption DEF Init, FdInv, EveryClient
<1>2. QED
  BY <1>1, FdStep, TypeCorrect, SessionAlways, PTL DEF Spec

-----------------------------------------------------------------------------
\* Steps that do not touch the server.
LEMMA MapSame ==
  ASSUME Numbered, SocketMatches, \A i, j \in Away : i = j,
         UNCHANGED <<accepting, known, socketfd, is_connected, fdOf>>
  PROVE  /\ Numbered' /\ SocketMatches' /\ \A i, j \in Away' : i = j
         /\ Away' = Away
         /\ \A c \in Clients : Registered(c)' <=> Registered(c)
BY DEF Numbered, SocketMatches, Registered, Away

\* Who is registered has been heard of, and is running or has ended.
LEMMA RegisteredRuns ==
  ASSUME TypeOK, SessionInv, NEW c \in Clients, Registered(c)
  PROVE  /\ proc[c] \in {"running", "gone"} /\ fdOf[c] # 0
         /\ proc[c] = "running" => Session(c)
         /\ ~Waiting(c)
         /\ Session(c) => IdOf[c] \in known /\ is_connected[IdOf[c]]
<1>1. ClientInv(c)
  BY DEF SessionInv
<1>2. QED
  BY <1>1 DEF ClientInv, Registered, Session, Waiting, TypeOK

\* A client goes on, or ends without the server having known of it.
LEMMA RunsOn ==
  ASSUME TypeOK, SessionInv, SessionInv', TypeOK', OrderInv, NEW d \in Clients,
         UNCHANGED <<server, accepting, known, socketfd, is_connected, backlog, fdOf>>,
         \A c \in Clients \ {d} : proc'[c] = proc[c] /\ up'[c] = up[c],
         Registered(d) => proc'[d] = "running",
         Waiting(d) => proc'[d] # "gone"
  PROVE  OrderInv'
<1>1. /\ Numbered' /\ SocketMatches' /\ (\A i, j \in Away' : i = j)
      /\ Away' = Away
      /\ \A c \in Clients : Registered(c)' <=> Registered(c)
  BY MapSame DEF OrderInv
<1>2. \A c \in Clients : Waiting(c)' <=> Waiting(c)
  BY DEF Waiting
<1>3. \A c \in Clients \ {d} : Session(c)' <=> Session(c)
  BY <1>1 DEF Session, PendingExit
<1>4. \A c \in Clients : Leaving(c)' => Leaving(c)
  BY <1>1 DEF Leaving
<1>5. ASSUME NEW c \in Clients, Registered(c)' PROVE InMap(c)'
  <2>1. InMap(c) /\ Registered(c)
    BY <1>1, <1>5 DEF OrderInv
  <2>2. Session(c) => Session(c)'
    <3>1. CASE c # d
      BY <1>3, <3>1
    <3>2. CASE c = d
      BY <1>5, <2>1, <3>2 DEF Session
    <3>3. QED
      BY <3>1, <3>2
  <2>3. QED
    BY <2>1, <2>2 DEF InMap
<1>6. ASSUME NEW c \in Clients, Leaving(c)' PROVE LeavesAlone(c)'
  <2>1. LeavesAlone(c)
    BY <1>4, <1>6 DEF OrderInv
  <2>2. up'[c] = up[c]
    BY <1>1, <1>6 DEF Leaving
  <2>3. \A e \in Clients : Leaving(e)' => e = c
    BY <1>4, <2>1 DEF LeavesAlone
  <2>4. QED
    BY <1>1, <2>1, <2>2, <2>3 DEF LeavesAlone
<1>7. ASSUME NEW c \in Clients, Waiting(c)' PROVE ArrivesAlone(c)'
  <2>1. ArrivesAlone(c)
    BY <1>2, <1>7 DEF OrderInv
  <2>2. proc'[c] # "gone"
    BY <1>2, <1>7, <2>1 DEF ArrivesAlone
  <2>3. QED
    BY <1>1, <1>2, <2>1, <2>2 DEF ArrivesAlone
<1>8. QED
  BY <1>1, <1>5, <1>6, <1>7 DEF OrderInv

\* Nothing of it changes.
LEMMA OrderSame ==
  ASSUME OrderInv,
         UNCHANGED <<server, accepting, known, socketfd, is_connected, backlog,
                     fdOf, up, proc>>
  PROVE  OrderInv'
<1>1. /\ Numbered' /\ SocketMatches' /\ (\A i, j \in Away' : i = j)
      /\ Away' = Away
      /\ \A c \in Clients : Registered(c)' <=> Registered(c)
  BY MapSame DEF OrderInv
<1>2. \A c \in Clients : /\ Waiting(c)' <=> Waiting(c)
                         /\ Session(c)' <=> Session(c)
                         /\ Leaving(c)' <=> Leaving(c)
  BY <1>1 DEF Waiting, Session, PendingExit, Leaving
<1>3. ASSUME NEW c \in Clients PROVE /\ InMap(c)' <=> InMap(c)
                                     /\ LeavesAlone(c)' <=> LeavesAlone(c)
                                     /\ ArrivesAlone(c)' <=> ArrivesAlone(c)
  BY <1>1, <1>2 DEF InMap, LeavesAlone, ArrivesAlone
<1>4. QED
  BY <1>1, <1>2, <1>3 DEF OrderInv

\* The command exit, while everything else is settled and nobody is away.
LEMMA ExitOrder ==
  ASSUME Orderly, TypeOK, SessionInv, SessionInv', TypeOK', OrderInv,
         NEW d \in Clients, Exit(d)
  PROVE  OrderInv'
<1>1. /\ Settled /\ Away = {} /\ proc[d] = "running"
      /\ UNCHANGED <<server, accepting, known, socketfd, is_connected, backlog, fdOf>>
      /\ WriteAs(d, Plain("exit"), "gone")
  BY DEF Exit, ExitAllowed, subscribers
<1>2. \A c \in Clients \ {d} : proc'[c] = proc[c] /\ up'[c] = up[c]
  BY <1>1 DEF WriteAs, TypeOK
<1>3. ToSet(backlog) = {} /\ \A c \in Clients : ~Waiting(c)
  BY <1>1, BrokerAssumption DEF Settled, Waiting, ToSet
<1>4. CASE ~Registered(d)
  BY <1>1, <1>2, <1>3, <1>4, RunsOn
<1>5. CASE Registered(d)
  <2>1. /\ Numbered' /\ SocketMatches' /\ (\A i, j \in Away' : i = j)
        /\ Away' = Away
        /\ \A c \in Clients : Registered(c)' <=> Registered(c)
    BY <1>1, MapSame DEF OrderInv
  <2>2. fdOf[d] # 0 /\ Reachable(d) /\ up[d] = <<>>
    BY <1>1, <1>5 DEF Registered, Reachable, Settled
  <2>3. proc'[d] = "gone" /\ up'[d] = Append(up[d], Plain("exit"))
    BY <1>1, <2>2 DEF WriteAs, TypeOK
  <2>4. DOMAIN up'[d] = {1} /\ up'[d][1] = Plain("exit")
    BY <2>2, <2>3
  <2>5. Plain("exit").cmd = "exit"
    BY DEF Plain
  <2>6. Session(d)'
    BY <1>5, <2>1, <2>4, <2>5 DEF Session, PendingExit
  <2>7. ASSUME NEW c \in Clients, Registered(c)' PROVE InMap(c)'
    <3>1. InMap(c)
      BY <2>1, <2>7 DEF OrderInv
    <3>2. Session(c) => Session(c)'
      BY <1>2, <2>1, <2>6 DEF Session, PendingExit
    <3>3. QED
      BY <1>1, <3>1, <3>2 DEF InMap
  <2>8. ASSUME NEW c \in Clients, Leaving(c)' PROVE c = d
    BY <1>1, <1>2, <2>1, <2>8 DEF Leaving, Settled, Registered
  <2>9. LeavesAlone(d)'
    BY <1>1, <2>1, <2>4, <2>5, <2>8 DEF LeavesAlone, Settled
  <2>10. \A c \in Clients : ~Waiting(c)'
    BY <1>1, <1>3 DEF Waiting
  <2>11. QED
    BY <1>1, <2>1, <2>7, <2>8, <2>9, <2>10 DEF OrderInv
<1>6. QED
  BY <1>4, <1>5

LEMMA LaunchOrder ==
  ASSUME Orderly, TypeOK, SessionInv, OrderInv, NEW d \in Clients, Launch(d)
  PROVE  OrderInv'
<1>1. /\ Settled /\ proc[d] = "unstarted" /\ backlog' = Append(backlog, d)
      /\ \/ Away = {}
         \/ IdOf[d] \in Away
         \/ IdOf[d] \in known /\ is_connected[IdOf[d]]
      /\ UNCHANGED <<server, accepting, known, socketfd, is_connected, fdOf, up>>
      /\ proc'[d] = "connecting" /\ \A c \in Clients \ {d} : proc'[c] = proc[c]
  BY DEF Launch, LaunchAllowed, subscribers, TypeOK
<1>2. /\ Numbered' /\ SocketMatches' /\ (\A i, j \in Away' : i = j)
      /\ Away' = Away
      /\ \A c \in Clients : Registered(c)' <=> Registered(c)
  BY <1>1, MapSame DEF OrderInv
<1>3. ToSet(backlog) = {} /\ ToSet(backlog') = {d}
  <2>1. ToSet(backlog) = {}
    BY <1>1 DEF Settled, ToSet
  <2>2. backlog \in Seq(Clients)
    BY DEF TypeOK
  <2>3. ToSet(Append(backlog, d)) = ToSet(backlog) \cup {d}
    BY <2>2, ToSetAppend
  <2>4. QED
    BY <1>1, <2>1, <2>3
<1>4. \A c \in Clients : Waiting(c)' => c = d
  BY <1>1, <1>3, BrokerAssumption DEF Waiting, Settled
<1>5. ~Registered(d)
  <2>1. ClientInv(d)
    BY DEF SessionInv
  <2>2. QED
    BY <1>1, <2>1 DEF ClientInv
<1>6. ASSUME NEW c \in Clients, Registered(c)' PROVE InMap(c)' /\ ~Leaving(c)'
  <2>1. InMap(c) /\ c # d /\ Registered(c)
    BY <1>2, <1>5, <1>6 DEF OrderInv
  <2>2. Session(c)' <=> Session(c)
    BY <1>1, <1>2, <2>1 DEF Session, PendingExit
  <2>3. proc'[c] = "running"
    BY <1>1, <2>1 DEF Settled, Registered
  <2>4. QED
    BY <1>1, <2>1, <2>2, <2>3 DEF InMap, Leaving
<1>7. ArrivesAlone(d)'
  BY <1>1, <1>2, <1>4 DEF ArrivesAlone
<1>8. QED
  BY <1>1, <1>2, <1>4, <1>6, <1>7 DEF OrderInv, Leaving

LEMMA StopsOrder ==
  ASSUME TypeOK, NEW how, ServerStops(how)
  PROVE  OrderInv'
<1>1. /\ known' = {} /\ accepting' = NoClient /\ ToSet(backlog') = {}
      /\ \A c \in Clients : fdOf'[c] = 0
  BY DEF ServerStops, EveryClient, ToSet
<1>2. \A c \in Clients : ~Waiting(c)' /\ ~Registered(c)' /\ ~Leaving(c)'
  BY <1>1, BrokerAssumption DEF Waiting, Registered, Leaving
<1>3. Away' = {}
  BY <1>1 DEF Away
<1>4. QED
  BY <1>1, <1>2, <1>3 DEF OrderInv, Numbered, SocketMatches

-----------------------------------------------------------------------------
\* The server, one connection after the other.
LEMMA AcceptOrder ==
  ASSUME TypeOK, SessionInv, OrderInv, Accept
  PROVE  OrderInv'
<1>1. CASE ServerStops("dead")
  BY <1>1, StopsOrder
<1>2. CASE ~ServerStops("dead")
  <2>1. backlog \in Seq(Clients) /\ backlog # <<>>
    BY DEF Accept, TypeOK
  <2>2. PICK d \in Clients : d = Head(backlog)
    BY <2>1
  <2>3. /\ ToSet(Tail(backlog)) = ToSet(backlog) \ {d}
        /\ d \in ToSet(backlog) /\ fdOf[d] = 0
    BY <2>1, <2>2, TailOfInjective DEF SessionInv, ClientInv
  <2>4. /\ accepting' = d /\ accepting = NoClient
        /\ backlog' = Tail(backlog)
        /\ \A c \in Clients \ {d} : fdOf'[c] = fdOf[c]
        /\ UNCHANGED <<server, proc, up, known, socketfd, is_connected>>
    BY <1>2, <2>2 DEF Accept, InLoop, subscribers, clients, TypeOK
  <2>5. Waiting(d) /\ ArrivesAlone(d)
    BY <2>3 DEF Waiting, OrderInv
  <2>6. \A c \in Clients : Waiting(c)' => c = d
    BY <2>3, <2>4, <2>5 DEF Waiting, ArrivesAlone
  <2>7. \A c \in Clients : Registered(c)' <=> Registered(c)
    BY <2>3, <2>4, BrokerAssumption DEF Registered
  <2>8. \A c \in Clients : ~Leaving(c)
    BY <2>1 DEF OrderInv, LeavesAlone
  <2>9. Away' = Away
    BY <2>4 DEF Away
  <2>10. ASSUME NEW c \in Clients, Registered(c)' PROVE InMap(c)' /\ ~Leaving(c)'
    <3>1. InMap(c) /\ Registered(c) /\ c # d
      BY <2>3, <2>7, <2>10 DEF OrderInv, Registered
    <3>2. Session(c)' <=> Session(c)
      BY <2>4, <2>7 DEF Session, PendingExit
    <3>3. ~Leaving(c)'
      BY <2>4, <2>7, <2>8 DEF Leaving
    <3>4. QED
      BY <2>4, <3>1, <3>2, <3>3 DEF InMap
  <2>11. ArrivesAlone(d)'
    BY <2>4, <2>5, <2>6, <2>9 DEF ArrivesAlone
  <2>12. Numbered' /\ \A i, j \in Away' : i = j
    BY <2>4, <2>9 DEF OrderInv, Numbered
  <2>13. ASSUME NEW id \in known, is_connected[id]
         PROVE  \E c \in Clients : /\ IdOf[c] = id /\ Registered(c)'
                                   /\ fdOf'[c] = socketfd[id]
    <3>1. PICK c \in Clients : IdOf[c] = id /\ Registered(c) /\ fdOf[c] = socketfd[id]
      BY <2>13 DEF OrderInv, SocketMatches
    <3>2. c # d
      BY <2>3, <3>1 DEF Registered
    <3>3. QED
      BY <2>4, <2>7, <3>1, <3>2
  <2>14. SocketMatches'
    BY <2>4, <2>13 DEF SocketMatches
  <2>15. QED
    BY <2>4, <2>6, <2>10, <2>11, <2>12, <2>14 DEF OrderInv, Leaving
<1>3. QED
  BY <1>1, <1>2

\* One number, one identifier: whoever is registered for an identifier is
\* the only one, and nobody else is while its connection is awaited.
LEMMA OneNumber ==
  ASSUME OrderInv, FdInv, NEW c \in Clients, NEW d \in Clients,
         Registered(c), IdOf[c] = IdOf[d], fdOf[d] = socketfd[IdOf[d]]
  PROVE  c = d
BY DEF OrderInv, InMap, FdInv, Registered

\* A subscriber who comes back is given the number it had: those below are
\* taken and it is free.
LEMMA SameNumberAgain ==
  ASSUME TypeOK, SessionInv, FdInv, OrderInv, NEW d \in Clients, accepting = d,
         IdOf[d] \in Away
  PROVE  fdOf[d] = socketfd[IdOf[d]]
<1> DEFINE id == IdOf[d]
<1>1. /\ d # NoClient /\ fdOf[d] # 0 /\ Waiting(d)
      /\ id \in known /\ ~is_connected[id] /\ id \in AllIds
  BY BrokerAssumption DEF SessionInv, ClientInv, Away, Waiting, AllIds
<1>2. fdOf[d] \in Nat /\ socketfd[id] \in Nat /\ FirstFd \in Nat
  BY <1>1, BrokerAssumption DEF TypeOK
<1>3. fdOf[d] >= FirstFd /\ socketfd[id] >= FirstFd
  BY <1>1 DEF FdInv, OrderInv, Numbered
<1>4. \A c \in Clients : ~Leaving(c)
  BY <1>1 DEF OrderInv, LeavesAlone
<1>5. \A c \in Clients : Registered(c) => IdOf[c] # id
  <2>1. SUFFICES ASSUME NEW c \in Clients, Registered(c), IdOf[c] = id PROVE FALSE
    OBVIOUS
  <2>2. proc[c] = "running"
    BY <1>4, <2>1, RegisteredRuns DEF Leaving
  <2>3. QED
    BY <1>1, <2>1, <2>2, RegisteredRuns
<1>6. ~(socketfd[id] < fdOf[d])
  <2>1. SUFFICES ASSUME socketfd[id] < fdOf[d] PROVE FALSE
    OBVIOUS
  <2>2. socketfd[id] \in FirstFd..(fdOf[d] - 1)
    BY <1>2, <1>3, <2>1
  <2>3. PICK c \in Clients : fdOf[c] = socketfd[id]
    BY <2>2 DEF FdInv
  <2>4. Registered(c)
    BY <1>2, <1>3, <2>1, <2>3, BrokerAssumption DEF Registered
  <2>5. IdOf[c] \in known /\ socketfd[IdOf[c]] = socketfd[id]
    BY <2>3, <2>4 DEF OrderInv, InMap
  <2>6. QED
    BY <1>1, <1>5, <2>4, <2>5 DEF OrderInv, Numbered
<1>7. ~(fdOf[d] < socketfd[id])
  <2>1. SUFFICES ASSUME fdOf[d] < socketfd[id] PROVE FALSE
    OBVIOUS
  <2>2. fdOf[d] \in FirstFd..(socketfd[id] - 1)
    BY <1>2, <1>3, <2>1
  <2>3. PICK j \in known : socketfd[j] = fdOf[d]
    BY <1>1, <2>2 DEF OrderInv, Numbered
  <2>4. j # id
    BY <1>2, <2>1, <2>3
  <2>5. is_connected[j]
    BY <1>1, <2>4 DEF OrderInv, Away
  <2>6. PICK c \in Clients : Registered(c) /\ fdOf[c] = socketfd[j]
    BY <2>5 DEF OrderInv, SocketMatches
  <2>7. c = d
    BY <1>1, <2>3, <2>6 DEF FdInv
  <2>8. QED
    BY <2>6, <2>7 DEF Registered
<1>8. QED
  BY <1>2, <1>6, <1>7

\* A newcomer is given the next number.
LEMMA NextNumber ==
  ASSUME TypeOK, SessionInv, FdInv, OrderInv, NEW d \in Clients, accepting = d,
         Away = {}
  PROVE  /\ fdOf[d] >= FirstFd
         /\ \A i \in known : socketfd[i] # fdOf[d]
         /\ \A f \in FirstFd..(fdOf[d] - 1) : \E j \in known : socketfd[j] = f
<1>1. d # NoClient /\ fdOf[d] # 0
  BY BrokerAssumption DEF SessionInv, ClientInv
<1>2. fdOf[d] >= FirstFd /\ fdOf[d] \in Nat /\ FirstFd \in Nat \ {0}
  BY <1>1, BrokerAssumption DEF FdInv, TypeOK
<1>3. ASSUME NEW i \in known, socketfd[i] = fdOf[d] PROVE FALSE
  <2>1. is_connected[i]
    BY DEF Away
  <2>2. PICK c \in Clients : Registered(c) /\ fdOf[c] = socketfd[i]
    BY <2>1 DEF OrderInv, SocketMatches
  <2>3. QED
    BY <1>1, <1>3, <2>2 DEF FdInv, Registered
<1>4. ASSUME NEW f \in FirstFd..(fdOf[d] - 1) PROVE \E j \in known : socketfd[j] = f
  <2>1. PICK c \in Clients : fdOf[c] = f
    BY DEF FdInv
  <2>2. f # 0 /\ f # fdOf[d]
    BY <1>2
  <2>3. Registered(c)
    BY <2>1, <2>2, BrokerAssumption DEF Registered
  <2>4. QED
    BY <2>1, <2>3 DEF OrderInv, InMap
<1>5. QED
  BY <1>2, <1>3, <1>4

\* The end of a registration: whoever waited does not any more.
LEMMA Answered ==
  ASSUME TypeOK, SessionInv, OrderInv, NEW d \in Clients, RegisterClient(d),
         ~ServerStops("dead")
  PROVE  /\ d # NoClient /\ accepting = d /\ accepting' = NoClient
         /\ Waiting(d) /\ ArrivesAlone(d) /\ fdOf[d] # 0
         /\ proc[d] = "running" /\ up[d] # <<>>
         /\ IdOf[d] \in AllIds /\ IdOf[d] \in Ids
         /\ UNCHANGED <<server, proc, backlog, datagrams, printed>>
         /\ \A c \in Clients : ~Waiting(c)'
         /\ \A c \in Clients : ~Leaving(c)
         /\ \A c \in Clients : Registered(c) => Session(c)
<1>1. d # NoClient /\ accepting = d
  BY BrokerAssumption DEF RegisterClient
<1>2. Waiting(d) /\ ArrivesAlone(d) /\ ClientInv(d)
  BY <1>1 DEF Waiting, OrderInv, SessionInv
<1>3. up[d] # <<>> /\ proc[d] # "gone"
  BY <1>2 DEF RegisterClient, Readable, ArrivesAlone
<1>4. proc[d] = "running" /\ fdOf[d] # 0
  BY <1>1, <1>2, <1>3 DEF ClientInv, TypeOK
<1>5. /\ accepting' = NoClient
      /\ UNCHANGED <<server, proc, backlog, datagrams, printed>>
  BY DEF RegisterClient, Reject, Wake, AddSubscriber, clients
<1>6. \A c \in Clients : ~Waiting(c)'
  BY <1>1, <1>2, <1>5, BrokerAssumption DEF Waiting, ArrivesAlone, ClientInv
<1>7. \A c \in Clients : ~Leaving(c)
  BY <1>1 DEF OrderInv, LeavesAlone
<1>8. \A c \in Clients : Registered(c) => Session(c)
  BY <1>7, RegisteredRuns DEF Leaving
<1>9. QED
  BY <1>1, <1>2, <1>3, <1>4, <1>5, <1>6, <1>7, <1>8, BrokerAssumption DEF AllIds

LEMMA RejectOrder ==
  ASSUME TypeOK, SessionInv, OrderInv, NEW d \in Clients, RegisterClient(d),
         ~ServerStops("dead"), Reject(d)
  PROVE  OrderInv'
<1>1. /\ d # NoClient /\ accepting = d /\ accepting' = NoClient
      /\ UNCHANGED <<server, proc, backlog>>
      /\ \A c \in Clients : ~Waiting(c)' /\ ~Leaving(c)
  BY Answered
<1>2. /\ fdOf'[d] = 0
      /\ \A c \in Clients \ {d} : fdOf'[c] = fdOf[c] /\ up'[c] = up[c]
      /\ UNCHANGED <<known, socketfd, is_connected>>
  BY DEF Reject, TypeOK, subscribers
<1>3. \A c \in Clients : Registered(c)' <=> Registered(c)
  BY <1>1, <1>2, BrokerAssumption DEF Registered
<1>4. Away' = Away /\ Numbered' /\ \A i, j \in Away' : i = j
  BY <1>2 DEF Away, OrderInv, Numbered
<1>5. ASSUME NEW c \in Clients, Registered(c)' PROVE InMap(c)' /\ ~Leaving(c)'
  <2>1. InMap(c) /\ c # d
    BY <1>1, <1>3, <1>5 DEF OrderInv, Registered
  <2>2. Session(c)' <=> Session(c)
    BY <1>1, <1>2, <1>3, <2>1 DEF Session, PendingExit
  <2>3. ~Leaving(c)'
    BY <1>1, <1>3 DEF Leaving
  <2>4. QED
    BY <1>2, <2>1, <2>2, <2>3 DEF InMap
<1>6. SocketMatches'
  <2>1. ASSUME NEW id \in known, is_connected[id]
        PROVE  \E c \in Clients : /\ IdOf[c] = id /\ Registered(c)'
                                  /\ fdOf'[c] = socketfd[id]
    <3>1. PICK c \in Clients : IdOf[c] = id /\ Registered(c) /\ fdOf[c] = socketfd[id]
      BY <2>1 DEF OrderInv, SocketMatches
    <3>2. c # d
      BY <1>1, <3>1 DEF Registered
    <3>3. QED
      BY <1>2, <1>3, <3>1, <3>2
  <2>2. QED
    BY <1>2, <2>1 DEF SocketMatches
<1>7. QED
  BY <1>1, <1>2, <1>4, <1>5, <1>6 DEF OrderInv, Leaving

\* The newcomer enters the map, or enters it again, under its own number.
LEMMA EntersOrder ==
  ASSUME TypeOK, SessionInv, FdInv, OrderInv, NEW d \in Clients, RegisterClient(d),
         ~ServerStops("dead"),
         ~(IdOf[d] \in known /\ is_connected[IdOf[d]]),
         known' = known \cup {IdOf[d]},
         socketfd' = [socketfd EXCEPT ![IdOf[d]] = fdOf[d]],
         is_connected' = [is_connected EXCEPT ![IdOf[d]] = TRUE],
         up' = [up EXCEPT ![d] = Tail(up[d])],
         fdOf' = fdOf,
         Numbered'
  PROVE  OrderInv'
<1> DEFINE id == IdOf[d]
<1>1. /\ d # NoClient /\ accepting = d /\ accepting' = NoClient
      /\ ArrivesAlone(d) /\ fdOf[d] # 0
      /\ proc[d] = "running" /\ id \in AllIds
      /\ UNCHANGED <<server, proc, backlog>>
      /\ \A c \in Clients : ~Waiting(c)' /\ ~Leaving(c) /\ (Registered(c) => Session(c))
  BY Answered
<1>2. /\ socketfd'[id] = fdOf[d] /\ is_connected'[id]
      /\ \A i \in AllIds \ {id} : /\ socketfd'[i] = socketfd[i]
                                  /\ is_connected'[i] = is_connected[i]
      /\ \A c \in Clients \ {d} : up'[c] = up[c]
  BY <1>1 DEF TypeOK
<1>3. /\ Registered(d)' /\ ~Registered(d)
      /\ \A c \in Clients \ {d} : Registered(c)' <=> Registered(c)
  BY <1>1, BrokerAssumption DEF Registered
<1>4. \A c \in Clients : Registered(c) => IdOf[c] # id
  BY RegisteredRuns, <1>1
<1>5. Away \subseteq {id}
  BY <1>1 DEF ArrivesAlone, OrderInv, Away
<1>6. Away' = {}
  <2>1. \A i \in known' : i \in AllIds /\ (i # id => i \in known)
    BY <1>1 DEF TypeOK
  <2>2. QED
    BY <1>2, <1>5, <2>1 DEF Away
<1>7. ASSUME NEW c \in Clients, Registered(c)' PROVE InMap(c)' /\ ~Leaving(c)'
  <2>1. ~Leaving(c)'
    BY <1>1, <1>3, <1>7 DEF Leaving
  <2>2. CASE c = d
    BY <1>1, <1>2, <1>3, <2>1, <2>2 DEF InMap, Session
  <2>3. CASE c # d
    <3>1. Registered(c) /\ InMap(c) /\ IdOf[c] # id /\ Session(c)
      BY <1>1, <1>3, <1>4, <1>7, <2>3 DEF OrderInv
    <3>2. Session(c)'
      BY <1>1, <1>2, <1>3, <2>3, <3>1 DEF Session, PendingExit
    <3>3. IdOf[c] \in AllIds
      BY BrokerAssumption DEF AllIds
    <3>4. IdOf[c] \in known' /\ fdOf'[c] = socketfd'[IdOf[c]]
      BY <1>2, <3>1, <3>3 DEF InMap
    <3>5. QED
      BY <2>1, <3>2, <3>4 DEF InMap
  <2>4. QED
    BY <2>2, <2>3
<1>8. SocketMatches'
  <2>1. ASSUME NEW i \in known', is_connected'[i]
        PROVE  \E c \in Clients : /\ IdOf[c] = i /\ Registered(c)'
                                  /\ fdOf'[c] = socketfd'[i]
    <3>1. CASE i = id
      BY <1>2, <1>3, <3>1
    <3>2. CASE i # id
      <4>1. i \in known /\ is_connected[i] /\ socketfd'[i] = socketfd[i]
        BY <1>2, <2>1, <3>2 DEF TypeOK
      <4>2. PICK c \in Clients : IdOf[c] = i /\ Registered(c) /\ fdOf[c] = socketfd[i]
        BY <4>1 DEF OrderInv, SocketMatches
      <4>3. QED
        BY <1>3, <4>1, <4>2
    <3>3. QED
      BY <3>1, <3>2
  <2>2. QED
    BY <2>1 DEF SocketMatches
<1>9. server' # "running" => known' = {}
  BY <1>1 DEF RegisterClient
<1>10. QED
  BY <1>1, <1>6, <1>7, <1>8, <1>9 DEF OrderInv, Leaving

LEMMA RegisterOrder ==
  ASSUME TypeOK, SessionInv, FdInv, OrderInv, NEW d \in Clients, RegisterClient(d)
  PROVE  OrderInv'
<1>1. CASE ServerStops("dead")
  BY <1>1, StopsOrder
<1>2. CASE ~ServerStops("dead")
  <2> DEFINE id == IdOf[d]
  <2>1. /\ accepting = d /\ ArrivesAlone(d) /\ up[d] # <<>> /\ id \in AllIds
        /\ id \in Ids
    BY <1>2, Answered
  <2>2. \/ Reject(d)
        \/ id \in known /\ ~is_connected[id] /\ Wake(d, id, Tail(up[d]))
        \/ id \notin known /\ AddSubscriber(d, id, Tail(up[d]))
    BY <2>1 DEF RegisterClient
  <2>3. CASE Reject(d)
    BY <1>2, <2>3, RejectOrder
  <2>4. CASE id \in known /\ ~is_connected[id] /\ Wake(d, id, Tail(up[d]))
    <3>1. /\ UNCHANGED <<known, socketfd, fdOf>>
          /\ is_connected' = [is_connected EXCEPT ![id] = TRUE]
          /\ up' = [up EXCEPT ![d] = Tail(up[d])]
      BY <1>2, <2>4 DEF Wake
    <3>2. fdOf[d] = socketfd[id]
      BY <2>1, <2>4, SameNumberAgain DEF Away
    <3>3. socketfd' = [socketfd EXCEPT ![id] = fdOf[d]] /\ known' = known \cup {id}
      BY <2>4, <3>1, <3>2 DEF TypeOK
    <3>4. Numbered'
      BY <3>1 DEF OrderInv, Numbered
    <3>5. QED
      BY <1>2, <2>4, <3>1, <3>3, <3>4, EntersOrder
  <2>5. CASE id \notin known /\ AddSubscriber(d, id, Tail(up[d]))
    <3>1. /\ known' = known \cup {id}
          /\ socketfd' = [socketfd EXCEPT ![id] = fdOf[d]]
          /\ is_connected' = [is_connected EXCEPT ![id] = TRUE]
          /\ up' = [up EXCEPT ![d] = Tail(up[d])]
          /\ fdOf' = fdOf
      BY <2>5 DEF AddSubscriber
    <3>2. Away = {}
      BY <2>1, <2>5 DEF ArrivesAlone, Away
    <3>3. /\ fdOf[d] >= FirstFd
          /\ \A i \in known : socketfd[i] # fdOf[d]
          /\ \A f \in FirstFd..(fdOf[d] - 1) : \E j \in known : socketfd[j] = f
      BY <2>1, <3>2, NextNumber
    <3>4. /\ socketfd'[id] = fdOf[d]
          /\ \A i \in known : i # id /\ socketfd'[i] = socketfd[i]
      BY <2>1, <2>5, <3>1 DEF TypeOK
    <3>5. Numbered'
      <4>1. known' \subseteq Ids
        BY <2>1, <3>1 DEF OrderInv, Numbered
      <4>2. \A i \in known' : socketfd'[i] >= FirstFd
        BY <3>1, <3>3, <3>4 DEF OrderInv, Numbered
      <4>3. \A i, j \in known' : socketfd'[i] = socketfd'[j] => i = j
        BY <3>1, <3>3, <3>4 DEF OrderInv, Numbered
      <4>4. ASSUME NEW i \in known', NEW f \in FirstFd..(socketfd'[i] - 1)
            PROVE  \E j \in known' : socketfd'[j] = f
        <5>1. CASE i = id
          BY <3>1, <3>3, <3>4, <5>1
        <5>2. CASE i \in known
          <6>1. PICK j \in known : socketfd[j] = f
            BY <3>4, <5>2 DEF OrderInv, Numbered
          <6>2. QED
            BY <3>1, <3>4, <6>1
        <5>3. QED
          BY <3>1, <5>1, <5>2
      <4>5. QED
        BY <4>1, <4>2, <4>3, <4>4 DEF Numbered
    <3>6. QED
      BY <1>2, <2>5, <3>1, <3>5, EntersOrder
  <2>6. QED
    BY <2>2, <2>3, <2>4, <2>5
<1>3. QED
  BY <1>1, <1>2

LEMMA CloseOrder ==
  ASSUME TypeOK, SessionInv, OrderInv, NEW d \in Clients, CloseConnection(d)
  PROVE  OrderInv'
<1>1. /\ accepting = NoClient /\ d # NoClient /\ fdOf[d] # 0
      /\ up[d] = <<>> /\ proc[d] = "gone"
      /\ UNCHANGED <<server, accepting, known, socketfd, is_connected, backlog, up, proc>>
      /\ fdOf'[d] = 0 /\ \A c \in Clients \ {d} : fdOf'[c] = fdOf[c]
  BY BrokerAssumption DEF CloseConnection, InLoop, clients, subscribers, TypeOK
<1>2. Registered(d) /\ Leaving(d) /\ LeavesAlone(d) /\ InMap(d)
  BY <1>1 DEF Registered, Leaving, OrderInv
<1>3. ~Session(d)
  BY <1>1 DEF Session, PendingExit
<1>4. ~is_connected[IdOf[d]]
  BY <1>2, <1>3 DEF InMap
<1>5. /\ ~Registered(d)'
      /\ \A c \in Clients \ {d} : Registered(c)' <=> Registered(c)
  BY <1>1 DEF Registered
<1>6. ToSet(backlog) = {}
  BY <1>2 DEF LeavesAlone, ToSet
<1>7. \A c \in Clients : ~Waiting(c)'
  BY <1>1, <1>6, BrokerAssumption DEF Waiting
<1>8. \A c \in Clients : ~Leaving(c)'
  BY <1>1, <1>2, <1>5 DEF Leaving, LeavesAlone
<1>9. ASSUME NEW c \in Clients, Registered(c)' PROVE InMap(c)'
  <2>1. c # d /\ InMap(c)
    BY <1>5, <1>9 DEF OrderInv
  <2>2. Session(c)' <=> Session(c)
    BY <1>1, <1>5, <2>1 DEF Session, PendingExit
  <2>3. QED
    BY <1>1, <2>1, <2>2 DEF InMap
<1>10. SocketMatches'
  <2>1. ASSUME NEW i \in known, is_connected[i]
        PROVE  \E c \in Clients : /\ IdOf[c] = i /\ Registered(c)'
                                  /\ fdOf'[c] = socketfd[i]
    <3>1. PICK c \in Clients : IdOf[c] = i /\ Registered(c) /\ fdOf[c] = socketfd[i]
      BY <2>1 DEF OrderInv, SocketMatches
    <3>2. c # d
      BY <1>4, <2>1, <3>1
    <3>3. QED
      BY <1>1, <1>5, <3>1, <3>2
  <2>2. QED
    BY <1>1, <2>1 DEF SocketMatches
<1>11. Away' = Away /\ Numbered'
  BY <1>1 DEF Away, OrderInv, Numbered
<1>12. QED
  BY <1>1, <1>7, <1>8, <1>9, <1>10, <1>11 DEF OrderInv

LEMMA HandleOrder ==
  ASSUME TypeOK, SessionInv, SessionInv', TypeOK', FdInv, OrderInv,
         NEW d \in Clients, HandleMessage(d)
  PROVE  OrderInv'
<1>1. /\ accepting = NoClient /\ d # NoClient /\ fdOf[d] # 0 /\ up[d] # <<>>
      /\ UNCHANGED <<server, accepting, known, socketfd, backlog, fdOf, proc>>
      /\ up'[d] = Tail(up[d]) /\ \A c \in Clients \ {d} : up'[c] = up[c]
  BY BrokerAssumption DEF HandleMessage, InLoop, clients, TypeOK
<1>2. Registered(d) /\ InMap(d) /\ ClientInv(d) /\ IdOf[d] \in AllIds
  BY <1>1, BrokerAssumption DEF Registered, OrderInv, SessionInv, AllIds
<1>3. /\ Len(up[d]) \in Nat \ {0} /\ DOMAIN up[d] = 1..Len(up[d])
      /\ Head(up[d]) = up[d][1] /\ 1 \in DOMAIN up[d]
      /\ (up'[d] # <<>> => Len(up[d]) > 1)
  <2>1. up[d] \in Seq(Message)
    BY DEF TypeOK
  <2>2. QED
    BY <1>1, <2>1
<1>4. CASE Head(up[d]).cmd # "exit"
  <2>1. is_connected' = is_connected
    BY <1>4 DEF HandleMessage, AddTopic, RemoveTopic
  <2>2. ~Leaving(d)
    BY <1>3, <1>4 DEF OrderInv, LeavesAlone
  <2>3. proc'[d] = "running"
    BY <1>1, <1>2, <2>2, RegisteredRuns DEF Leaving
  <2>4. ~Waiting(d)
    BY <1>2, RegisteredRuns
  <2>5. \A c \in Clients \ {d} : proc'[c] = proc[c] /\ up'[c] = up[c]
    BY <1>1
  <2>6. UNCHANGED <<server, accepting, known, socketfd, is_connected, backlog, fdOf>>
    BY <1>1, <2>1
  <2>7. QED
    BY <2>3, <2>4, <2>5, <2>6, RunsOn
<1>5. CASE Head(up[d]).cmd = "exit"
  <2>1. Len(up[d]) = 1 /\ proc[d] = "gone" /\ up'[d] = <<>>
    <3>1. Len(up[d]) = 1 /\ proc[d] = "gone"
      BY <1>2, <1>3, <1>5 DEF ClientInv
    <3>2. ~(1 > 1)
      OBVIOUS
    <3>3. QED
      BY <1>3, <3>1, <3>2
  <2>2. Leaving(d) /\ LeavesAlone(d)
    BY <1>2, <2>1 DEF Leaving, OrderInv
  <2>3. Session(d)
    BY <1>2, <1>3, <1>5 DEF Session, PendingExit
  <2>4. IdOf[d] \in known /\ is_connected[IdOf[d]]
    BY <1>2, <2>3, RegisteredRuns
  <2>5. is_connected' = [is_connected EXCEPT ![IdOf[d]] = FALSE]
    BY <1>5, <2>4 DEF HandleMessage, Disconnect
  <2>6. /\ ~is_connected'[IdOf[d]]
        /\ \A i \in AllIds \ {IdOf[d]} : is_connected'[i] = is_connected[i]
    BY <1>2, <2>5 DEF TypeOK
  <2>7. \A i \in known : i \in AllIds
    BY DEF TypeOK
  <2>8. Away = {} /\ Away' = {IdOf[d]}
    BY <1>1, <2>2, <2>4, <2>6, <2>7 DEF LeavesAlone, Away
  <2>9. \A c \in Clients : Registered(c)' <=> Registered(c)
    BY <1>1 DEF Registered
  <2>10. ToSet(backlog) = {}
    BY <2>2 DEF LeavesAlone, ToSet
  <2>11. \A c \in Clients : ~Waiting(c)'
    BY <1>1, <2>10, BrokerAssumption DEF Waiting
  <2>12. \A c \in Clients : Leaving(c)' => c = d
    BY <1>1, <2>2, <2>9 DEF Leaving, LeavesAlone
  <2>13. LeavesAlone(d)'
    <3>1. \A i \in DOMAIN up'[d] : up'[d][i].cmd = "exit"
      BY <2>1
    <3>2. accepting' = NoClient /\ backlog' = <<>>
      BY <1>1, <2>2 DEF LeavesAlone
    <3>3. QED
      BY <2>8, <2>12, <3>1, <3>2 DEF LeavesAlone
  <2>14. ASSUME NEW c \in Clients, Registered(c)' PROVE InMap(c)'
    <3>1. Registered(c) /\ InMap(c)
      BY <2>9, <2>14 DEF OrderInv
    <3>2. CASE c = d
      BY <1>1, <2>6, <3>1, <3>2 DEF InMap
    <3>3. CASE c # d
      <4>1. IdOf[c] # IdOf[d]
        BY <1>2, <3>1, <3>3, OneNumber DEF InMap
      <4>2. is_connected'[IdOf[c]] = is_connected[IdOf[c]]
        BY <2>6, <4>1, BrokerAssumption DEF AllIds
      <4>3. Session(c)' <=> Session(c)
        BY <1>1, <2>9, <3>3 DEF Session, PendingExit
      <4>4. QED
        BY <1>1, <3>1, <4>2, <4>3 DEF InMap
    <3>4. QED
      BY <3>2, <3>3
  <2>15. SocketMatches'
    <3>1. ASSUME NEW i \in known, is_connected'[i]
          PROVE  \E c \in Clients : /\ IdOf[c] = i /\ Registered(c)
                                    /\ fdOf[c] = socketfd[i]
      <4>1. is_connected[i]
        BY <2>6, <2>7, <3>1
      <4>2. QED
        BY <4>1 DEF OrderInv, SocketMatches
    <3>2. QED
      BY <1>1, <2>9, <3>1 DEF SocketMatches
  <2>16. Numbered'
    BY <1>1 DEF OrderInv, Numbered
  <2>17. QED
    BY <1>1, <2>8, <2>11, <2>12, <2>13, <2>14, <2>15, <2>16 DEF OrderInv
<1>6. QED
  BY <1>4, <1>5

LEMMA ClientOrder ==
  ASSUME Orderly, ~MayCrash, TypeOK, SessionInv, SessionInv', TypeOK', OrderInv,
         NEW d \in Clients, Client(d)
  PROVE  OrderInv'
<1>1. ClientInv(d)
  BY DEF SessionInv
<1>2. Registered(d) \/ Waiting(d) => Reachable(d)
  BY <1>1 DEF Waiting, Registered, Reachable, ClientInv
<1>3. ASSUME NEW msg, WriteAs(d, msg, "running"),
             proc[d] \in {"connecting", "running"},
             UNCHANGED <<server, accepting, known, socketfd, is_connected, backlog, fdOf>>
      PROVE  OrderInv'
  <2>1. \A c \in Clients \ {d} : proc'[c] = proc[c] /\ up'[c] = up[c]
    BY <1>3 DEF WriteAs, TypeOK
  <2>2. Reachable(d) => proc'[d] = "running"
    BY <1>3 DEF WriteAs, TypeOK
  <2>3. Registered(d) => proc'[d] = "running"
    BY <1>2, <2>2
  <2>4. Waiting(d) => proc'[d] # "gone"
    BY <1>2, <2>2
  <2>5. QED
    BY <1>3, <2>1, <2>3, <2>4, RunsOn
<1>4. CASE SendRegister(d)
  BY <1>3, <1>4 DEF SendRegister, subscribers
<1>5. ASSUME NEW msg, TypeCommand(d, msg) PROVE OrderInv'
  BY <1>3, <1>5 DEF TypeCommand, subscribers
<1>6. CASE ServerClosed(d)
  <2>1. /\ UNCHANGED <<server, accepting, known, socketfd, is_connected, backlog, fdOf>>
        /\ \A c \in Clients \ {d} : proc'[c] = proc[c] /\ up'[c] = up[c]
        /\ ~Reachable(d)
    BY <1>6 DEF ServerClosed, subscribers, TypeOK
  <2>2. QED
    BY <1>2, <2>1, RunsOn
<1>7. CASE ReceiveNotification(d)
  BY <1>7, OrderSame DEF ReceiveNotification, subscribers
<1>8. ~Crash(d)
  BY DEF Crash
<1>9. QED
  BY <1>4, <1>5, <1>6, <1>7, <1>8, LaunchOrder, ExitOrder
     DEF Client, Subscribe, Unsubscribe

LEMMA OrderStep ==
  ASSUME Orderly, ~MayCrash, TypeOK, TypeOK', SessionInv, SessionInv', FdInv,
         OrderInv, [Next]_vars
  PROVE  OrderInv'
<1>1. ASSUME NEW t \in Topics, Publish(t) PROVE OrderInv'
  <2>1. CASE ServerStops("dead")
    BY <2>1, StopsOrder
  <2>2. CASE ~ServerStops("dead")
    BY <1>1, <2>2, OrderSame DEF Publish, clients
  <2>3. QED
    BY <2>1, <2>2
<1>2. CASE ServerExit
  BY <1>2, StopsOrder DEF ServerExit
<1>3. CASE UNCHANGED vars
  BY <1>3, OrderSame DEF vars, subscribers, clients
<1>4. QED
  BY <1>1, <1>2, <1>3, ClientOrder, AcceptOrder, RegisterOrder, CloseOrder,
     HandleOrder DEF Next, Server

LEMMA OrderAlways == ASSUME Orderly, ~MayCrash PROVE Spec => []OrderInv
<1>1. Init => OrderInv
  <2> SUFFICES ASSUME Init PROVE OrderInv
    OBVIOUS
  <2>1. /\ known = {} /\ Away = {} /\ ToSet(backlog) = {} /\ server = "running"
        /\ \A c \in Clients : fdOf[c] = 0 /\ accepting # c
    BY BrokerAssumption DEF Init, Away, ToSet, EveryClient
  <2>2. \A c \in Clients : ~Registered(c) /\ ~Leaving(c) /\ ~Waiting(c)
    BY <2>1 DEF Registered, Leaving, Waiting
  <2>3. QED
    BY <2>1, <2>2 DEF OrderInv, Numbered, SocketMatches
<1>2. TypeOK /\ TypeOK' /\ SessionInv /\ SessionInv' /\ FdInv /\ OrderInv
        /\ [Next]_vars => OrderInv'
  BY OrderStep
<1>3. QED
  BY <1>1, <1>2, TypeCorrect, SessionAlways, FdAlways, PTL DEF Spec

\* While users take turns, the stored descriptor of a connected subscriber is
\* that of its present connection, although the server never updates it.
THEOREM StoredNumberIsRight ==
  ASSUME Orderly, ~MayCrash
  PROVE  Spec => []SocketMatches
<1>1. OrderInv => SocketMatches
  BY DEF OrderInv
<1>2. QED
  BY <1>1, OrderAlways, PTL

-----------------------------------------------------------------------------
\* Sequences one after the other.
LEMMA EmptyJoined ==
  ASSUME NEW S, NEW s \in Seq(S), NEW t \in Seq(S)
  PROVE  /\ s \o t \in Seq(S)
         /\ s \o <<>> = s
         /\ <<>> \o t = t
         /\ s \o t = <<>> => s = <<>> /\ t = <<>>
         /\ ToSet(s) \subseteq ToSet(s \o t)
         /\ ToSet(t) \subseteq ToSet(s \o t)
<1>1. /\ s \o t \in Seq(S) /\ s \o <<>> = s /\ <<>> \o t = t
      /\ s \o t = <<>> => s = <<>> /\ t = <<>>
  OBVIOUS
<1>2. /\ Len(s) \in Nat /\ Len(t) \in Nat
      /\ DOMAIN s = 1..Len(s) /\ DOMAIN t = 1..Len(t)
      /\ DOMAIN (s \o t) = 1..(Len(s) + Len(t))
      /\ \A i \in 1..Len(s) : (s \o t)[i] = s[i]
      /\ \A i \in 1..Len(t) : (s \o t)[Len(s) + i] = t[i]
  OBVIOUS
<1>3. ToSet(s) \subseteq ToSet(s \o t)
  BY <1>2 DEF ToSet
<1>4. \A i \in 1..Len(t) : Len(s) + i \in 1..(Len(s) + Len(t))
  BY <1>2
<1>5. ToSet(t) \subseteq ToSet(s \o t)
  BY <1>2, <1>4 DEF ToSet
<1>6. QED
  BY <1>1, <1>3, <1>5

LEMMA HeadMoves ==
  ASSUME NEW S, NEW s \in Seq(S), NEW t \in Seq(S), t # <<>>
  PROVE  Append(s, Head(t)) \o Tail(t) = s \o t
OBVIOUS

LEMMA AppendJoined ==
  ASSUME NEW S, NEW s \in Seq(S), NEW t \in Seq(S), NEW e \in S
  PROVE  s \o Append(t, e) = Append(s \o t, e)
OBVIOUS

LEMMA Copies ==
  ASSUME NEW S, NEW s \in Seq(S), NEW e \in S
  PROVE  /\ s \o [k \in 1..0 |-> e] = s
         /\ s \o [k \in 1..1 |-> e] = Append(s, e)
OBVIOUS

LEMMA StartIncreases ==
  ASSUME NEW s \in Seq(Nat), NEW t \in Seq(Nat), Increasing(s \o t)
  PROVE  Increasing(s)
<1>1. /\ DOMAIN s = 1..Len(s) /\ Len(s) \in Nat /\ Len(t) \in Nat
      /\ DOMAIN (s \o t) = 1..(Len(s) + Len(t))
      /\ \A i \in 1..Len(s) : (s \o t)[i] = s[i]
  OBVIOUS
<1>2. \A i \in 1..Len(s) : i \in 1..(Len(s) + Len(t))
  BY <1>1
<1>3. QED
  BY <1>1, <1>2 DEF Increasing

LEMMA AppendIncreases ==
  ASSUME NEW s \in Seq(Nat), NEW n \in Nat, Increasing(s),
         \A m \in ToSet(s) : m < n
  PROVE  Increasing(Append(s, n))
<1>1. /\ DOMAIN s = 1..Len(s) /\ Len(s) \in Nat
      /\ DOMAIN Append(s, n) = 1..(Len(s) + 1)
      /\ \A i \in 1..Len(s) : Append(s, n)[i] = s[i]
      /\ Append(s, n)[Len(s) + 1] = n
  OBVIOUS
<1>2. \A i \in 1..Len(s) : s[i] < n
  BY <1>1 DEF ToSet
<1>3. SUFFICES ASSUME NEW i \in 1..(Len(s) + 1), NEW j \in 1..(Len(s) + 1), i < j
      PROVE  Append(s, n)[i] < Append(s, n)[j]
  BY <1>1 DEF Increasing
<1>4. i \in 1..Len(s)
  BY <1>1, <1>3
<1>5. CASE j \in 1..Len(s)
  BY <1>1, <1>3, <1>4, <1>5 DEF Increasing
<1>6. CASE j = Len(s) + 1
  BY <1>1, <1>2, <1>4, <1>6
<1>7. QED
  BY <1>1, <1>5, <1>6

-----------------------------------------------------------------------------
\* Steps that send nothing.
LEMMA StoryShrinks ==
  ASSUME StoryInv, datagrams' = datagrams,
         \A id \in AllIds : notifications'[id] \in {<<>>, notifications[id]},
         \A id \in AllIds \ known' : topics'[id] = <<>> /\ notifications'[id] = <<>>,
         \A c \in Clients :
           /\ ToSet(Story(c)') \subseteq ToSet(Story(c))
           /\ Increasing(Story(c)')
           /\ down[c] = <<>> => down'[c] = <<>>
           /\ proc'[c] \in {"unstarted", "connecting"} \/ Waiting(c)'
                => Story(c)' = <<>>
           /\ down'[c] # <<>> =>
                proc'[c] = "running" /\ (server' = "running" => Registered(c)')
  PROVE  StoryInv'
<1>1. ToSet(<<>>) = {}
  BY DEF ToSet
<1>2. ASSUME NEW c \in Clients PROVE StoryOf(c)'
  <2>1. StoryOf(c) /\ IdOf[c] \in AllIds
    BY BrokerAssumption DEF StoryInv, AllIds
  <2>2. ASSUME NEW n \in ToSet(Story(c)')
        PROVE  /\ n \in DOMAIN datagrams' /\ IdOf[c] \in datagrams'[n].to
               /\ \A m \in ToSet(notifications'[IdOf[c]]) : n < m
    BY <1>1, <2>1, <2>2 DEF StoryOf
  <2>3. QED
    BY <2>2 DEF StoryOf
<1>3. ASSUME NEW c \in Clients, NEW d \in Clients, c # d, IdOf[c] = IdOf[d]
      PROVE  /\ ToSet(Story(c)') \cap ToSet(Story(d)') = {}
             /\ down'[c] = <<>> \/ down'[d] = <<>>
  BY <1>3 DEF StoryInv
<1>4. QED
  BY <1>2, <1>3 DEF StoryInv

LEMMA StoryTypes ==
  ASSUME TypeOK, NEW c \in Clients
  PROVE  /\ printed[c] \in Seq(Nat) /\ down[c] \in Seq(Nat) /\ Story(c) \in Seq(Nat)
         /\ IdOf[c] \in AllIds /\ notifications[IdOf[c]] \in Seq(Nat)
<1>1. printed[c] \in Seq(Nat) /\ down[c] \in Seq(Nat) /\ IdOf[c] \in AllIds
  BY BrokerAssumption DEF TypeOK, AllIds
<1>2. QED
  BY <1>1, EmptyJoined DEF Story, TypeOK

\* What a client that ends had read, it had read.
LEMMA StoryCut ==
  ASSUME TypeOK, StoryInv, NEW c \in Clients,
         printed'[c] = printed[c], down'[c] = <<>>
  PROVE  /\ ToSet(Story(c)') \subseteq ToSet(Story(c))
         /\ Increasing(Story(c)')
         /\ Story(c) = <<>> => Story(c)' = <<>>
<1>1. printed[c] \in Seq(Nat) /\ down[c] \in Seq(Nat)
  BY StoryTypes
<1>2. Story(c)' = printed[c]
  BY <1>1, EmptyJoined DEF Story
<1>3. Increasing(printed[c] \o down[c])
  BY DEF StoryInv, StoryOf, Story
<1>4. /\ ToSet(printed[c]) \subseteq ToSet(printed[c] \o down[c])
      /\ printed[c] \o down[c] = <<>> => printed[c] = <<>>
  BY <1>1, EmptyJoined
<1>5. Increasing(printed[c])
  BY <1>1, <1>3, StartIncreases
<1>6. QED
  BY <1>2, <1>4, <1>5 DEF Story

LEMMA StoryKept ==
  ASSUME NEW c \in Clients, StoryInv, printed'[c] = printed[c], down'[c] = down[c]
  PROVE  /\ Story(c)' = Story(c)
         /\ ToSet(Story(c)') \subseteq ToSet(Story(c))
         /\ Increasing(Story(c)')
<1>1. Story(c)' = Story(c)
  BY DEF Story
<1>2. QED
  BY <1>1 DEF StoryInv, StoryOf

-----------------------------------------------------------------------------
\* What a client does: to itself only.
LEMMA ClientTells ==
  ASSUME TypeOK, StoryInv, NEW d \in Clients,
         UNCHANGED <<server, accepting, known, topics, notifications, fdOf, datagrams>>,
         \A c \in Clients \ {d} :
           /\ proc'[c] = proc[c] /\ printed'[c] = printed[c] /\ down'[c] = down[c]
           /\ Waiting(c)' <=> Waiting(c),
         /\ ToSet(Story(d)') \subseteq ToSet(Story(d))
         /\ Increasing(Story(d)')
         /\ down[d] = <<>> => down'[d] = <<>>
         /\ proc'[d] \in {"unstarted", "connecting"} \/ Waiting(d)'
              => Story(d)' = <<>>
         /\ down'[d] # <<>> => proc'[d] = "running"
  PROVE  StoryInv'
<1>1. \A c \in Clients : Registered(c)' <=> Registered(c)
  BY DEF Registered
<1>2. ASSUME NEW c \in Clients
      PROVE  /\ ToSet(Story(c)') \subseteq ToSet(Story(c))
             /\ Increasing(Story(c)')
             /\ down[c] = <<>> => down'[c] = <<>>
             /\ proc'[c] \in {"unstarted", "connecting"} \/ Waiting(c)'
                  => Story(c)' = <<>>
             /\ down'[c] # <<>> =>
                  proc'[c] = "running" /\ (server' = "running" => Registered(c)')
  <2>1. StoryOf(c)
    BY DEF StoryInv
  <2>2. CASE c = d
    BY <1>1, <2>1, <2>2 DEF StoryOf
  <2>3. CASE c # d
    BY <1>1, <2>1, <2>3, StoryKept DEF StoryOf
  <2>4. QED
    BY <2>2, <2>3
<1>3. \A id \in AllIds \ known' : topics'[id] = <<>> /\ notifications'[id] = <<>>
  BY DEF StoryInv
<1>4. \A id \in AllIds : notifications'[id] \in {<<>>, notifications[id]}
  OBVIOUS
<1>5. QED
  BY <1>2, <1>3, <1>4, StoryShrinks

LEMMA WriteStory ==
  ASSUME TypeOK, StoryInv, NEW d \in Clients, NEW msg,
         NEW state \in {"running", "gone"}, WriteAs(d, msg, state),
         UNCHANGED <<server, accepting, known, topics, notifications, backlog,
                     fdOf, printed, datagrams>>
  PROVE  StoryInv'
<1>1. \A c \in Clients : Waiting(c)' <=> Waiting(c)
  BY DEF Waiting
<1>2. /\ \A c \in Clients \ {d} : proc'[c] = proc[c] /\ down'[c] = down[c]
      /\ proc'[d] \in {"running", "gone"}
      /\ proc'[d] = "running" => down'[d] = down[d]
      /\ proc'[d] = "gone" => down'[d] = <<>>
  BY DEF WriteAs, TypeOK
<1>3. StoryOf(d)
  BY DEF StoryInv
<1>4. CASE proc'[d] = "running"
  <2>1. /\ Story(d)' = Story(d)
        /\ ToSet(Story(d)') \subseteq ToSet(Story(d))
        /\ Increasing(Story(d)')
    BY <1>2, <1>4, StoryKept
  <2>2. QED
    BY <1>1, <1>2, <1>3, <1>4, <2>1, ClientTells DEF StoryOf
<1>5. CASE proc'[d] = "gone"
  <2>1. /\ ToSet(Story(d)') \subseteq ToSet(Story(d))
        /\ Increasing(Story(d)')
        /\ Story(d) = <<>> => Story(d)' = <<>>
    BY <1>2, <1>5, StoryCut
  <2>2. QED
    BY <1>1, <1>2, <1>3, <1>5, <2>1, ClientTells DEF StoryOf
<1>6. QED
  BY <1>2, <1>4, <1>5

LEMMA ClientStory ==
  ASSUME TypeOK, StoryInv, NEW d \in Clients, Client(d)
  PROVE  StoryInv'
<1>1. StoryOf(d)
  BY DEF StoryInv
<1>2. CASE Launch(d)
  <2>1. /\ UNCHANGED <<server, accepting, known, topics, notifications, fdOf,
                       datagrams, printed, down>>
        /\ proc[d] = "unstarted" /\ proc'[d] = "connecting"
        /\ \A c \in Clients \ {d} : proc'[c] = proc[c]
    BY <1>2 DEF Launch, subscribers, TypeOK
  <2>2. backlog \in Seq(Clients) /\ backlog' = Append(backlog, d)
    BY <1>2 DEF Launch, TypeOK
  <2>3. ToSet(Append(backlog, d)) = ToSet(backlog) \cup {d}
    BY <2>2, ToSetAppend
  <2>4. \A c \in Clients \ {d} : Waiting(c)' <=> Waiting(c)
    BY <2>1, <2>2, <2>3 DEF Waiting
  <2>5. /\ Story(d)' = Story(d)
        /\ ToSet(Story(d)') \subseteq ToSet(Story(d))
        /\ Increasing(Story(d)')
    BY <2>1, StoryKept
  <2>6. QED
    BY <1>1, <2>1, <2>4, <2>5, ClientTells DEF StoryOf
<1>3. CASE SendRegister(d)
  BY <1>3, WriteStory DEF SendRegister, subscribers
<1>4. CASE Exit(d)
  BY <1>4, WriteStory DEF Exit, subscribers
<1>5. ASSUME NEW msg, TypeCommand(d, msg) PROVE StoryInv'
  BY <1>5, WriteStory DEF TypeCommand, subscribers
<1>6. CASE Crash(d) \/ ServerClosed(d)
  <2>1. /\ UNCHANGED <<server, accepting, known, topics, notifications, fdOf,
                       backlog, datagrams, printed>>
        /\ proc'[d] = "gone" /\ down'[d] = <<>>
        /\ \A c \in Clients \ {d} : proc'[c] = proc[c] /\ down'[c] = down[c]
    BY <1>6 DEF Crash, ServerClosed, subscribers, TypeOK
  <2>2. \A c \in Clients : Waiting(c)' <=> Waiting(c)
    BY <2>1 DEF Waiting
  <2>3. /\ ToSet(Story(d)') \subseteq ToSet(Story(d))
        /\ Increasing(Story(d)')
        /\ Story(d) = <<>> => Story(d)' = <<>>
    BY <2>1, StoryCut
  <2>4. QED
    BY <1>1, <2>1, <2>2, <2>3, ClientTells DEF StoryOf
<1>7. CASE ReceiveNotification(d)
  <2>1. /\ UNCHANGED <<server, accepting, known, topics, notifications, fdOf,
                       backlog, datagrams, proc>>
        /\ proc[d] = "running" /\ down[d] # <<>>
        /\ printed'[d] = Append(printed[d], Head(down[d]))
        /\ down'[d] = Tail(down[d])
        /\ \A c \in Clients \ {d} : printed'[c] = printed[c] /\ down'[c] = down[c]
    BY <1>7 DEF ReceiveNotification, subscribers, TypeOK
  <2>2. \A c \in Clients : Waiting(c)' <=> Waiting(c)
    BY <2>1 DEF Waiting
  <2>3. Story(d)' = Story(d)
    BY <2>1, StoryTypes, HeadMoves DEF Story
  <2>4. ToSet(Story(d)') \subseteq ToSet(Story(d)) /\ Increasing(Story(d)')
    BY <1>1, <2>3 DEF StoryOf
  <2>5. QED
    BY <1>1, <2>1, <2>2, <2>3, <2>4, ClientTells DEF StoryOf
<1>8. QED
  BY <1>2, <1>3, <1>4, <1>5, <1>6, <1>7 DEF Client, Subscribe, Unsubscribe

-----------------------------------------------------------------------------
\* What the server does without sending anything.
LEMMA ServerTells ==
  ASSUME TypeOK, StoryInv, UNCHANGED <<datagrams, proc, printed, down>>,
         \A id \in AllIds : notifications'[id] \in {<<>>, notifications[id]},
         \A id \in AllIds \ known' : topics'[id] = <<>> /\ notifications'[id] = <<>>,
         \A c \in Clients :
           /\ Waiting(c)' => Waiting(c)
           /\ server' = "running" /\ down[c] # <<>> =>
                server = "running" /\ (Registered(c) => Registered(c)')
  PROVE  StoryInv'
<1>1. ASSUME NEW c \in Clients
      PROVE  /\ ToSet(Story(c)') \subseteq ToSet(Story(c))
             /\ Increasing(Story(c)')
             /\ down[c] = <<>> => down'[c] = <<>>
             /\ proc'[c] \in {"unstarted", "connecting"} \/ Waiting(c)'
                  => Story(c)' = <<>>
             /\ down'[c] # <<>> =>
                  proc'[c] = "running" /\ (server' = "running" => Registered(c)')
  <2>1. StoryOf(c)
    BY DEF StoryInv
  <2>2. QED
    BY <2>1, StoryKept DEF StoryOf
<1>2. QED
  BY <1>1, StoryShrinks

LEMMA StopsStory ==
  ASSUME TypeOK, StoryInv, NEW how \in {"dead", "exited"}, ServerStops(how),
         UNCHANGED <<datagrams, proc, printed, down>>
  PROVE  StoryInv'
<1>1. /\ server' = how /\ known' = {} /\ accepting' = NoClient
      /\ ToSet(backlog') = {}
      /\ \A id \in AllIds : topics'[id] = <<>> /\ notifications'[id] = <<>>
  BY DEF ServerStops, EveryId, ToSet
<1>2. \A c \in Clients : ~Waiting(c)'
  BY <1>1, BrokerAssumption DEF Waiting
<1>3. QED
  BY <1>1, <1>2, ServerTells

LEMMA AcceptStory ==
  ASSUME TypeOK, SessionInv, StoryInv, Accept
  PROVE  StoryInv'
<1>1. CASE ServerStops("dead")
  BY <1>1, StopsStory DEF Accept, clients
<1>2. CASE ~ServerStops("dead")
  <2>1. backlog \in Seq(Clients) /\ backlog # <<>>
    BY DEF Accept, TypeOK
  <2>2. PICK d \in Clients : d = Head(backlog)
    BY <2>1
  <2>3. /\ ToSet(Tail(backlog)) = ToSet(backlog) \ {d}
        /\ d \in ToSet(backlog) /\ fdOf[d] = 0
    BY <2>1, <2>2, TailOfInjective DEF SessionInv, ClientInv
  <2>4. /\ accepting' = d /\ accepting = NoClient
        /\ backlog' = Tail(backlog)
        /\ \A c \in Clients \ {d} : fdOf'[c] = fdOf[c]
        /\ UNCHANGED <<server, proc, down, printed, datagrams, known, topics, notifications>>
    BY <1>2, <2>2 DEF Accept, InLoop, subscribers, clients, TypeOK
  <2>5. \A c \in Clients : (Waiting(c)' => Waiting(c)) /\ (Registered(c) => Registered(c)')
    BY <2>3, <2>4 DEF Waiting, Registered
  <2>6. \A id \in AllIds \ known' : topics'[id] = <<>> /\ notifications'[id] = <<>>
    BY <2>4 DEF StoryInv
  <2>7. QED
    BY <2>4, <2>5, <2>6, ServerTells DEF Accept, InLoop
<1>3. QED
  BY <1>1, <1>2

LEMMA CloseStory ==
  ASSUME TypeOK, StoryInv, NEW d \in Clients, CloseConnection(d)
  PROVE  StoryInv'
<1>1. /\ UNCHANGED <<server, accepting, known, topics, notifications, backlog,
                     datagrams, proc, printed, down>>
      /\ server = "running" /\ proc[d] = "gone"
      /\ \A c \in Clients \ {d} : fdOf'[c] = fdOf[c]
  BY DEF CloseConnection, InLoop, subscribers, clients, TypeOK
<1>2. StoryOf(d)
  BY DEF StoryInv
<1>3. \A c \in Clients : /\ Waiting(c)' => Waiting(c)
                         /\ down[c] # <<>> => (Registered(c) => Registered(c)')
  BY <1>1, <1>2 DEF Waiting, Registered, StoryOf
<1>4. \A id \in AllIds \ known' : topics'[id] = <<>> /\ notifications'[id] = <<>>
  BY <1>1 DEF StoryInv
<1>5. QED
  BY <1>1, <1>3, <1>4, ServerTells

LEMMA HandleStory ==
  ASSUME TypeOK, StoryInv, NEW d \in Clients, HandleMessage(d)
  PROVE  StoryInv'
<1>1. /\ UNCHANGED <<server, accepting, known, notifications, backlog, fdOf,
                     datagrams, proc, printed, down>>
      /\ server = "running"
  BY DEF HandleMessage, InLoop, clients
<1>2. \A c \in Clients : (Waiting(c)' => Waiting(c)) /\ (Registered(c) => Registered(c)')
  BY <1>1 DEF Waiting, Registered
<1>3. \A id \in AllIds \ known' : topics'[id] = topics[id]
  <2>1. IdOf[d] \notin known => topics' = topics
    BY DEF HandleMessage
  <2>2. \A id \in AllIds : id # IdOf[d] => topics'[id] = topics[id]
    BY DEF HandleMessage, Disconnect, AddTopic, RemoveTopic, TypeOK
  <2>3. QED
    BY <1>1, <2>1, <2>2
<1>4. \A id \in AllIds \ known' : topics'[id] = <<>> /\ notifications'[id] = <<>>
  BY <1>1, <1>3 DEF StoryInv
<1>5. QED
  BY <1>1, <1>2, <1>4, ServerTells

\* An identifier is refused, or entered for the first time.
LEMMA SilentAnswerStory ==
  ASSUME TypeOK, SessionInv, OrderInv, StoryInv, NEW d \in Clients, RegisterClient(d),
         ~ServerStops("dead"),
         Reject(d) \/ AddSubscriber(d, IdOf[d], Tail(up[d]))
  PROVE  StoryInv'
<1>1. /\ d # NoClient /\ accepting = d /\ accepting' = NoClient /\ Waiting(d)
      /\ IdOf[d] \in AllIds
      /\ UNCHANGED <<server, proc, backlog, datagrams, printed>>
      /\ \A c \in Clients : ~Waiting(c)'
  BY Answered
<1>2. /\ down' = down /\ server = "running"
      /\ \A c \in Clients \ {d} : fdOf'[c] = fdOf[c]
  BY DEF Reject, AddSubscriber, TypeOK, RegisterClient
<1>3. \A c \in Clients : Registered(c) => Registered(c)'
  BY <1>1, <1>2, BrokerAssumption DEF Registered
<1>4. /\ \A id \in AllIds : notifications'[id] \in {<<>>, notifications[id]}
      /\ \A id \in AllIds \ known' : topics'[id] = <<>> /\ notifications'[id] = <<>>
  <2>1. CASE Reject(d)
    BY <2>1 DEF Reject, subscribers, StoryInv
  <2>2. CASE AddSubscriber(d, IdOf[d], Tail(up[d]))
    <3>1. /\ known' = known \cup {IdOf[d]}
          /\ topics' = [topics EXCEPT ![IdOf[d]] = <<>>]
          /\ notifications' = [notifications EXCEPT ![IdOf[d]] = <<>>]
      BY <2>2 DEF AddSubscriber
    <3>2. notifications'[IdOf[d]] = <<>>
      BY <1>1, <3>1 DEF TypeOK
    <3>3. \A id \in AllIds \ {IdOf[d]} : /\ notifications'[id] = notifications[id]
                                         /\ topics'[id] = topics[id]
      BY <1>1, <3>1 DEF TypeOK
    <3>4. QED
      BY <3>1, <3>2, <3>3 DEF StoryInv
  <2>3. QED
    BY <2>1, <2>2
<1>5. QED
  BY <1>1, <1>2, <1>3, <1>4, ServerTells

-----------------------------------------------------------------------------
\* What is stored goes to its owner, whose story it begins.
LEMMA WakeSends ==
  ASSUME TypeOK, SessionInv, FdInv, OrderInv, StoryInv, NEW d \in Clients,
         RegisterClient(d), ~ServerStops("dead"),
         IdOf[d] \in known, ~is_connected[IdOf[d]],
         Wake(d, IdOf[d], Tail(up[d]))
  PROVE  /\ down[d] = <<>> /\ printed[d] = <<>>
         /\ down'[d] = notifications[IdOf[d]]
         /\ Story(d)' = notifications[IdOf[d]]
         /\ Registered(d)'
         /\ \A c \in Clients \ {d} : down'[c] = down[c]
<1>1. /\ d # NoClient /\ accepting = d /\ accepting' = NoClient /\ Waiting(d)
      /\ fdOf[d] # 0 /\ proc[d] = "running" /\ IdOf[d] \in AllIds
      /\ printed' = printed
  BY Answered
<1>2. fdOf[d] = socketfd[IdOf[d]]
  BY <1>1, SameNumberAgain DEF Away
<1>3. down' = Flushed(IdOf[d]) /\ fdOf' = fdOf
  BY DEF Wake
<1>4. \A c \in Clients : c \in Holders(socketfd[IdOf[d]]) <=> c = d
  BY <1>1, <1>2 DEF Holders, FdInv
<1>5. /\ down'[d] = down[d] \o notifications[IdOf[d]]
      /\ \A c \in Clients \ {d} : down'[c] = down[c]
  BY <1>1, <1>3, <1>4 DEF Flushed
<1>6. /\ printed[d] \in Seq(Nat) /\ down[d] \in Seq(Nat)
      /\ notifications[IdOf[d]] \in Seq(Nat)
  BY StoryTypes
<1>7. printed[d] \o down[d] = <<>>
  BY <1>1 DEF StoryInv, StoryOf, Story
<1>8. printed[d] = <<>> /\ down[d] = <<>>
  BY <1>6, <1>7, EmptyJoined
<1>9. <<>> \o notifications[IdOf[d]] = notifications[IdOf[d]]
  BY <1>6, EmptyJoined
<1>10. Registered(d)'
  BY <1>1, <1>3 DEF Registered
<1>11. QED
  BY <1>1, <1>5, <1>8, <1>9, <1>10 DEF Story

LEMMA WakeStory ==
  ASSUME TypeOK, SessionInv, FdInv, OrderInv, StoredInOrder, StoryInv,
         NEW d \in Clients, RegisterClient(d), ~ServerStops("dead"),
         IdOf[d] \in known, ~is_connected[IdOf[d]],
         Wake(d, IdOf[d], Tail(up[d]))
  PROVE  StoryInv'
<1> DEFINE id == IdOf[d]
<1>1. /\ d # NoClient /\ accepting = d /\ accepting' = NoClient /\ Waiting(d)
      /\ proc[d] = "running" /\ id \in AllIds
      /\ UNCHANGED <<server, proc, backlog, datagrams, printed>>
      /\ \A c \in Clients : ~Waiting(c)'
  BY Answered
<1>2. /\ down[d] = <<>> /\ printed[d] = <<>>
      /\ Story(d)' = notifications[id] /\ Registered(d)'
      /\ \A c \in Clients \ {d} : down'[c] = down[c]
  BY WakeSends
<1>3. /\ known' = known /\ topics' = topics /\ fdOf' = fdOf
      /\ notifications' = [notifications EXCEPT ![id] = <<>>]
      /\ server = "running"
  BY DEF Wake, RegisterClient
<1>4. /\ notifications'[id] = <<>>
      /\ \A i \in AllIds \ {id} : notifications'[i] = notifications[i]
  BY <1>1, <1>3 DEF TypeOK
<1>5. \A c \in Clients : Registered(c) => Registered(c)'
  BY <1>1, <1>3, BrokerAssumption DEF Registered
<1>6. /\ Increasing(notifications[id])
      /\ \A n \in ToSet(notifications[id]) :
           n \in DOMAIN datagrams /\ id \in datagrams[n].to
  BY DEF StoredInOrder, Increasing, ToSet
<1>7. ToSet(<<>>) = {}
  BY DEF ToSet
<1>8. \A c \in Clients \ {d} : Story(c)' = Story(c)
  BY <1>1, <1>2 DEF Story
<1>9. StoryOf(d)'
  BY <1>1, <1>2, <1>4, <1>6, <1>7 DEF StoryOf
<1>10. ASSUME NEW c \in Clients \ {d} PROVE StoryOf(c)'
  <2>1. StoryOf(c) /\ IdOf[c] \in AllIds
    BY BrokerAssumption DEF StoryInv, AllIds
  <2>2. \A m \in ToSet(notifications'[IdOf[c]]) : m \in ToSet(notifications[IdOf[c]])
    BY <1>4, <1>7, <2>1
  <2>3. QED
    BY <1>1, <1>2, <1>5, <1>8, <2>1, <2>2 DEF StoryOf
<1>11. ASSUME NEW c \in Clients \ {d}, IdOf[c] = id
       PROVE  /\ ToSet(Story(c)') \cap ToSet(Story(d)') = {}
              /\ down'[c] = <<>>
  <2>1. StoryOf(c)
    BY DEF StoryInv
  <2>2. ASSUME NEW n \in ToSet(Story(c)), n \in ToSet(notifications[id]) PROVE FALSE
    <3>1. n < n /\ n \in DOMAIN datagrams
      BY <1>11, <2>1, <2>2 DEF StoryOf
    <3>2. n \in Nat
      BY <3>1 DEF TypeOK
    <3>3. QED
      BY <3>1, <3>2
  <2>3. down[c] = <<>>
    <3>1. SUFFICES ASSUME down[c] # <<>> PROVE FALSE
      OBVIOUS
    <3>2. Registered(c) /\ proc[c] = "running"
      BY <1>3, <2>1, <3>1 DEF StoryOf
    <3>3. QED
      BY <1>11, <3>2, RegisteredRuns
  <2>4. QED
    BY <1>2, <1>8, <2>2, <2>3
<1>12. ASSUME NEW c \in Clients, NEW e \in Clients, c # e, IdOf[c] = IdOf[e]
       PROVE  /\ ToSet(Story(c)') \cap ToSet(Story(e)') = {}
              /\ down'[c] = <<>> \/ down'[e] = <<>>
  <2>1. CASE c = d
    BY <1>11, <1>12, <2>1
  <2>2. CASE e = d
    BY <1>11, <1>12, <2>2
  <2>3. CASE c # d /\ e # d
    BY <1>2, <1>8, <1>12, <2>3 DEF StoryInv
  <2>4. QED
    BY <2>1, <2>2, <2>3
<1>13. \A i \in AllIds \ known' : topics'[i] = <<>> /\ notifications'[i] = <<>>
  BY <1>3, <1>4 DEF StoryInv
<1>14. Len(datagrams') <= MaxDatagrams
  BY <1>1 DEF StoryInv
<1>15. QED
  BY <1>9, <1>10, <1>12, <1>13, <1>14 DEF StoryInv

\* The server survives every registration: a stored number is in use again
\* before anything is sent to it.
LEMMA WakeLives ==
  ASSUME TypeOK, SessionInv, FdInv, OrderInv, NEW d \in Clients, RegisterClient(d)
  PROVE  /\ ~ServerStops("dead")
         /\ \/ /\ IdOf[d] \in known /\ is_connected[IdOf[d]]
               /\ Reject(d)
            \/ /\ IdOf[d] \in known /\ ~is_connected[IdOf[d]]
               /\ Wake(d, IdOf[d], Tail(up[d]))
            \/ IdOf[d] \notin known /\ AddSubscriber(d, IdOf[d], Tail(up[d]))
<1> DEFINE id == IdOf[d]
<1>1. accepting = d /\ d # NoClient /\ server = "running"
  BY BrokerAssumption DEF RegisterClient
<1>2. proc[d] # "gone" /\ fdOf[d] # 0
  BY <1>1 DEF Waiting, OrderInv, SessionInv, ArrivesAlone, ClientInv
<1>3. up[d] # <<>>
  BY <1>2 DEF RegisterClient, Readable
<1>4. \/ id \in known /\ is_connected[id] /\ Reject(d)
      \/ id \in known /\ ~is_connected[id] /\ Wake(d, id, Tail(up[d]))
      \/ id \notin known /\ AddSubscriber(d, id, Tail(up[d]))
  BY <1>3 DEF RegisterClient
<1>5. ASSUME ServerStops("dead") PROVE FALSE
  <2>1. server' = "dead"
    BY <1>5 DEF ServerStops
  <2>2. ~Reject(d) /\ ~AddSubscriber(d, id, Tail(up[d]))
    BY <1>1, <2>1 DEF Reject, AddSubscriber
  <2>3. id \in known /\ ~is_connected[id] /\ Wake(d, id, Tail(up[d]))
    BY <1>4, <2>2
  <2>4. fdOf[d] = socketfd[id]
    BY <1>1, <2>3, SameNumberAgain DEF Away
  <2>5. d \in Holders(socketfd[id])
    BY <1>2, <2>4 DEF Holders
  <2>6. ~MayDie(socketfd[id])
    BY <1>2, <2>5 DEF MayDie
  <2>7. QED
    BY <1>1, <2>1, <2>3, <2>6 DEF Wake
<1>6. QED
  BY <1>4, <1>5

LEMMA RegisterStory ==
  ASSUME TypeOK, SessionInv, FdInv, OrderInv, StoredInOrder, StoryInv,
         NEW d \in Clients, RegisterClient(d)
  PROVE  StoryInv'
BY WakeLives, WakeStory, SilentAnswerStory

-----------------------------------------------------------------------------
\* What is sent to some of the subscribers reaches each of them once, and
\* nobody else.
LEMMA ForwardedIs ==
  ASSUME TypeOK, OrderInv, accepting = NoClient, NEW n \in Nat,
         NEW S \in SUBSET known, NEW c \in Clients
  PROVE  Forwarded(S, n)[c] =
           IF proc[c] # "gone" /\ Registered(c) /\ IdOf[c] \in S
           THEN Append(down[c], n) ELSE down[c]
<1> DEFINE X == {id \in S : c \in Holders(socketfd[id])}
<1>1. Forwarded(S, n)[c] = IF proc[c] = "gone" THEN down[c]
                           ELSE down[c] \o [k \in 1..Cardinality(X) |-> n]
  BY DEF Forwarded
<1>2. down[c] \in Seq(Nat)
  BY DEF TypeOK
<1>3. CASE Registered(c) /\ IdOf[c] \in S
  <2>1. X = {IdOf[c]}
    <3>1. fdOf[c] # 0 /\ fdOf[c] = socketfd[IdOf[c]]
      BY <1>3 DEF OrderInv, InMap, Registered
    <3>2. IdOf[c] \in X
      BY <1>3, <3>1 DEF Holders
    <3>3. ASSUME NEW id \in X PROVE id = IdOf[c]
      BY <1>3, <3>1, <3>3 DEF Holders, OrderInv, Numbered
    <3>4. QED
      BY <3>2, <3>3
  <2>2. Cardinality(X) = 1
    BY <2>1, FS_Singleton
  <2>3. down[c] \o [k \in 1..1 |-> n] = Append(down[c], n)
    BY <1>2, Copies
  <2> HIDE DEF X
  <2>4. QED
    BY <1>1, <1>3, <2>2, <2>3
<1>4. CASE ~(Registered(c) /\ IdOf[c] \in S)
  <2>1. X = {}
    <3>1. SUFFICES ASSUME NEW id \in S, c \in Holders(socketfd[id]) PROVE FALSE
      OBVIOUS
    <3>2. fdOf[c] = socketfd[id] /\ fdOf[c] # 0
      BY <3>1 DEF Holders
    <3>3. Registered(c)
      BY <3>2, BrokerAssumption DEF Registered
    <3>4. IdOf[c] \in known /\ socketfd[IdOf[c]] = socketfd[id]
      BY <3>2, <3>3 DEF OrderInv, InMap
    <3>5. IdOf[c] = id
      BY <3>4 DEF OrderInv, Numbered
    <3>6. QED
      BY <1>4, <3>3, <3>5
  <2>2. Cardinality(X) = 0
    BY <2>1, FS_EmptySet
  <2>3. down[c] \o [k \in 1..0 |-> n] = down[c]
    BY <1>2, Copies
  <2> HIDE DEF X
  <2>4. QED
    BY <1>1, <1>4, <2>2, <2>3
<1>5. QED
  BY <1>3, <1>4

LEMMA StoryAppended ==
  ASSUME TypeOK, NEW c \in Clients, NEW n \in Nat
  PROVE  printed[c] \o Append(down[c], n) = Append(Story(c), n)
<1> DEFINE s == printed[c]
           r == down[c]
<1>1. s \in Seq(Nat) /\ r \in Seq(Nat)
  BY StoryTypes
<1> HIDE DEF s, r
<1>2. s \o Append(r, n) = Append(s \o r, n)
  BY <1>1, AppendJoined
<1>3. QED
  BY <1>2 DEF Story, s, r

\* A datagram adds itself to the stories of those it is sent to.
LEMMA StoryGrows ==
  ASSUME TypeOK, SessionInv, OrderInv, Storing, StoryInv, NEW t \in Topics,
         Publish(t),
         NEW served \in SUBSET {id \in known : is_connected[id]},
         \A id \in served : id \in datagrams'[Len(datagrams) + 1].to,
         down' = Forwarded(served, Len(datagrams) + 1),
         \A id \in AllIds :
           notifications'[id] \in {<<>>, notifications[id],
                                   Append(notifications[id], Len(datagrams) + 1)},
         \A id \in served : notifications'[id] = <<>>,
         \A id \in AllIds \ known' : topics'[id] = <<>> /\ notifications'[id] = <<>>,
         \A c \in Clients :
           /\ Waiting(c)' => Waiting(c)
           /\ server' = "running" => (Registered(c) => Registered(c)')
  PROVE  StoryInv'
<1> DEFINE n == Len(datagrams) + 1
           Gets(c) == proc[c] # "gone" /\ Registered(c) /\ IdOf[c] \in served
<1>1. PICK e \in [topic : Topics, to : SUBSET AllIds] :
        datagrams' = Append(datagrams, e)
  <2>1. [topic |-> t, to |-> {id \in known : is_connected[id] /\ HasTopic(id, t)}
              \cup {id \in known : ~is_connected[id] /\ HasStoredTopic(id, t)}]
          \in [topic : Topics, to : SUBSET AllIds]
    BY DEF TypeOK
  <2>2. QED
    BY <2>1 DEF Publish
<1>2. /\ n \in Nat /\ n >= 1
      /\ DOMAIN datagrams = 1..(n - 1)
      /\ DOMAIN datagrams' = 1..n
      /\ \A i \in DOMAIN datagrams : datagrams'[i] = datagrams[i]
      /\ \A i \in DOMAIN datagrams : i \in Nat /\ i < n
  BY <1>1, DatagramsGrow
<1>3. /\ server = "running" /\ accepting = NoClient
      /\ UNCHANGED <<proc, printed>>
      /\ Len(datagrams) < MaxDatagrams
  BY DEF Publish, InLoop, clients
<1>4. \A id \in served : id \in datagrams'[n].to
  OBVIOUS
<1>5. \A id \in AllIds :
        notifications'[id] \in {<<>>, notifications[id], Append(notifications[id], n)}
  OBVIOUS
<1>6. ASSUME NEW c \in Clients
      PROVE  /\ down'[c] = IF Gets(c) THEN Append(down[c], n) ELSE down[c]
             /\ Story(c)' = IF Gets(c) THEN Append(Story(c), n) ELSE Story(c)
             /\ Story(c) \in Seq(Nat) /\ down[c] \in Seq(Nat)
  <2>1. served \in SUBSET known
    OBVIOUS
  <2>2. down'[c] = IF Gets(c) THEN Append(down[c], n) ELSE down[c]
    BY <1>2, <1>3, <2>1, ForwardedIs
  <2>3. printed[c] \in Seq(Nat) /\ down[c] \in Seq(Nat) /\ Story(c) \in Seq(Nat)
    BY StoryTypes
  <2> HIDE DEF n, Gets
  <2>4. printed[c] \o Append(down[c], n) = Append(Story(c), n)
    BY <1>2, StoryAppended
  <2>5. QED
    BY <1>3, <2>2, <2>3, <2>4 DEF Story
<1>7. \A c \in Clients : Gets(c) =>
        /\ proc[c] = "running" /\ Registered(c) /\ Session(c) /\ ~Waiting(c)
        /\ notifications'[IdOf[c]] = <<>>
  BY RegisteredRuns
<1>8. \A c \in Clients : down[c] # <<>> =>
        proc[c] = "running" /\ Registered(c) /\ Session(c)
  BY <1>3, RegisteredRuns DEF StoryInv, StoryOf
<1> HIDE DEF n
<1>9. ASSUME NEW c \in Clients, NEW m \in ToSet(Story(c)) PROVE m \in Nat /\ m < n
  <2>1. m \in DOMAIN datagrams
    BY <1>9 DEF StoryInv, StoryOf
  <2>2. QED
    BY <1>2, <2>1
<1>10. ASSUME NEW c \in Clients, Gets(c)
       PROVE  ToSet(Story(c)') = ToSet(Story(c)) \cup {n}
  <2>1. Story(c) \in Seq(Nat) /\ Story(c)' = Append(Story(c), n)
    BY <1>6, <1>10
  <2>2. ToSet(Append(Story(c), n)) = ToSet(Story(c)) \cup {n}
    BY <1>2, <2>1, ToSetAppend
  <2>3. QED
    BY <2>1, <2>2
<1>11. ToSet(<<>>) = {}
  BY DEF ToSet
<1>12. ASSUME NEW c \in Clients, Gets(c) PROVE StoryOf(c)'
  <2>1. StoryOf(c)
    BY DEF StoryInv
  <2>2. Increasing(Story(c)')
    <3>1. Story(c) \in Seq(Nat) /\ Story(c)' = Append(Story(c), n)
      BY <1>6, <1>12
    <3>2. Increasing(Story(c)) /\ \A m \in ToSet(Story(c)) : m < n
      BY <1>9, <2>1 DEF StoryOf
    <3>3. Increasing(Append(Story(c), n))
      BY <1>2, <3>1, <3>2, AppendIncreases
    <3>4. QED
      BY <3>1, <3>3
  <2>3. ~Waiting(c)' /\ proc'[c] = "running" /\ (server' = "running" => Registered(c)')
    BY <1>3, <1>7, <1>12
  <2>4. ASSUME NEW m \in ToSet(Story(c)')
        PROVE  /\ m \in DOMAIN datagrams' /\ IdOf[c] \in datagrams'[m].to
               /\ \A k \in ToSet(notifications'[IdOf[c]]) : m < k
    <3>1. \A k \in ToSet(notifications'[IdOf[c]]) : m < k
      BY <1>7, <1>11, <1>12
    <3>2. CASE m = n
      BY <1>2, <1>4, <1>12, <3>1, <3>2
    <3>3. CASE m \in ToSet(Story(c))
      BY <1>2, <2>1, <3>1, <3>3 DEF StoryOf
    <3>4. QED
      BY <1>10, <1>12, <2>4, <3>2, <3>3
  <2>5. QED
    BY <2>2, <2>3, <2>4 DEF StoryOf
<1>13. ASSUME NEW c \in Clients, ~Gets(c) PROVE StoryOf(c)'
  <2>1. StoryOf(c) /\ IdOf[c] \in AllIds /\ notifications[IdOf[c]] \in Seq(Nat)
    BY StoryTypes DEF StoryInv
  <2>2. Story(c)' = Story(c) /\ down'[c] = down[c]
    BY <1>6, <1>13
  <2>3. \A k \in ToSet(notifications'[IdOf[c]]) :
          k = n \/ k \in ToSet(notifications[IdOf[c]])
    <3> DEFINE queue == notifications[IdOf[c]]
    <3>1. ToSet(Append(queue, n)) = ToSet(queue) \cup {n}
      <4>1. n \in Nat /\ queue \in Seq(Nat)
        BY <1>2, <2>1
      <4> HIDE DEF n, queue
      <4>2. QED
        BY <4>1, ToSetAppend
    <3>2. \/ notifications'[IdOf[c]] = <<>>
          \/ notifications'[IdOf[c]] = notifications[IdOf[c]]
          \/ notifications'[IdOf[c]] = Append(notifications[IdOf[c]], n)
      BY <1>5, <2>1
    <3>3. QED
      BY <1>11, <3>1, <3>2
  <2>4. ASSUME NEW m \in ToSet(Story(c))
        PROVE  /\ m \in DOMAIN datagrams' /\ IdOf[c] \in datagrams'[m].to
               /\ \A k \in ToSet(notifications'[IdOf[c]]) : m < k
    <3>1. /\ m \in DOMAIN datagrams /\ IdOf[c] \in datagrams[m].to
          /\ \A k \in ToSet(notifications[IdOf[c]]) : m < k
      BY <2>1 DEF StoryOf
    <3>2. m < n
      BY <1>9
    <3>3. m \in DOMAIN datagrams'
      BY <1>2, <3>1
    <3>4. QED
      BY <1>2, <2>3, <3>1, <3>2, <3>3
  <2>5. QED
    BY <1>3, <2>1, <2>2, <2>4 DEF StoryOf
<1>14. ASSUME NEW c \in Clients, NEW d \in Clients, c # d, IdOf[c] = IdOf[d]
       PROVE  /\ ToSet(Story(c)') \cap ToSet(Story(d)') = {}
              /\ down'[c] = <<>> \/ down'[d] = <<>>
  <2>1. ~(Session(c) /\ Session(d))
    BY <1>14 DEF SessionInv
  <2>2. ~(Gets(c) /\ Gets(d))
    BY <1>7, <2>1
  <2>3. down'[c] # <<>> => Session(c)
    BY <1>6, <1>7, <1>8
  <2>4. down'[d] # <<>> => Session(d)
    BY <1>6, <1>7, <1>8
  <2>5. n \notin ToSet(Story(c)) /\ n \notin ToSet(Story(d))
    BY <1>2, <1>9
  <2>6. ToSet(Story(c)) \cap ToSet(Story(d)) = {}
    BY <1>14 DEF StoryInv
  <2>7. ToSet(Story(c)') \cap ToSet(Story(d)') = {}
    BY <1>6, <1>10, <2>2, <2>5, <2>6
  <2>8. QED
    BY <2>1, <2>3, <2>4, <2>7
<1>15. Len(datagrams') <= MaxDatagrams
  <2>1. Len(datagrams') = Len(datagrams) + 1
    BY <1>1 DEF TypeOK
  <2>2. Len(datagrams) \in Nat
    BY DEF TypeOK
  <2>3. QED
    BY <1>3, <2>1, <2>2, BrokerAssumption
<1>16. QED
  BY <1>12, <1>13, <1>14, <1>15 DEF StoryInv

LEMMA PublishStory ==
  ASSUME TypeOK, SessionInv, OrderInv, Storing, StoryInv, NEW t \in Topics, Publish(t)
  PROVE  StoryInv'
<1> DEFINE n == Len(datagrams) + 1
           online == {id \in known : is_connected[id] /\ HasTopic(id, t)}
           offline == {id \in known : ~is_connected[id] /\ HasStoredTopic(id, t)}
           entry == [topic |-> t, to |-> online \cup offline]
<1>1. entry \in [topic : Topics, to : SUBSET AllIds]
  BY DEF TypeOK
<1>2. datagrams' = Append(datagrams, entry)
  BY DEF Publish
<1>3. datagrams'[n] = entry
  BY <1>1, <1>2, DatagramsGrow
<1>4. \A id \in online : id \in datagrams'[n].to
  BY <1>3
<1>5. online \subseteq {id \in known : is_connected[id]}
  OBVIOUS
<1>6. known \subseteq AllIds
  BY DEF TypeOK
<1>7. \A id \in online : notifications[id] = <<>> /\ id \notin offline
  BY DEF Storing, OnlineQueueEmpty
<1>8. CASE ServerStops("dead")
  <2>1. PICK served \in SUBSET online : down' = Forwarded(served, n)
    BY <1>8 DEF Publish
  <2>2. /\ known' = {} /\ accepting' = NoClient /\ ToSet(backlog') = {}
        /\ server' = "dead"
        /\ \A id \in AllIds : topics'[id] = <<>> /\ notifications'[id] = <<>>
    BY <1>8 DEF ServerStops, EveryId, ToSet
  <2>3. \A c \in Clients : ~Waiting(c)'
    BY <2>2, BrokerAssumption DEF Waiting
  <2>4. served \in SUBSET {id \in known : is_connected[id]}
    BY <1>5
  <2>5. \A id \in served : id \in datagrams'[n].to /\ notifications'[id] = <<>>
    BY <1>4, <1>6, <2>2
  <2> HIDE DEF online, offline, entry
  <2>6. QED
    BY <2>1, <2>2, <2>3, <2>4, <2>5, StoryGrows
<1>9. CASE ~ServerStops("dead")
  <2>1. /\ down' = Forwarded(online, n) /\ notifications' = Stored(offline, n)
        /\ UNCHANGED <<server, accepting, known, topics, backlog, fdOf>>
    BY <1>9 DEF Publish
  <2>2. \A id \in AllIds : notifications'[id] = IF id \in offline
                                               THEN Append(notifications[id], n)
                                               ELSE notifications[id]
    BY <2>1 DEF Stored
  <2>3. \A id \in AllIds :
          notifications'[id] \in {<<>>, notifications[id], Append(notifications[id], n)}
    BY <2>2
  <2>4. \A id \in online : notifications'[id] = <<>>
    BY <1>6, <1>7, <2>2
  <2>5. \A id \in AllIds \ known' : topics'[id] = <<>> /\ notifications'[id] = <<>>
    BY <2>1, <2>2 DEF StoryInv
  <2>6. \A c \in Clients : (Waiting(c)' => Waiting(c)) /\ (Registered(c) => Registered(c)')
    BY <2>1 DEF Waiting, Registered
  <2>7. online \in SUBSET {id \in known : is_connected[id]}
    BY <1>5
  <2> HIDE DEF online, offline, entry
  <2>8. QED
    BY <1>4, <2>1, <2>3, <2>4, <2>5, <2>6, <2>7, StoryGrows
<1>10. QED
  BY <1>8, <1>9

LEMMA StoryStep ==
  ASSUME TypeOK, SessionInv, FdInv, OrderInv, Storing, StoredInOrder, StoryInv,
         [Next]_vars
  PROVE  StoryInv'
<1>1. CASE ServerExit
  BY <1>1, StopsStory DEF ServerExit, clients
<1>2. CASE UNCHANGED vars
  <2>1. /\ UNCHANGED <<server, accepting, backlog, fdOf, known, topics, notifications>>
        /\ UNCHANGED <<datagrams, proc, printed, down>>
    BY <1>2 DEF vars, subscribers, clients
  <2>2. \A c \in Clients : (Waiting(c)' => Waiting(c)) /\ (Registered(c) => Registered(c)')
    BY <2>1 DEF Waiting, Registered
  <2>3. \A id \in AllIds \ known' : topics'[id] = <<>> /\ notifications'[id] = <<>>
    BY <2>1 DEF StoryInv
  <2>4. QED
    BY <2>1, <2>2, <2>3, ServerTells
<1>3. QED
  BY <1>1, <1>2, ClientStory, AcceptStory, RegisterStory, CloseStory,
     HandleStory, PublishStory DEF Next, Server

LEMMA StoryAlways == ASSUME Orderly, ~MayCrash PROVE Spec => []StoryInv
<1>1. Init => StoryInv
  <2> SUFFICES ASSUME Init PROVE StoryInv
    OBVIOUS
  <2>1. \A c \in Clients : printed[c] = <<>> /\ down[c] = <<>>
    BY DEF Init, EveryClient
  <2>2. \A c \in Clients : Story(c) = <<>>
    BY <2>1 DEF Story
  <2>3. /\ ToSet(<<>>) = {} /\ Increasing(<<>>)
    BY DEF ToSet, Increasing
  <2>4. \A c \in Clients : StoryOf(c)
    BY <2>1, <2>2, <2>3 DEF StoryOf
  <2>5. \A id \in AllIds : topics[id] = <<>> /\ notifications[id] = <<>>
    BY DEF Init, EveryId
  <2>6. Len(datagrams) = 0
    BY DEF Init
  <2>7. QED
    BY <2>1, <2>2, <2>3, <2>4, <2>5, <2>6, BrokerAssumption DEF StoryInv
<1>2. TypeOK /\ SessionInv /\ FdInv /\ OrderInv /\ Storing /\ StoredInOrder
        /\ StoryInv /\ [Next]_vars => StoryInv'
  BY StoryStep
<1>3. QED
  BY <1>1, <1>2, TypeCorrect, SessionAlways, FdAlways, OrderAlways,
     StoringAlways, QueuesInOrder, PTL DEF Spec

\* While users take turns, a client prints only what was addressed to its
\* identifier.
THEOREM PrintsItsOwn ==
  ASSUME Orderly, ~MayCrash
  PROVE  Spec => []PrintsOnlyItsOwn
<1>1. TypeOK /\ StoryInv => PrintsOnlyItsOwn
  <2> SUFFICES ASSUME TypeOK, StoryInv, NEW c \in Clients, NEW i \in DOMAIN printed[c]
               PROVE  IdOf[c] \in datagrams[printed[c][i]].to
    BY DEF PrintsOnlyItsOwn
  <2>1. printed[c] \in Seq(Nat) /\ down[c] \in Seq(Nat)
    BY StoryTypes
  <2>2. ToSet(printed[c]) \subseteq ToSet(printed[c] \o down[c])
    BY <2>1, EmptyJoined
  <2>3. printed[c][i] \in ToSet(printed[c])
    BY DEF ToSet
  <2>4. QED
    BY <2>2, <2>3 DEF StoryInv, StoryOf, Story
<1>2. QED
  BY <1>1, TypeCorrect, StoryAlways, PTL

\* While users take turns, nothing is printed twice by the runs of one
\* identifier, and each prints in the order of the datagrams.
THEOREM PrintedOnce ==
  ASSUME Orderly, ~MayCrash
  PROVE  Spec => []PrintedOnceInOrder
<1>1. TypeOK /\ StoryInv => PrintedOnceInOrder
  <2> SUFFICES ASSUME TypeOK, StoryInv PROVE PrintedOnceInOrder
    OBVIOUS
  <2>1. ASSUME NEW c \in Clients
        PROVE  Increasing(printed[c]) /\ ToSet(printed[c]) \subseteq ToSet(Story(c))
    <3>1. printed[c] \in Seq(Nat) /\ down[c] \in Seq(Nat)
      BY StoryTypes
    <3>2. Increasing(printed[c] \o down[c])
      BY DEF StoryInv, StoryOf, Story
    <3>3. Increasing(printed[c])
      BY <3>1, <3>2, StartIncreases
    <3>4. ToSet(printed[c]) \subseteq ToSet(printed[c] \o down[c])
      BY <3>1, EmptyJoined
    <3>5. QED
      BY <3>3, <3>4 DEF Story
  <2>2. \A c \in Clients : \A d \in Clients \ {c} : IdOf[c] = IdOf[d] =>
          ToSet(printed[c]) \cap ToSet(printed[d]) = {}
    BY <2>1 DEF StoryInv
  <2>3. QED
    BY <2>1, <2>2 DEF PrintedOnceInOrder, Increasing
<1>2. QED
  BY <1>1, TypeCorrect, StoryAlways, PTL

-----------------------------------------------------------------------------
\* What becomes of a queue in one step.
LEMMA QueueGoesTo ==
  ASSUME TypeOK, SessionInv, FdInv, OrderInv, StoryInv, [Next]_vars,
         NEW id \in Ids, notifications[id] # <<>>,
         notifications'[id] # notifications[id], server' = "running"
  PROVE  \/ IsPrefix(notifications[id], notifications'[id])
         \/ \E c \in Clients : /\ IdOf[c] = id
                               /\ Registered(c)'
                               /\ down'[c] = notifications[id]
<1>1. id \in AllIds /\ id \in known
  BY DEF AllIds, StoryInv
<1>2. \A how \in {"dead", "exited"} : ~ServerStops(how)
  BY DEF ServerStops
<1>3. ~UNCHANGED notifications
  OBVIOUS
<1>4. CASE \E t \in Topics : Publish(t)
  <2>1. PICK t \in Topics : Publish(t)
    BY <1>4
  <2>2. PICK offline : notifications' = Stored(offline, Len(datagrams) + 1)
    BY <1>2, <2>1 DEF Publish
  <2>3. notifications'[id] = Append(notifications[id], Len(datagrams) + 1)
    BY <1>1, <2>2 DEF Stored
  <2>4. notifications[id] \in Seq(Nat) /\ Len(datagrams) + 1 \in Nat
    BY <1>1 DEF TypeOK
  <2>5. ASSUME NEW s \in Seq(Nat), NEW n \in Nat PROVE IsPrefix(s, Append(s, n))
    BY DEF IsPrefix
  <2>6. QED
    BY <2>3, <2>4, <2>5
<1>5. CASE \E d \in Clients : RegisterClient(d)
  <2>1. PICK d \in Clients : RegisterClient(d)
    BY <1>5
  <2>2. up[d] # <<>> /\ IdOf[d] \in AllIds
    BY <1>2, <2>1, Answered
  <2>3. \/ Reject(d)
        \/ IdOf[d] \in known /\ ~is_connected[IdOf[d]] /\ Wake(d, IdOf[d], Tail(up[d]))
        \/ IdOf[d] \notin known /\ AddSubscriber(d, IdOf[d], Tail(up[d]))
    BY <2>1, <2>2 DEF RegisterClient
  <2>4. ~Reject(d)
    BY <1>3 DEF Reject, subscribers
  <2>5. notifications' = [notifications EXCEPT ![IdOf[d]] = <<>>]
    BY <1>2, <2>3, <2>4 DEF Wake, AddSubscriber
  <2>6. IdOf[d] = id
    BY <1>1, <2>5 DEF TypeOK
  <2>7. IdOf[d] \in known /\ ~is_connected[IdOf[d]] /\ Wake(d, IdOf[d], Tail(up[d]))
    BY <1>1, <2>3, <2>4, <2>6
  <2>8. down'[d] = notifications[id] /\ Registered(d)'
    BY <1>2, <2>1, <2>6, <2>7, WakeSends
  <2>9. QED
    BY <2>6, <2>8
<1>6. QED
  <2>1. ASSUME NEW c \in Clients, Client(c) PROVE UNCHANGED notifications
    BY <2>1 DEF Client, Launch, SendRegister, Exit, Crash, ReceiveNotification,
       ServerClosed, Subscribe, Unsubscribe, TypeCommand, subscribers
  <2>2. ASSUME NEW c \in Clients, CloseConnection(c) \/ HandleMessage(c)
        PROVE  UNCHANGED notifications
    BY <2>2 DEF CloseConnection, HandleMessage, subscribers
  <2>3. Accept => UNCHANGED notifications
    BY <1>2 DEF Accept, subscribers
  <2>4. ~ServerExit
    BY <1>2 DEF ServerExit
  <2>5. UNCHANGED vars => UNCHANGED notifications
    BY DEF vars, subscribers
  <2>6. QED
    BY <1>3, <1>4, <1>5, <2>1, <2>2, <2>3, <2>4, <2>5 DEF Next, Server

\* While users take turns, a queue is emptied only into the connection of its
\* own subscriber, and whole.
THEOREM StoredReach ==
  ASSUME Orderly, ~MayCrash
  PROVE  Spec => StoredReachOwner
<1>1. TypeOK /\ SessionInv /\ FdInv /\ OrderInv /\ StoryInv /\ [Next]_vars
        => [\A id \in Ids :
              /\ notifications[id] # <<>>
              /\ notifications'[id] # notifications[id]
              /\ server' = "running"
              => \/ IsPrefix(notifications[id], notifications'[id])
                 \/ \E c \in Clients : /\ IdOf[c] = id
                                       /\ Registered(c)'
                                       /\ down'[c] = notifications[id]]_vars
  BY QueueGoesTo
<1>2. QED
  BY <1>1, TypeCorrect, SessionAlways, FdAlways, OrderAlways, StoryAlways, PTL
     DEF Spec, StoredReachOwner

-----------------------------------------------------------------------------
(* The broker is a Mailboxes service (BrokerRefinement).                   *)

Present(id) == \E c \in Clients : IdOf[c] = id /\ Registered(c) /\ proc[c] = "running"

\* The mapping, case by case.
MapFacts ==
  \A id \in Ids :
    /\ id \notin known => StateOf(id) = "unknown"
    /\ id \in known /\ ~is_connected[id] => StateOf(id) = "away"
    /\ id \in known /\ is_connected[id] /\ Present(id) => StateOf(id) = "present"
    /\ id \in known /\ is_connected[id] /\ ~Present(id) => StateOf(id) = "leaving"
    /\ (\A c \in Clients : IdOf[c] = id => down[c] = <<>>)
         => BoxOf(id) = notifications[id]
    /\ \A c \in Clients :
         IdOf[c] = id /\ down[c] # <<>> => BoxOf(id) = down[c]

LEMMA Mapped == StoryInv => MapFacts
<1> SUFFICES ASSUME StoryInv, NEW id \in Ids
    PROVE  /\ id \notin known => StateOf(id) = "unknown"
           /\ id \in known /\ ~is_connected[id] => StateOf(id) = "away"
           /\ id \in known /\ is_connected[id] /\ Present(id) => StateOf(id) = "present"
           /\ id \in known /\ is_connected[id] /\ ~Present(id) => StateOf(id) = "leaving"
           /\ (\A c \in Clients : IdOf[c] = id => down[c] = <<>>)
                => BoxOf(id) = notifications[id]
           /\ \A c \in Clients :
                IdOf[c] = id /\ down[c] # <<>> => BoxOf(id) = down[c]
  BY DEF MapFacts
<1>1. id \notin known => StateOf(id) = "unknown"
  BY DEF StateOf
<1>2. id \in known /\ ~is_connected[id] => StateOf(id) = "away"
  BY DEF StateOf
<1>3. Present(id) <=> \E c \in RunsOf(id) : Registered(c) /\ proc[c] = "running"
  BY DEF Present, RunsOf
<1>4. id \in known /\ is_connected[id] /\ Present(id) => StateOf(id) = "present"
  BY <1>3 DEF StateOf
<1>5. id \in known /\ is_connected[id] /\ ~Present(id) => StateOf(id) = "leaving"
  BY <1>3 DEF StateOf
<1>6. (\A c \in Clients : IdOf[c] = id => down[c] = <<>>) => BoxOf(id) = notifications[id]
  BY DEF BoxOf, RunsOf
<1>7. ASSUME NEW c \in Clients, IdOf[c] = id, down[c] # <<>> PROVE BoxOf(id) = down[c]
  <2>1. c \in RunsOf(id)
    BY <1>7 DEF RunsOf
  <2>2. \A d \in RunsOf(id) : down[d] # <<>> => d = c
    BY <1>7 DEF RunsOf, StoryInv
  <2>3. (CHOOSE d \in RunsOf(id) : down[d] # <<>>) = c
    BY <1>7, <2>1, <2>2
  <2>4. QED
    BY <1>7, <2>1, <2>3 DEF BoxOf
<1>8. QED
  BY <1>1, <1>2, <1>4, <1>5, <1>6, <1>7

\* What a step does that the service does not see.
SeenSame(id) ==
  /\ StateOf(id)' = StateOf(id)
  /\ topics'[id] = topics[id]
  /\ BoxOf(id)' = BoxOf(id)
  /\ GotBy(id)' = GotBy(id)

LEMMA Unseen ==
  ASSUME \A id \in Ids : SeenSame(id), server' = server, datagrams' = datagrams
  PROVE  UNCHANGED Service!vars
BY DEF SeenSame, Service!vars

LEMMA BoxSame ==
  ASSUME MapFacts, MapFacts', NEW id \in Ids,
         \A c \in Clients : IdOf[c] = id => down'[c] = down[c],
         notifications'[id] = notifications[id]
  PROVE  BoxOf(id)' = BoxOf(id)
<1>1. CASE \A c \in Clients : IdOf[c] = id => down[c] = <<>>
  BY <1>1 DEF MapFacts
<1>2. CASE \E c \in Clients : IdOf[c] = id /\ down[c] # <<>>
  <2>1. PICK c \in Clients : IdOf[c] = id /\ down[c] # <<>>
    BY <1>2
  <2>2. BoxOf(id) = down[c]
    BY <2>1 DEF MapFacts
  <2>3. BoxOf(id)' = down'[c]
    BY <2>1 DEF MapFacts
  <2>4. QED
    BY <2>1, <2>2, <2>3
<1>3. QED
  BY <1>1, <1>2

LEMMA StateSame ==
  ASSUME MapFacts, MapFacts', NEW id \in Ids,
         id \in known' <=> id \in known,
         is_connected'[id] = is_connected[id],
         Present(id)' <=> Present(id)
  PROVE  StateOf(id)' = StateOf(id)
<1>1. CASE id \notin known
  BY <1>1 DEF MapFacts
<1>2. CASE id \in known /\ ~is_connected[id]
  BY <1>2 DEF MapFacts
<1>3. CASE id \in known /\ is_connected[id] /\ Present(id)
  <2>1. id \in known' /\ is_connected'[id] /\ Present(id)'
    BY <1>3
  <2>2. StateOf(id)' = "present"
    BY <2>1, Zenon DEF MapFacts
  <2>3. StateOf(id) = "present"
    BY <1>3, Zenon DEF MapFacts
  <2>4. QED
    BY <2>2, <2>3
<1>4. CASE id \in known /\ is_connected[id] /\ ~Present(id)
  <2>1. id \in known' /\ is_connected'[id] /\ ~Present(id)'
    BY <1>4
  <2>2. StateOf(id)' = "leaving"
    BY <2>1, Zenon DEF MapFacts
  <2>3. StateOf(id) = "leaving"
    BY <1>4, Zenon DEF MapFacts
  <2>4. QED
    BY <2>2, <2>3
<1>5. QED
  BY <1>1, <1>2, <1>3, <1>4

LEMMA GotSame ==
  ASSUME NEW id \in Ids, \A c \in Clients : IdOf[c] = id => printed'[c] = printed[c]
  PROVE  GotBy(id)' = GotBy(id)
BY DEF GotBy, RunsOf

\* Nobody runs for an identifier that is not connected, and whoever does has
\* all its mail before it.
LEMMA PresentIs ==
  ASSUME TypeOK, SessionInv, FdInv, OrderInv, StoryInv, Storing, MapFacts,
         server = "running", NEW c \in Clients, Registered(c), proc[c] = "running"
  PROVE  /\ IdOf[c] \in Ids /\ Present(IdOf[c])
         /\ IdOf[c] \in known /\ is_connected[IdOf[c]]
         /\ StateOf(IdOf[c]) = "present"
         /\ notifications[IdOf[c]] = <<>>
         /\ BoxOf(IdOf[c]) = down[c]
         /\ \A d \in Clients \ {c} : IdOf[d] = IdOf[c] => down[d] = <<>> /\ ~Registered(d)
<1>1. IdOf[c] \in Ids /\ Present(IdOf[c])
  BY BrokerAssumption DEF Present
<1>2. IdOf[c] \in known /\ is_connected[IdOf[c]]
  BY RegisteredRuns
<1>3. notifications[IdOf[c]] = <<>>
  BY <1>2 DEF Storing, OnlineQueueEmpty
<1>4. ASSUME NEW d \in Clients \ {c}, IdOf[d] = IdOf[c]
      PROVE  down[d] = <<>> /\ ~Registered(d)
  <2>1. ~Registered(d)
    BY <1>4, OneNumber DEF OrderInv, InMap
  <2>2. QED
    BY <2>1 DEF StoryInv, StoryOf
<1>5. BoxOf(IdOf[c]) = down[c]
  BY <1>1, <1>3, <1>4 DEF MapFacts
<1>6. QED
  BY <1>1, <1>2, <1>3, <1>4, <1>5 DEF MapFacts

\* Nobody with this identifier comes, goes, reads or is sent anything.
Serves(c) == Registered(c) /\ proc[c] = "running"

LEMMA NotTouched ==
  ASSUME MapFacts, MapFacts', NEW id \in Ids,
         id \in known' <=> id \in known,
         is_connected'[id] = is_connected[id],
         topics'[id] = topics[id], notifications'[id] = notifications[id],
         \A c \in Clients : IdOf[c] = id =>
           /\ down'[c] = down[c] /\ printed'[c] = printed[c]
           /\ Serves(c)' <=> Serves(c)
  PROVE  SeenSame(id)
<1>1. Present(id)' <=> Present(id)
  BY DEF Present, Serves
<1>2. StateOf(id)' = StateOf(id)
  BY <1>1, StateSame
<1>3. BoxOf(id)' = BoxOf(id)
  BY BoxSame
<1>4. GotBy(id)' = GotBy(id)
  BY GotSame
<1>5. QED
  BY <1>2, <1>3, <1>4 DEF SeenSame

\* A step of one client concerns its identifier only.
LEMMA OthersNotTouched ==
  ASSUME MapFacts, MapFacts', NEW d \in Clients,
         \A j \in Ids \ {IdOf[d]} :
           /\ j \in known' <=> j \in known
           /\ is_connected'[j] = is_connected[j]
           /\ topics'[j] = topics[j] /\ notifications'[j] = notifications[j],
         \A c \in Clients \ {d} :
           /\ down'[c] = down[c] /\ printed'[c] = printed[c]
           /\ Serves(c)' <=> Serves(c)
  PROVE  \A j \in Ids \ {IdOf[d]} : SeenSame(j)
<1> SUFFICES ASSUME NEW j \in Ids \ {IdOf[d]} PROVE SeenSame(j)
  OBVIOUS
<1>1. \A c \in Clients : IdOf[c] = j => c # d
  OBVIOUS
<1>2. QED
  BY <1>1, NotTouched

-----------------------------------------------------------------------------
\* The service's steps, in terms of the mapping.
LEMMA OneSeen ==
  ASSUME NEW id \in Ids, \A j \in Ids \ {id} : SeenSame(j)
  PROVE  /\ [j \in Ids |-> StateOf(j)']
              = [[j \in Ids |-> StateOf(j)] EXCEPT ![id] = StateOf(id)']
         /\ [j \in Ids |-> topics'[j]]
              = [[j \in Ids |-> topics[j]] EXCEPT ![id] = topics'[id]]
         /\ [j \in Ids |-> BoxOf(j)']
              = [[j \in Ids |-> BoxOf(j)] EXCEPT ![id] = BoxOf(id)']
         /\ [j \in Ids |-> GotBy(j)']
              = [[j \in Ids |-> GotBy(j)] EXCEPT ![id] = GotBy(id)']
BY DEF SeenSame

LEMMA MoveSeen ==
  ASSUME NEW id \in Ids, \A j \in Ids \ {id} : SeenSame(j),
         server = "running", server' = server, datagrams' = datagrams,
         topics'[id] = topics[id], GotBy(id)' = GotBy(id)
  PROVE  /\ StateOf(id) = "unknown" /\ StateOf(id)' = "present"
            /\ BoxOf(id)' = BoxOf(id) => Service!Join(id)
         /\ StateOf(id) = "away" /\ StateOf(id)' = "present"
            /\ BoxOf(id)' = BoxOf(id) => Service!Return(id)
         /\ StateOf(id) = "leaving" /\ StateOf(id)' = "away"
            /\ BoxOf(id)' = BoxOf(id) => Service!Notice(id)
         /\ StateOf(id) = "present" /\ StateOf(id)' = "leaving"
            /\ BoxOf(id)' = <<>> => Service!Leave(id)
<1>1. /\ [j \in Ids |-> StateOf(j)']
              = [[j \in Ids |-> StateOf(j)] EXCEPT ![id] = StateOf(id)']
      /\ [j \in Ids |-> topics'[j]] = [j \in Ids |-> topics[j]]
      /\ [j \in Ids |-> BoxOf(j)']
              = [[j \in Ids |-> BoxOf(j)] EXCEPT ![id] = BoxOf(id)']
      /\ [j \in Ids |-> GotBy(j)'] = [j \in Ids |-> GotBy(j)]
  BY OneSeen DEF SeenSame
<1>2. BoxOf(id)' = BoxOf(id) => [j \in Ids |-> BoxOf(j)'] = [j \in Ids |-> BoxOf(j)]
  BY <1>1
<1>3. [j \in Ids |-> StateOf(j)][id] = StateOf(id)
  OBVIOUS
<1>4. QED
  BY <1>1, <1>2, <1>3
  DEF Service!Join, Service!Return, Service!Notice, Service!Leave, Service!Moves

LEMMA ReadSeen ==
  ASSUME NEW id \in Ids, \A j \in Ids \ {id} : SeenSame(j),
         server' = server, datagrams' = datagrams,
         topics'[id] = topics[id], StateOf(id)' = StateOf(id),
         server = "running" => StateOf(id) = "present",
         BoxOf(id) # <<>>, BoxOf(id)' = Tail(BoxOf(id)),
         GotBy(id)' = GotBy(id) \cup {Head(BoxOf(id))}
  PROVE  Service!Read(id)
<1>1. /\ [j \in Ids |-> StateOf(j)'] = [j \in Ids |-> StateOf(j)]
      /\ [j \in Ids |-> topics'[j]] = [j \in Ids |-> topics[j]]
      /\ [j \in Ids |-> BoxOf(j)']
              = [[j \in Ids |-> BoxOf(j)] EXCEPT ![id] = BoxOf(id)']
      /\ [j \in Ids |-> GotBy(j)']
              = [[j \in Ids |-> GotBy(j)] EXCEPT ![id] = GotBy(id)']
  BY OneSeen DEF SeenSame
<1>2. /\ [j \in Ids |-> StateOf(j)][id] = StateOf(id)
      /\ [j \in Ids |-> BoxOf(j)][id] = BoxOf(id)
      /\ [j \in Ids |-> GotBy(j)][id] = GotBy(id)
  OBVIOUS
<1>3. [j \in Ids |-> BoxOf(j)']
        = [[j \in Ids |-> BoxOf(j)] EXCEPT ![id] = Tail([j \in Ids |-> BoxOf(j)][id])]
  BY <1>1, <1>2
<1>4. [j \in Ids |-> GotBy(j)']
        = [[j \in Ids |-> GotBy(j)] EXCEPT ![id] =
             [j \in Ids |-> GotBy(j)][id] \cup {Head([j \in Ids |-> BoxOf(j)][id])}]
  BY <1>1, <1>2
<1>5. QED
  BY <1>1, <1>2, <1>3, <1>4 DEF Service!Read

LEMMA GiveUpSeen ==
  ASSUME NEW id \in Ids, \A j \in Ids \ {id} : SeenSame(j),
         server # "running", server' = server, datagrams' = datagrams,
         topics'[id] = topics[id], StateOf(id)' = StateOf(id),
         BoxOf(id)' = <<>>, GotBy(id)' = GotBy(id)
  PROVE  Service!GiveUp(id)
<1>1. /\ [j \in Ids |-> StateOf(j)'] = [j \in Ids |-> StateOf(j)]
      /\ [j \in Ids |-> topics'[j]] = [j \in Ids |-> topics[j]]
      /\ [j \in Ids |-> BoxOf(j)']
              = [[j \in Ids |-> BoxOf(j)] EXCEPT ![id] = <<>>]
      /\ [j \in Ids |-> GotBy(j)'] = [j \in Ids |-> GotBy(j)]
  BY OneSeen DEF SeenSame
<1>2. QED
  BY <1>1 DEF Service!GiveUp

LEMMA SubscribeSeen ==
  ASSUME NEW id \in Ids, \A j \in Ids \ {id} : SeenSame(j),
         server = "running", server' = server, datagrams' = datagrams,
         StateOf(id) = "present", StateOf(id)' = StateOf(id),
         BoxOf(id)' = BoxOf(id), GotBy(id)' = GotBy(id)
  PROVE  /\ \A t \in Topics, sf \in {0, 1} :
              topics'[id] = Append(topics[id], [name |-> t, sf |-> sf])
                => Service!Subscribe(id, t, sf)
         /\ \A t \in Topics, i \in DOMAIN topics[id] :
              FirstOf(id, t, i) /\ topics'[id] = RemoveAt(topics[id], i)
                => Service!Unsubscribe(id, t)
<1>1. /\ [j \in Ids |-> StateOf(j)'] = [j \in Ids |-> StateOf(j)]
      /\ [j \in Ids |-> topics'[j]]
              = [[j \in Ids |-> topics[j]] EXCEPT ![id] = topics'[id]]
      /\ [j \in Ids |-> BoxOf(j)'] = [j \in Ids |-> BoxOf(j)]
      /\ [j \in Ids |-> GotBy(j)'] = [j \in Ids |-> GotBy(j)]
  BY OneSeen DEF SeenSame
<1>2. /\ [j \in Ids |-> StateOf(j)][id] = StateOf(id)
      /\ [j \in Ids |-> topics[j]][id] = topics[id]
  OBVIOUS
<1>3. ASSUME NEW t \in Topics, NEW sf \in {0, 1},
             topics'[id] = Append(topics[id], [name |-> t, sf |-> sf])
      PROVE  Service!Subscribe(id, t, sf)
  <2>1. [j \in Ids |-> topics'[j]]
          = [[j \in Ids |-> topics[j]] EXCEPT ![id] =
               Append([j \in Ids |-> topics[j]][id], [name |-> t, sf |-> sf])]
    BY <1>1, <1>2, <1>3
  <2>2. QED
    BY <1>1, <1>2, <2>1 DEF Service!Subscribe
<1>4. ASSUME NEW t \in Topics, NEW i \in DOMAIN topics[id], FirstOf(id, t, i),
             topics'[id] = RemoveAt(topics[id], i)
      PROVE  Service!Unsubscribe(id, t)
  <2>1. [j \in Ids |-> topics'[j]]
          = [[j \in Ids |-> topics[j]] EXCEPT ![id] =
               RemoveAt([j \in Ids |-> topics[j]][id], i)]
    BY <1>1, <1>2, <1>4
  <2>2. /\ i \in DOMAIN [j \in Ids |-> topics[j]][id]
        /\ [j \in Ids |-> topics[j]][id][i].name = t
        /\ \A k \in 1..(i - 1) : [j \in Ids |-> topics[j]][id][k].name # t
    BY <1>2, <1>4 DEF FirstOf
  <2> DEFINE all == [j \in Ids |-> topics[j]]
             after == [j \in Ids |-> topics'[j]]
  <2>3. \E k \in DOMAIN all[id] :
          /\ all[id][k].name = t
          /\ \A l \in 1..(k - 1) : all[id][l].name # t
          /\ after = [all EXCEPT ![id] = Service!RemoveAt(all[id], k)]
    <3>1. Service!RemoveAt(all[id], i) = RemoveAt(all[id], i)
      BY DEF RemoveAt, Service!RemoveAt
    <3>2. QED
      BY <2>1, <2>2, <3>1, Zenon
  <2>4. QED
    BY <1>1, <1>2, <2>3 DEF Service!Unsubscribe
<1>5. QED
  BY <1>3, <1>4

-----------------------------------------------------------------------------
\* What the clients do.
BrokerInv ==
  TypeOK /\ SessionInv /\ FdInv /\ OrderInv /\ Storing /\ StoryInv /\ MapFacts

LEMMA Quiet ==
  ASSUME MapFacts, MapFacts',
         UNCHANGED <<server, known, is_connected, topics, notifications, datagrams>>,
         \A c \in Clients : /\ down'[c] = down[c] /\ printed'[c] = printed[c]
                            /\ Serves(c)' <=> Serves(c)
  PROVE  UNCHANGED Service!vars
<1>1. \A id \in Ids : SeenSame(id)
  BY NotTouched
<1>2. QED
  BY <1>1, Unseen

\* The mail on the way to a client whose connection the server has closed
\* is lost when it ends.
LEMMA EndsUnserved ==
  ASSUME BrokerInv, MapFacts', NEW d \in Clients, ~Registered(d),
         UNCHANGED <<server, accepting, known, is_connected, topics,
                     notifications, fdOf, printed, datagrams>>,
         \A c \in Clients \ {d} : proc'[c] = proc[c] /\ down'[c] = down[c],
         down'[d] \in {<<>>, down[d]}
  PROVE  Service!Next \/ UNCHANGED Service!vars
<1>1. \A c \in Clients : Serves(c)' <=> Serves(c)
  BY DEF Serves, Registered
<1>2. CASE down'[d] = down[d]
  BY <1>1, <1>2, Quiet DEF BrokerInv
<1>3. CASE down'[d] = <<>> /\ down[d] # <<>>
  <2> DEFINE id == IdOf[d]
  <2>1. id \in Ids /\ id \in AllIds
    BY BrokerAssumption DEF AllIds
  <2>2. server # "running"
    BY <1>3 DEF BrokerInv, StoryInv, StoryOf
  <2>3. known = {}
    BY <2>2 DEF BrokerInv, OrderInv
  <2>4. notifications[id] = <<>>
    BY <2>1, <2>3 DEF BrokerInv, StoryInv
  <2>5. \A c \in Clients : IdOf[c] = id => down'[c] = <<>>
    BY <1>3 DEF BrokerInv, StoryInv
  <2>6. BoxOf(id)' = <<>>
    BY <2>1, <2>4, <2>5 DEF MapFacts
  <2>7. StateOf(id)' = StateOf(id)
    BY <2>3 DEF StateOf
  <2>8. GotBy(id)' = GotBy(id)
    BY <2>1, GotSame
  <2>9. \A j \in Ids \ {id} : SeenSame(j)
    <3>1. \A c \in Clients \ {d} : down'[c] = down[c] /\ printed'[c] = printed[c]
                                   /\ (Serves(c)' <=> Serves(c))
      BY <1>1
    <3>2. QED
      BY <3>1, OthersNotTouched DEF BrokerInv
  <2>10. Service!GiveUp(id)
    BY <2>1, <2>2, <2>6, <2>7, <2>8, <2>9, GiveUpSeen
  <2>11. QED
    BY <2>1, <2>10 DEF Service!Next
<1>4. QED
  BY <1>2, <1>3

LEMMA WriteSeen ==
  ASSUME BrokerInv, MapFacts', NEW d \in Clients, NEW msg,
         proc[d] \in {"connecting", "running"}, WriteAs(d, msg, "running"),
         UNCHANGED <<server, accepting, known, is_connected, topics,
                     notifications, backlog, fdOf, printed, datagrams>>
  PROVE  Service!Next \/ UNCHANGED Service!vars
<1>1. /\ \A c \in Clients \ {d} : proc'[c] = proc[c] /\ down'[c] = down[c]
      /\ down'[d] \in {<<>>, down[d]}
  BY DEF WriteAs, BrokerInv, TypeOK
<1>2. CASE ~Registered(d)
  BY <1>1, <1>2, EndsUnserved
<1>3. CASE Registered(d)
  <2>1. proc[d] = "running" /\ fdOf[d] # 0
    BY <1>3, RegisteredRuns DEF BrokerInv
  <2>2. Reachable(d)
    BY <2>1 DEF Reachable
  <2>3. proc'[d] = "running" /\ down' = down
    BY <2>2 DEF WriteAs, BrokerInv, TypeOK
  <2>4. \A c \in Clients : Serves(c)' <=> Serves(c)
    BY <1>1, <2>1, <2>3 DEF Serves, Registered
  <2>5. QED
    BY <2>3, <2>4, Quiet DEF BrokerInv
<1>4. QED
  BY <1>2, <1>3

LEMMA ExitSeen ==
  ASSUME Orderly, BrokerInv, MapFacts', NEW d \in Clients, Exit(d)
  PROVE  Service!Next \/ UNCHANGED Service!vars
<1>1. /\ proc[d] = "running" /\ backlog = <<>> /\ accepting = NoClient
      /\ WriteAs(d, Plain("exit"), "gone")
      /\ UNCHANGED <<server, accepting, known, is_connected, topics,
                     notifications, backlog, fdOf, printed, datagrams>>
  BY DEF Exit, ExitAllowed, Settled, subscribers
<1>2. /\ \A c \in Clients \ {d} : proc'[c] = proc[c] /\ down'[c] = down[c]
      /\ proc'[d] = "gone" /\ down'[d] = <<>>
  BY <1>1 DEF WriteAs, BrokerInv, TypeOK
<1>3. CASE ~Registered(d)
  BY <1>1, <1>2, <1>3, EndsUnserved
<1>4. CASE Registered(d)
  <2> DEFINE id == IdOf[d]
  <2>1. server = "running"
    BY <1>4 DEF BrokerInv, OrderInv, InMap
  <2>2. /\ id \in Ids /\ id \in known /\ is_connected[id]
        /\ StateOf(id) = "present" /\ notifications[id] = <<>>
        /\ \A c \in Clients \ {d} : IdOf[c] = id => down[c] = <<>> /\ ~Registered(c)
    BY <1>1, <1>4, <2>1, PresentIs DEF BrokerInv
  <2>3. \A c \in Clients : IdOf[c] = id => down'[c] = <<>>
    BY <1>2, <2>2
  <2>4. BoxOf(id)' = <<>>
    BY <1>1, <2>2, <2>3 DEF MapFacts
  <2>5. ~Present(id)'
    BY <1>1, <1>2, <2>2 DEF Present, Registered
  <2>6. StateOf(id)' = "leaving"
    <3>1. id \in known' /\ is_connected'[id]
      BY <1>1, <2>2
    <3>2. QED
      BY <2>2, <2>5, <3>1, Zenon DEF MapFacts
  <2>7. GotBy(id)' = GotBy(id)
    BY <1>1, <2>2, GotSame
  <2>8. \A j \in Ids \ {id} : SeenSame(j)
    <3>1. \A c \in Clients \ {d} : down'[c] = down[c] /\ printed'[c] = printed[c]
                                   /\ (Serves(c)' <=> Serves(c))
      BY <1>1, <1>2 DEF Serves, Registered
    <3>2. QED
      BY <1>1, <3>1, OthersNotTouched DEF BrokerInv
  <2>9. Service!Leave(id)
    BY <1>1, <2>1, <2>2, <2>4, <2>6, <2>7, <2>8, MoveSeen
  <2>10. QED
    BY <2>2, <2>9 DEF Service!Next
<1>5. QED
  BY <1>3, <1>4

LEMMA ReceiveSeen ==
  ASSUME BrokerInv, MapFacts', NEW d \in Clients, ReceiveNotification(d)
  PROVE  Service!Next \/ UNCHANGED Service!vars
<1> DEFINE id == IdOf[d]
<1>1. /\ proc[d] = "running" /\ down[d] # <<>>
      /\ UNCHANGED <<server, accepting, known, is_connected, topics,
                     notifications, fdOf, proc, datagrams>>
      /\ \A c \in Clients \ {d} : printed'[c] = printed[c] /\ down'[c] = down[c]
      /\ down'[d] = Tail(down[d])
      /\ printed'[d] = Append(printed[d], Head(down[d]))
  BY DEF ReceiveNotification, subscribers, BrokerInv, TypeOK
<1>2. id \in Ids /\ id \in AllIds
  BY BrokerAssumption DEF AllIds
<1>3. server = "running" => Registered(d)
  BY <1>1 DEF BrokerInv, StoryInv, StoryOf
<1>4. server = "running" => StateOf(id) = "present"
  BY <1>1, <1>3, PresentIs DEF BrokerInv
<1>5. notifications[id] = <<>>
  <2>1. CASE server = "running"
    BY <1>1, <1>3, <2>1, PresentIs DEF BrokerInv
  <2>2. CASE server # "running"
    BY <1>2, <2>2 DEF BrokerInv, OrderInv, StoryInv
  <2>3. QED
    BY <2>1, <2>2
<1>6. BoxOf(id) = down[d]
  BY <1>1, <1>2 DEF BrokerInv, MapFacts
<1>7. BoxOf(id)' = Tail(down[d])
  <2>1. \A c \in Clients \ {d} : IdOf[c] = id => down'[c] = <<>>
    BY <1>1 DEF BrokerInv, StoryInv
  <2>2. CASE Tail(down[d]) = <<>>
    <3>1. \A c \in Clients : IdOf[c] = id => down'[c] = <<>>
      BY <1>1, <2>1, <2>2
    <3>2. QED
      BY <1>1, <1>2, <1>5, <2>2, <3>1 DEF MapFacts
  <2>3. CASE Tail(down[d]) # <<>>
    BY <1>1, <1>2, <2>3 DEF MapFacts
  <2>4. QED
    BY <2>2, <2>3
<1>8. \A c \in Clients : Serves(c)' <=> Serves(c)
  BY <1>1 DEF Serves, Registered
<1>9. StateOf(id)' = StateOf(id)
  <2>1. Present(id)' <=> Present(id)
    BY <1>8 DEF Present, Serves
  <2>2. QED
    BY <1>1, <1>2, <2>1, StateSame DEF BrokerInv
<1>10. GotBy(id)' = GotBy(id) \cup {Head(BoxOf(id))}
  <2> DEFINE n == Head(down[d])
  <2>1. printed[d] \in Seq(Nat) /\ n \in Nat
    <3>1. printed[d] \in Seq(Nat) /\ down[d] \in Seq(Nat)
      BY DEF BrokerInv, TypeOK
    <3>2. QED
      BY <1>1, <3>1
  <2>2. ToSet(printed'[d]) = ToSet(printed[d]) \cup {n}
    BY <1>1, <2>1, ToSetAppend
  <2>3. d \in RunsOf(id)
    BY DEF RunsOf
  <2> HIDE DEF n
  <2>4. (UNION {ToSet(printed'[c]) : c \in RunsOf(id)})
          = (UNION {ToSet(printed[c]) : c \in RunsOf(id)}) \cup {n}
    <3>1. \A c \in RunsOf(id) : c # d => printed'[c] = printed[c]
      BY <1>1 DEF RunsOf
    <3>2. QED
      BY <2>2, <2>3, <3>1
  <2>5. RunsOf(id)' = RunsOf(id)
    BY DEF RunsOf
  <2>6. GotBy(id)' = GotBy(id) \cup {n}
    BY <2>4, <2>5 DEF GotBy
  <2>7. QED
    BY <1>6, <2>6 DEF n
<1>11. \A j \in Ids \ {id} : SeenSame(j)
  <2>1. \A c \in Clients \ {d} : down'[c] = down[c] /\ printed'[c] = printed[c]
                                 /\ (Serves(c)' <=> Serves(c))
    BY <1>1, <1>8
  <2>2. QED
    BY <1>1, <2>1, OthersNotTouched DEF BrokerInv
<1>12. Service!Read(id)
  <2>1. BoxOf(id) # <<>> /\ BoxOf(id)' = Tail(BoxOf(id))
    BY <1>1, <1>6, <1>7
  <2>2. topics'[id] = topics[id] /\ server' = server /\ datagrams' = datagrams
    BY <1>1
  <2> HIDE DEF id
  <2>3. QED
    BY <1>2, <1>4, <1>9, <1>10, <1>11, <2>1, <2>2, ReadSeen
<1>13. QED
  BY <1>2, <1>12 DEF Service!Next

LEMMA ClientSeen ==
  ASSUME Orderly, ~MayCrash, BrokerInv, MapFacts', NEW d \in Clients, Client(d)
  PROVE  Service!Next \/ UNCHANGED Service!vars
<1>1. CASE Launch(d)
  <2>1. /\ UNCHANGED <<server, accepting, known, is_connected, topics,
                       notifications, fdOf, down, printed, datagrams>>
        /\ \A c \in Clients \ {d} : proc'[c] = proc[c]
        /\ proc[d] = "unstarted" /\ proc'[d] = "connecting"
    BY <1>1 DEF Launch, subscribers, BrokerInv, TypeOK
  <2>2. \A c \in Clients : Serves(c)' <=> Serves(c)
    BY <2>1 DEF Serves, Registered
  <2>3. QED
    BY <2>1, <2>2, Quiet DEF BrokerInv
<1>2. CASE SendRegister(d)
  <2>1. /\ proc[d] \in {"connecting", "running"}
        /\ WriteAs(d, Plain("id"), "running")
        /\ UNCHANGED <<server, accepting, known, is_connected, topics,
                       notifications, backlog, fdOf, printed, datagrams>>
    BY <1>2 DEF SendRegister, subscribers
  <2>2. QED
    BY <2>1, WriteSeen
<1>3. ASSUME NEW msg, TypeCommand(d, msg)
      PROVE  Service!Next \/ UNCHANGED Service!vars
  <2>1. /\ proc[d] \in {"connecting", "running"}
        /\ WriteAs(d, msg, "running")
        /\ UNCHANGED <<server, accepting, known, is_connected, topics,
                       notifications, backlog, fdOf, printed, datagrams>>
    BY <1>3 DEF TypeCommand, subscribers
  <2>2. QED
    BY <2>1, WriteSeen
<1>4. CASE Exit(d)
  BY <1>4, ExitSeen
<1>5. CASE ReceiveNotification(d)
  BY <1>5, ReceiveSeen
<1>6. CASE ServerClosed(d)
  <2>1. /\ UNCHANGED <<server, accepting, known, is_connected, topics,
                       notifications, fdOf, down, printed, datagrams>>
        /\ \A c \in Clients \ {d} : proc'[c] = proc[c]
        /\ fdOf[d] = 0
    BY <1>6 DEF ServerClosed, subscribers, Reachable, BrokerInv, TypeOK
  <2>2. \A c \in Clients : Serves(c)' <=> Serves(c)
    BY <2>1 DEF Serves, Registered
  <2>3. QED
    BY <2>1, <2>2, Quiet DEF BrokerInv
<1>7. QED
  <2>1. ASSUME NEW t \in Topics, Unsubscribe(d, t)
        PROVE  Service!Next \/ UNCHANGED Service!vars
    BY <1>3, <2>1 DEF Unsubscribe
  <2>2. ASSUME NEW t \in Topics, NEW sf \in {0, 1}, Subscribe(d, t, sf)
        PROVE  Service!Next \/ UNCHANGED Service!vars
    BY <1>3, <2>2 DEF Subscribe
  <2>3. ~Crash(d)
    BY DEF Crash
  <2>4. QED
    BY <1>1, <1>2, <1>4, <1>5, <1>6, <2>1, <2>2, <2>3 DEF Client

-----------------------------------------------------------------------------
\* What the server does between datagrams.
LEMMA AcceptSeen ==
  ASSUME BrokerInv, MapFacts', Accept, ~ServerStops("dead")
  PROVE  UNCHANGED Service!vars
<1>1. /\ accepting = NoClient /\ backlog # <<>> /\ accepting' = Head(backlog)
      /\ UNCHANGED <<server, known, is_connected, topics, notifications,
                     down, proc, printed, datagrams>>
      /\ \A c \in Clients : c # Head(backlog) => fdOf'[c] = fdOf[c]
  BY DEF Accept, InLoop, subscribers, clients, BrokerInv, TypeOK
<1>2. Head(backlog) \in ToSet(backlog)
  <2>1. backlog \in Seq(Clients) /\ Injective(backlog)
    BY DEF BrokerInv, TypeOK, SessionInv
  <2>2. QED
    BY <1>1, <2>1, TailOfInjective
<1>3. \A c \in Clients : Registered(c)' <=> Registered(c)
  <2> SUFFICES ASSUME NEW c \in Clients PROVE Registered(c)' <=> Registered(c)
    OBVIOUS
  <2>1. CASE c = Head(backlog)
    <3>1. fdOf[c] = 0
      BY <1>2, <2>1 DEF BrokerInv, SessionInv, ClientInv
    <3>2. QED
      BY <1>1, <2>1, <3>1 DEF Registered
  <2>2. CASE c # Head(backlog)
    BY <1>1, <2>2, BrokerAssumption DEF Registered
  <2>3. QED
    BY <2>1, <2>2
<1>4. \A c \in Clients : Serves(c)' <=> Serves(c)
  BY <1>1, <1>3 DEF Serves
<1>5. QED
  BY <1>1, <1>4, Quiet DEF BrokerInv

LEMMA CloseSeen ==
  ASSUME BrokerInv, MapFacts', NEW d \in Clients, CloseConnection(d)
  PROVE  UNCHANGED Service!vars
<1>1. /\ UNCHANGED <<server, accepting, known, is_connected, topics,
                     notifications, down, proc, printed, datagrams>>
      /\ \A c \in Clients \ {d} : fdOf'[c] = fdOf[c]
      /\ proc[d] = "gone"
  BY DEF CloseConnection, subscribers, clients, BrokerInv, TypeOK
<1>2. \A c \in Clients : Serves(c)' <=> Serves(c)
  BY <1>1 DEF Serves, Registered
<1>3. QED
  BY <1>1, <1>2, Quiet DEF BrokerInv

\* The identifier is looked at: it is refused, joins or returns.
LEMMA RejectSeen ==
  ASSUME BrokerInv, MapFacts', NEW d \in Clients, RegisterClient(d),
         ~ServerStops("dead"), Reject(d)
  PROVE  UNCHANGED Service!vars
<1>1. /\ UNCHANGED <<server, known, is_connected, topics, notifications, down,
                     proc, printed, datagrams>>
      /\ accepting = d /\ accepting' = NoClient
      /\ fdOf' = [fdOf EXCEPT ![d] = 0]
  BY DEF RegisterClient, Reject, subscribers, clients
<1>2. /\ \A c \in Clients \ {d} : fdOf'[c] = fdOf[c]
      /\ fdOf'[d] = 0
  BY <1>1 DEF BrokerInv, TypeOK
<1>3. \A c \in Clients : Registered(c)' <=> Registered(c)
  BY <1>1, <1>2, BrokerAssumption DEF Registered
<1>4. \A c \in Clients : Serves(c)' <=> Serves(c)
  BY <1>1, <1>3 DEF Serves
<1>5. QED
  BY <1>1, <1>4, Quiet DEF BrokerInv

\* A client that enters: only it begins to be served.
LEMMA EntersSeen ==
  ASSUME BrokerInv, MapFacts', NEW d \in Clients, RegisterClient(d),
         ~ServerStops("dead"), fdOf' = fdOf,
         \A c \in Clients \ {d} : down'[c] = down[c],
         \A j \in Ids \ {IdOf[d]} :
           /\ j \in known' <=> j \in known
           /\ is_connected'[j] = is_connected[j]
           /\ topics'[j] = topics[j] /\ notifications'[j] = notifications[j],
         IdOf[d] \in known', is_connected'[IdOf[d]]
  PROVE  /\ StateOf(IdOf[d])' = "present"
         /\ GotBy(IdOf[d])' = GotBy(IdOf[d])
         /\ \A j \in Ids \ {IdOf[d]} : SeenSame(j)
<1>1. /\ accepting = d /\ accepting' = NoClient /\ d # NoClient
      /\ IdOf[d] \in Ids /\ fdOf[d] # 0 /\ proc[d] = "running"
      /\ UNCHANGED <<proc, printed>>
  BY Answered DEF BrokerInv
<1>2. /\ \A c \in Clients \ {d} : Serves(c)' <=> Serves(c)
      /\ Serves(d)'
  BY <1>1, BrokerAssumption DEF Serves, Registered
<1>3. Present(IdOf[d])'
  BY <1>2 DEF Present, Serves
<1>4. StateOf(IdOf[d])' = "present"
  BY <1>1, <1>3, Zenon DEF MapFacts
<1>5. GotBy(IdOf[d])' = GotBy(IdOf[d])
  BY <1>1, GotSame
<1>6. \A j \in Ids \ {IdOf[d]} : SeenSame(j)
  <2>1. \A c \in Clients \ {d} : down'[c] = down[c] /\ printed'[c] = printed[c]
                                 /\ (Serves(c)' <=> Serves(c))
    BY <1>1, <1>2
  <2>2. QED
    BY <2>1, OthersNotTouched DEF BrokerInv
<1>7. QED
  BY <1>4, <1>5, <1>6

LEMMA JoinSeen ==
  ASSUME BrokerInv, MapFacts', NEW d \in Clients, RegisterClient(d),
         ~ServerStops("dead"), IdOf[d] \notin known,
         AddSubscriber(d, IdOf[d], Tail(up[d]))
  PROVE  Service!Join(IdOf[d])
<1> DEFINE id == IdOf[d]
<1>1. /\ id \in Ids /\ id \in AllIds
      /\ UNCHANGED <<server, datagrams>>
  BY Answered DEF BrokerInv
<1>2. server = "running"
  BY DEF RegisterClient
<1>3. /\ UNCHANGED <<down, fdOf>>
      /\ id \in known' /\ is_connected'[id]
      /\ topics'[id] = <<>> /\ notifications'[id] = <<>>
      /\ \A j \in Ids \ {id} :
           /\ j \in known' <=> j \in known
           /\ is_connected'[j] = is_connected[j]
           /\ topics'[j] = topics[j] /\ notifications'[j] = notifications[j]
  BY <1>1 DEF AddSubscriber, BrokerInv, TypeOK, AllIds
<1>4. topics[id] = <<>> /\ notifications[id] = <<>>
  BY <1>1 DEF BrokerInv, StoryInv
<1>5. /\ StateOf(id)' = "present"
      /\ GotBy(id)' = GotBy(id)
      /\ \A j \in Ids \ {id} : SeenSame(j)
  BY <1>3, EntersSeen
<1>6. StateOf(id) = "unknown"
  BY <1>1 DEF BrokerInv, MapFacts
<1>7. BoxOf(id)' = BoxOf(id)
  BY <1>1, <1>3, <1>4, BoxSame DEF BrokerInv
<1>8. QED
  BY <1>1, <1>2, <1>3, <1>4, <1>5, <1>6, <1>7, MoveSeen

LEMMA ReturnSeen ==
  ASSUME BrokerInv, MapFacts', NEW d \in Clients, RegisterClient(d),
         ~ServerStops("dead"), IdOf[d] \in known, ~is_connected[IdOf[d]],
         Wake(d, IdOf[d], Tail(up[d]))
  PROVE  Service!Return(IdOf[d])
<1> DEFINE id == IdOf[d]
<1>1. /\ id \in Ids /\ id \in AllIds
      /\ UNCHANGED <<server, datagrams>>
  BY Answered DEF BrokerInv
<1>2. server = "running"
  BY DEF RegisterClient
<1>3. /\ fdOf' = fdOf
      /\ id \in known' /\ is_connected'[id]
      /\ topics'[id] = topics[id] /\ notifications'[id] = <<>>
      /\ \A j \in Ids \ {id} :
           /\ j \in known' <=> j \in known
           /\ is_connected'[j] = is_connected[j]
           /\ topics'[j] = topics[j] /\ notifications'[j] = notifications[j]
  BY <1>1 DEF Wake, BrokerInv, TypeOK, AllIds
<1>4. /\ down[d] = <<>> /\ down'[d] = notifications[id]
      /\ \A c \in Clients \ {d} : down'[c] = down[c]
  BY WakeSends DEF BrokerInv
<1>5. /\ StateOf(id)' = "present"
      /\ GotBy(id)' = GotBy(id)
      /\ \A j \in Ids \ {id} : SeenSame(j)
  BY <1>3, <1>4, EntersSeen
<1>6. StateOf(id) = "away"
  BY <1>1 DEF BrokerInv, MapFacts
<1>7. \A c \in Clients : IdOf[c] = id => down[c] = <<>>
  <2> SUFFICES ASSUME NEW c \in Clients, IdOf[c] = id, down[c] # <<>> PROVE FALSE
    OBVIOUS
  <2>1. Registered(c) /\ proc[c] = "running"
    BY <1>2 DEF BrokerInv, StoryInv, StoryOf
  <2>2. is_connected[id]
    BY <1>2, <2>1, PresentIs DEF BrokerInv
  <2>3. QED
    BY <2>2
<1>8. BoxOf(id) = notifications[id]
  BY <1>1, <1>7 DEF BrokerInv, MapFacts
<1>9. BoxOf(id)' = notifications[id]
  <2>1. CASE notifications[id] = <<>>
    <3>1. \A c \in Clients : IdOf[c] = id => down'[c] = <<>>
      BY <1>4, <1>7, <2>1
    <3>2. QED
      BY <1>1, <1>3, <2>1, <3>1 DEF MapFacts
  <2>2. CASE notifications[id] # <<>>
    BY <1>1, <1>4, <2>2 DEF MapFacts
  <2>3. QED
    BY <2>1, <2>2
<1>10. QED
  BY <1>1, <1>2, <1>3, <1>5, <1>6, <1>8, <1>9, MoveSeen

LEMMA RegisterSeen ==
  ASSUME BrokerInv, MapFacts', NEW d \in Clients, RegisterClient(d)
  PROVE  Service!Next \/ UNCHANGED Service!vars
<1>1. IdOf[d] \in Ids
  BY BrokerAssumption
<1>2. /\ ~ServerStops("dead")
      /\ \/ Reject(d)
         \/ /\ IdOf[d] \in known /\ ~is_connected[IdOf[d]]
            /\ Wake(d, IdOf[d], Tail(up[d]))
         \/ IdOf[d] \notin known /\ AddSubscriber(d, IdOf[d], Tail(up[d]))
  BY WakeLives DEF BrokerInv
<1>3. \/ UNCHANGED Service!vars
      \/ Service!Return(IdOf[d])
      \/ Service!Join(IdOf[d])
  BY <1>2, RejectSeen, ReturnSeen, JoinSeen
<1>4. QED
  BY <1>1, <1>3 DEF Service!Next

-----------------------------------------------------------------------------
LEMMA ChangesTopics ==
  ASSUME NEW id \in Ids, NEW t \in Topics
  PROVE  /\ Service!Unsubscribe(id, t) => Service!Next
         /\ \A sf \in {0, 1} : Service!Subscribe(id, t, sf) => Service!Next
BY Zenon DEF Service!Next

\* A message is handled: whoever subscribes is present, and whoever said
\* exit has left.
LEMMA HandleSeen ==
  ASSUME BrokerInv, MapFacts', NEW d \in Clients, HandleMessage(d)
  PROVE  Service!Next \/ UNCHANGED Service!vars
<1> DEFINE id == IdOf[d]
           msg == Head(up[d])
<1>1. /\ server = "running" /\ accepting = NoClient /\ fdOf[d] # 0 /\ up[d] # <<>>
      /\ UNCHANGED <<server, accepting, known, notifications, fdOf, down, proc,
                     printed, datagrams>>
  BY DEF HandleMessage, InLoop, clients
<1>2. id \in Ids /\ id \in AllIds
  BY BrokerAssumption DEF AllIds
<1>3. Registered(d) /\ InMap(d) /\ ClientInv(d) /\ id \in known
  BY <1>1, BrokerAssumption DEF Registered, InMap, BrokerInv, OrderInv, SessionInv
<1>4. msg = up[d][1] /\ 1 \in DOMAIN up[d] /\ msg \in Message
  <2>1. up[d] \in Seq(Message)
    BY DEF BrokerInv, TypeOK
  <2>2. QED
    BY <1>1, <2>1
<1>5. \A c \in Clients : Serves(c)' <=> Serves(c)
  BY <1>1 DEF Serves, Registered
<1>6. /\ GotBy(id)' = GotBy(id)
      /\ BoxOf(id)' = BoxOf(id)
  BY <1>1, <1>2, GotSame, BoxSame DEF BrokerInv
<1>7. ASSUME \A j \in AllIds \ {id} : is_connected'[j] = is_connected[j]
                                       /\ topics'[j] = topics[j]
      PROVE  \A j \in Ids \ {id} : SeenSame(j)
  <2>1. \A j \in Ids \ {id} : j \in AllIds \ {id}
    BY DEF AllIds
  <2>2. \A j \in Ids \ {IdOf[d]} :
           /\ j \in known' <=> j \in known
           /\ is_connected'[j] = is_connected[j]
           /\ topics'[j] = topics[j] /\ notifications'[j] = notifications[j]
    BY <1>1, <1>7, <2>1
  <2>3. \A c \in Clients \ {d} : down'[c] = down[c] /\ printed'[c] = printed[c]
                                 /\ (Serves(c)' <=> Serves(c))
    BY <1>1, <1>5
  <2>4. QED
    BY <2>2, <2>3, OthersNotTouched DEF BrokerInv
<1>8. CASE msg.cmd = "exit"
  <2>1. /\ is_connected' = [is_connected EXCEPT ![id] = FALSE]
        /\ topics' = topics
    BY <1>3, <1>8 DEF HandleMessage, Disconnect
  <2>2. proc[d] = "gone" /\ Session(d)
    BY <1>3, <1>4, <1>8 DEF ClientInv, Session, PendingExit
  <2>3. is_connected[id]
    BY <1>3, <2>2, RegisteredRuns DEF BrokerInv
  <2>4. ~Present(id)
    <3>1. SUFFICES ASSUME NEW c \in Clients, IdOf[c] = id, Registered(c),
                          proc[c] = "running"
                   PROVE  FALSE
      BY DEF Present
    <3>2. c = d
      BY <1>3, <3>1, OneNumber DEF BrokerInv, InMap
    <3>3. QED
      BY <2>2, <3>1, <3>2
  <2>5. StateOf(id) = "leaving"
    BY <1>2, <1>3, <2>3, <2>4, Zenon DEF BrokerInv, MapFacts
  <2>6. /\ ~is_connected'[id]
        /\ \A j \in AllIds \ {id} : is_connected'[j] = is_connected[j]
    BY <1>2, <2>1 DEF BrokerInv, TypeOK
  <2>7. StateOf(id)' = "away"
    <3>1. id \in known' /\ ~is_connected'[id]
      BY <1>1, <1>3, <2>6
    <3>2. QED
      BY <1>2, <3>1, Zenon DEF MapFacts
  <2>8. \A j \in Ids \ {id} : SeenSame(j)
    BY <1>7, <2>1, <2>6
  <2>9. topics'[id] = topics[id] /\ server' = server /\ datagrams' = datagrams
    BY <1>1, <2>1
  <2> HIDE DEF id
  <2>10. Service!Notice(id)
    BY <1>1, <1>2, <1>6, <2>5, <2>7, <2>8, <2>9, MoveSeen
  <2>11. QED
    BY <1>2, <2>10 DEF Service!Next
<1>9. CASE msg.cmd # "exit"
  <2>1. is_connected' = is_connected
    BY <1>9 DEF HandleMessage, AddTopic, RemoveTopic
  <2>2. proc[d] = "running"
    <3>1. ~Leaving(d)
      BY <1>4, <1>9 DEF BrokerInv, OrderInv, LeavesAlone
    <3>2. QED
      BY <1>3, <3>1, RegisteredRuns DEF Leaving, BrokerInv
  <2>3. StateOf(id) = "present"
    BY <1>1, <1>3, <2>2, PresentIs DEF BrokerInv
  <2>4. StateOf(id)' = StateOf(id)
    <3>1. Present(id)' <=> Present(id)
      BY <1>5 DEF Present, Serves
    <3>2. QED
      BY <1>1, <1>2, <2>1, <3>1, StateSame DEF BrokerInv
  <2>5. server' = server /\ datagrams' = datagrams
    BY <1>1
  <2>6. CASE topics' = topics
    BY <1>1, <1>5, <2>1, <2>6, Quiet DEF BrokerInv
  <2>7. CASE AddTopic(id, msg.topic, msg.sf) /\ msg.cmd = "subscribe"
    <3>1. PICK t \in Topics, sf \in {0, 1} :
            topics' = [topics EXCEPT ![id] = Append(topics[id], [name |-> t, sf |-> sf])]
      <4>1. msg.topic \in Topics /\ msg.sf \in {0, 1}
        BY <1>4, <2>7 DEF Message
      <4>2. topics' = [topics EXCEPT ![id] =
                         Append(topics[id], [name |-> msg.topic, sf |-> msg.sf])]
        BY <2>7 DEF AddTopic
      <4> HIDE DEF id, msg
      <4>3. QED
        BY <4>1, <4>2
    <3>2. /\ topics'[id] = Append(topics[id], [name |-> t, sf |-> sf])
          /\ \A j \in AllIds \ {id} : topics'[j] = topics[j]
      BY <1>2, <3>1 DEF BrokerInv, TypeOK
    <3>3. \A j \in Ids \ {id} : SeenSame(j)
      BY <1>7, <2>1, <3>2
    <3> HIDE DEF id, msg
    <3>4. Service!Subscribe(id, t, sf)
      BY <1>1, <1>2, <1>6, <2>3, <2>4, <2>5, <3>2, <3>3, SubscribeSeen
    <3>5. QED
      BY <1>2, <3>4, ChangesTopics
  <2>8. CASE RemoveTopic(id, msg.topic) /\ msg.cmd = "unsubscribe"
    <3>1. PICK t \in Topics : t = msg.topic
      BY <1>4, <2>8 DEF Message
    <3>2. ASSUME topics' # topics PROVE Service!Unsubscribe(id, t)
      <4>1. PICK i \in DOMAIN topics[id] :
              /\ FirstOf(id, t, i)
              /\ topics' = [topics EXCEPT ![id] = RemoveAt(topics[id], i)]
        BY <2>8, <3>1, <3>2 DEF RemoveTopic
      <4>2. /\ topics'[id] = RemoveAt(topics[id], i)
            /\ \A j \in AllIds \ {id} : topics'[j] = topics[j]
        BY <1>2, <4>1 DEF BrokerInv, TypeOK
      <4>3. \A j \in Ids \ {id} : SeenSame(j)
        BY <1>7, <2>1, <4>2
      <4> HIDE DEF id, msg
      <4>4. QED
        BY <1>1, <1>2, <1>6, <2>3, <2>4, <2>5, <4>1, <4>2, <4>3, SubscribeSeen
    <3>3. QED
      BY <1>2, <2>6, <3>2, ChangesTopics
  <2>9. \/ topics' = topics
        \/ AddTopic(id, msg.topic, msg.sf) /\ msg.cmd = "subscribe"
        \/ RemoveTopic(id, msg.topic) /\ msg.cmd = "unsubscribe"
    BY <1>9 DEF HandleMessage
  <2>10. QED
    BY <2>6, <2>7, <2>8, <2>9
<1>10. QED
  BY <1>8, <1>9

-----------------------------------------------------------------------------
\* A datagram, and the end of the server.
LEMMA WantsIs ==
  ASSUME TypeOK, NEW id \in Ids, NEW t \in Topics
  PROVE  Service!Wants(id, t) <=>
           \/ StateOf(id) = "present" /\ HasTopic(id, t)
           \/ StateOf(id) = "away" /\ HasStoredTopic(id, t)
<1>1. /\ [j \in Ids |-> topics[j]][id] = topics[id]
      /\ [j \in Ids |-> StateOf(j)][id] = StateOf(id)
  OBVIOUS
<1>2. HasTopic(id, t) <=> \E i \in DOMAIN topics[id] : topics[id][i].name = t
  BY DEF HasTopic, ToSet
<1>3. HasStoredTopic(id, t) <=> \E i \in DOMAIN topics[id] :
                                  topics[id][i].name = t /\ topics[id][i].sf = 1
  BY DEF HasStoredTopic, ToSet
<1>4. Service!Wants(id, t) <=>
        \E i \in DOMAIN topics[id] :
          /\ topics[id][i].name = t
          /\ \/ StateOf(id) = "present"
             \/ StateOf(id) = "away" /\ topics[id][i].sf = 1
  BY <1>1 DEF Service!Wants
<1>5. QED
  BY <1>2, <1>3, <1>4

\* Where the mail of an identifier is while the server runs.
LEMMA MailAt ==
  ASSUME BrokerInv, server = "running", NEW id \in Ids
  PROVE  /\ StateOf(id) # "present" =>
              \A c \in Clients : IdOf[c] = id => down[c] = <<>> /\ ~Serves(c)
         /\ StateOf(id) = "present" =>
              \E c \in Clients :
                /\ IdOf[c] = id /\ Serves(c) /\ BoxOf(id) = down[c]
                /\ notifications[id] = <<>>
                /\ \A d \in Clients \ {c} :
                     IdOf[d] = id => down[d] = <<>> /\ ~Serves(d)
<1>1. ASSUME NEW c \in Clients, Serves(c), IdOf[c] = id
      PROVE  /\ StateOf(id) = "present"
             /\ BoxOf(id) = down[c] /\ notifications[id] = <<>>
             /\ \A d \in Clients \ {c} : IdOf[d] = id => down[d] = <<>> /\ ~Serves(d)
  BY <1>1, PresentIs DEF Serves, BrokerInv
<1>2. ASSUME NEW c \in Clients, down[c] # <<>> PROVE Serves(c)
  BY <1>2 DEF BrokerInv, StoryInv, StoryOf, Serves
<1>3. ASSUME StateOf(id) = "present"
      PROVE  \E c \in Clients : IdOf[c] = id /\ Serves(c)
  <2>1. id \in known /\ is_connected[id] /\ Present(id)
    BY <1>3, Zenon DEF BrokerInv, MapFacts
  <2>2. QED
    BY <2>1 DEF Present, Serves
<1>4. QED
  BY <1>1, <1>2, <1>3

LEMMA StopSeen ==
  ASSUME BrokerInv, MapFacts', server = "running",
         NEW how \in {"dead", "exited"}, ServerStops(how), printed' = printed,
         NEW t \in Topics, NEW reached \in SUBSET Ids,
         \A id \in reached : StateOf(id) = "present" /\ Service!Wants(id, t),
         \A c \in Clients :
           down'[c] = IF Serves(c) /\ IdOf[c] \in reached
                      THEN Append(down[c], Len(datagrams) + 1) ELSE down[c],
         Len(datagrams') \in
           (Len(datagrams) + IF reached = {} THEN 0 ELSE 1)..(Len(datagrams) + 1),
         Len(datagrams') <= MaxDatagrams
  PROVE  Service!Stop(t, reached)
<1> DEFINE n == Len(datagrams) + 1
<1>1. server' # "running" /\ known' = {}
  BY DEF ServerStops
<1>2. \A id \in Ids : topics'[id] = <<>> /\ notifications'[id] = <<>>
  BY DEF ServerStops, EveryId, AllIds
<1>3. \A id \in Ids : StateOf(id)' = "unknown"
  BY <1>1 DEF MapFacts
<1>4. \A id \in Ids : GotBy(id)' = GotBy(id)
  BY GotSame
<1>5. ASSUME NEW id \in Ids
      PROVE  BoxOf(id)' = IF id \in reached THEN Append(BoxOf(id), n)
                          ELSE IF StateOf(id) = "present" THEN BoxOf(id) ELSE <<>>
  <2>1. /\ (\A c \in Clients : IdOf[c] = id => down'[c] = <<>>) => BoxOf(id)' = <<>>
        /\ \A c \in Clients : IdOf[c] = id /\ down'[c] # <<>> => BoxOf(id)' = down'[c]
    <3>1. /\ (\A c \in Clients : IdOf[c] = id => down'[c] = <<>>)
               => BoxOf(id)' = notifications'[id]
          /\ \A c \in Clients : IdOf[c] = id /\ down'[c] # <<>> => BoxOf(id)' = down'[c]
      BY Zenon DEF MapFacts
    <3>2. QED
      BY <1>2, <3>1
  <2>2. CASE StateOf(id) # "present"
    <3>1. \A c \in Clients : IdOf[c] = id => down[c] = <<>> /\ ~Serves(c)
      BY <2>2, MailAt
    <3>2. \A c \in Clients : IdOf[c] = id => down'[c] = <<>>
      BY <3>1
    <3>3. id \notin reached
      BY <2>2
    <3>4. QED
      BY <2>1, <2>2, <3>2, <3>3
  <2>3. CASE StateOf(id) = "present"
    <3>1. PICK c \in Clients :
            /\ IdOf[c] = id /\ Serves(c) /\ BoxOf(id) = down[c]
            /\ \A d \in Clients \ {c} : IdOf[d] = id => down[d] = <<>> /\ ~Serves(d)
      BY <2>3, MailAt
    <3>2. \A d \in Clients \ {c} : IdOf[d] = id => down'[d] = <<>>
      BY <3>1
    <3>3. down'[c] = IF id \in reached THEN Append(down[c], n) ELSE down[c]
      BY <3>1
    <3>4. Append(down[c], n) # <<>>
      <4>1. down[c] \in Seq(Nat)
        BY DEF BrokerInv, TypeOK
      <4> HIDE DEF n
      <4>2. QED
        BY <4>1
    <3>5. down'[c] = BoxOf(id)'
      <4>1. CASE down'[c] = <<>>
        BY <2>1, <3>1, <3>2, <4>1
      <4>2. CASE down'[c] # <<>>
        BY <2>1, <3>1, <4>2
      <4>3. QED
        BY <4>1, <4>2
    <3> HIDE DEF n
    <3>6. QED
      BY <2>3, <3>1, <3>3, <3>5
  <2>4. QED
    BY <2>2, <2>3
<1> HIDE DEF n
<1>6. [id \in Ids |-> BoxOf(id)'] =
        [id \in Ids |->
           IF id \in reached THEN Append([j \in Ids |-> BoxOf(j)][id], n)
           ELSE IF [j \in Ids |-> StateOf(j)][id] = "present"
                THEN [j \in Ids |-> BoxOf(j)][id] ELSE <<>>]
  BY <1>5
<1>7. /\ [id \in Ids |-> StateOf(id)'] = [id \in Ids |-> "unknown"]
      /\ [id \in Ids |-> topics'[id]] = [id \in Ids |-> <<>>]
      /\ [id \in Ids |-> GotBy(id)'] = [id \in Ids |-> GotBy(id)]
  BY <1>2, <1>3, <1>4
<1>8. \A id \in reached : [j \in Ids |-> StateOf(j)][id] = "present"
  OBVIOUS
<1>9. QED
  BY <1>1, <1>6, <1>7, <1>8 DEF Service!Stop, n

LEMMA StateIs ==
  ASSUME MapFacts, NEW id \in Ids
  PROVE  /\ StateOf(id) = "away" <=> id \in known /\ ~is_connected[id]
         /\ StateOf(id) = "present" => id \in known /\ is_connected[id]
<1>1. /\ id \notin known => StateOf(id) = "unknown"
      /\ id \in known /\ ~is_connected[id] => StateOf(id) = "away"
      /\ id \in known /\ is_connected[id] /\ Present(id) => StateOf(id) = "present"
      /\ id \in known /\ is_connected[id] /\ ~Present(id) => StateOf(id) = "leaving"
  BY Zenon DEF MapFacts
<1>2. QED
  BY <1>1

LEMMA SentIs ==
  ASSUME BrokerInv, accepting = NoClient, NEW n \in Nat, NEW S \in SUBSET known
  PROVE  \A c \in Clients :
           Forwarded(S, n)[c] = IF Serves(c) /\ IdOf[c] \in S
                                THEN Append(down[c], n) ELSE down[c]
<1> SUFFICES ASSUME NEW c \in Clients
             PROVE  Forwarded(S, n)[c] = IF Serves(c) /\ IdOf[c] \in S
                                         THEN Append(down[c], n) ELSE down[c]
  OBVIOUS
<1>1. Forwarded(S, n)[c] =
           IF proc[c] # "gone" /\ Registered(c) /\ IdOf[c] \in S
           THEN Append(down[c], n) ELSE down[c]
  BY ForwardedIs DEF BrokerInv
<1>2. proc[c] # "gone" /\ Registered(c) <=> Serves(c)
  BY RegisteredRuns DEF Serves, BrokerInv
<1>3. QED
  BY <1>1, <1>2

\* The datagram is handled to the end.
LEMMA ServedSeen ==
  ASSUME BrokerInv, MapFacts', NEW t \in Topics, Publish(t), ~ServerStops("dead")
  PROVE  Service!Publish(t)
<1> DEFINE n == Len(datagrams) + 1
           online == {id \in known : is_connected[id] /\ HasTopic(id, t)}
           offline == {id \in known : ~is_connected[id] /\ HasStoredTopic(id, t)}
<1>1. /\ server = "running" /\ accepting = NoClient
      /\ Len(datagrams) < MaxDatagrams
      /\ down' = Forwarded(online, n) /\ notifications' = Stored(offline, n)
      /\ UNCHANGED <<server, accepting, known, is_connected, topics, fdOf, proc,
                     printed>>
  BY DEF Publish, InLoop, clients
<1>2. n \in Nat /\ Len(datagrams') = n
  <2>1. datagrams \in Seq([topic : Topics, to : SUBSET AllIds])
    BY DEF BrokerInv, TypeOK
  <2>2. \E e : datagrams' = Append(datagrams, e)
    BY DEF Publish
  <2>3. QED
    BY <2>1, <2>2
<1>3. online \in SUBSET known
  OBVIOUS
<1>4. \A c \in Clients : down'[c] = IF Serves(c) /\ IdOf[c] \in online
                                    THEN Append(down[c], n) ELSE down[c]
  <2> HIDE DEF n, online
  <2>1. QED
    BY <1>1, <1>2, <1>3, SentIs
<1>5. \A id \in Ids : notifications'[id] = IF id \in offline
                         THEN Append(notifications[id], n) ELSE notifications[id]
  BY <1>1 DEF Stored, AllIds
<1>6. ASSUME NEW id \in Ids
      PROVE  /\ StateOf(id)' = StateOf(id)
             /\ GotBy(id)' = GotBy(id)
  <2>1. Present(id)' <=> Present(id)
    BY <1>1 DEF Present, Registered
  <2>2. StateOf(id)' = StateOf(id)
    BY <1>1, <2>1, StateSame DEF BrokerInv
  <2>3. QED
    BY <1>1, <2>2, GotSame
<1>7. ASSUME NEW id \in Ids
      PROVE  BoxOf(id)' = IF Service!Wants(id, t) THEN Append(BoxOf(id), n)
                                                  ELSE BoxOf(id)
  <2>1. CASE StateOf(id) = "present"
    <3>1. PICK c \in Clients :
            /\ IdOf[c] = id /\ Serves(c) /\ BoxOf(id) = down[c]
            /\ \A d \in Clients \ {c} : IdOf[d] = id => down[d] = <<>> /\ ~Serves(d)
      BY <1>1, <2>1, MailAt
    <3>2. id \in known /\ is_connected[id]
      BY <2>1, StateIs DEF BrokerInv
    <3>3. Service!Wants(id, t) <=> id \in online
      BY <2>1, <3>2, WantsIs DEF BrokerInv
    <3>4. CASE id \in online
      <4>1. down'[c] = Append(down[c], n)
        BY <1>4, <3>1, <3>4
      <4>2. Append(down[c], n) # <<>>
        <5>1. down[c] \in Seq(Nat)
          BY DEF BrokerInv, TypeOK
        <5> HIDE DEF n
        <5>2. QED
          BY <5>1
      <4>3. BoxOf(id)' = down'[c]
        BY <3>1, <4>1, <4>2 DEF MapFacts
      <4>4. QED
        BY <3>1, <3>3, <3>4, <4>1, <4>3
    <3>5. CASE id \notin online
      <4>1. \A d \in Clients : IdOf[d] = id => down'[d] = down[d]
        BY <1>4, <3>5
      <4>2. notifications'[id] = notifications[id]
        BY <1>5, <3>2
      <4>3. BoxOf(id)' = BoxOf(id)
        BY <4>1, <4>2, BoxSame DEF BrokerInv
      <4>4. QED
        BY <3>3, <3>5, <4>3
    <3>6. QED
      BY <3>4, <3>5
  <2>2. CASE StateOf(id) # "present"
    <3>1. \A c \in Clients : IdOf[c] = id => down[c] = <<>> /\ ~Serves(c)
      BY <1>1, <2>2, MailAt
    <3>2. \A c \in Clients : IdOf[c] = id => down'[c] = <<>>
      BY <1>4, <3>1
    <3>3. BoxOf(id) = notifications[id] /\ BoxOf(id)' = notifications'[id]
      BY <3>1, <3>2 DEF BrokerInv, MapFacts
    <3>4. Service!Wants(id, t) <=> id \in offline
      <4>1. StateOf(id) = "away" <=> id \in known /\ ~is_connected[id]
        BY StateIs DEF BrokerInv
      <4>2. QED
        BY <2>2, <4>1, WantsIs DEF BrokerInv
    <3>5. QED
      BY <1>5, <3>3, <3>4
  <2>3. QED
    BY <2>1, <2>2
<1> HIDE DEF online, offline
<1>8. [id \in Ids |-> BoxOf(id)'] =
        [id \in Ids |-> IF Service!Wants(id, t)
                        THEN Append([j \in Ids |-> BoxOf(j)][id], n)
                        ELSE [j \in Ids |-> BoxOf(j)][id]]
  BY <1>7
<1>9. /\ [id \in Ids |-> StateOf(id)'] = [id \in Ids |-> StateOf(id)]
      /\ [id \in Ids |-> topics'[id]] = [id \in Ids |-> topics[id]]
      /\ [id \in Ids |-> GotBy(id)'] = [id \in Ids |-> GotBy(id)]
  BY <1>1, <1>6
<1>10. QED
  BY <1>1, <1>2, <1>8, <1>9 DEF Service!Publish

\* The server dies at the datagram: those before the fatal one were served.
LEMMA FatalSeen ==
  ASSUME BrokerInv, MapFacts', NEW t \in Topics, Publish(t), ServerStops("dead")
  PROVE  \E reached \in SUBSET Ids : Service!Stop(t, reached)
<1> DEFINE n == Len(datagrams) + 1
           online == {id \in known : is_connected[id] /\ HasTopic(id, t)}
<1>1. server = "running" /\ accepting = NoClient /\ Len(datagrams) < MaxDatagrams
      /\ printed' = printed
  BY DEF Publish, InLoop, clients
<1>2. n \in Nat /\ Len(datagrams') = n /\ Len(datagrams) \in Nat
  <2>1. datagrams \in Seq([topic : Topics, to : SUBSET AllIds])
    BY DEF BrokerInv, TypeOK
  <2>2. \E e : datagrams' = Append(datagrams, e)
    BY DEF Publish
  <2>3. QED
    BY <2>1, <2>2
<1>3. PICK served \in SUBSET online : down' = Forwarded(served, n)
  <2>1. server' # server
    BY <1>1 DEF ServerStops
  <2>2. QED
    BY <2>1 DEF Publish
<1>4. known \subseteq Ids
  BY DEF BrokerInv, OrderInv, Numbered
<1>5. PICK reached \in SUBSET Ids : reached = {id \in served : StateOf(id) = "present"}
  BY <1>4
<1>6. \A c \in Clients : down'[c] = IF Serves(c) /\ IdOf[c] \in served
                                    THEN Append(down[c], n) ELSE down[c]
  <2>1. served \in SUBSET known
    OBVIOUS
  <2> HIDE DEF n, online
  <2>2. QED
    BY <1>1, <1>2, <1>3, <2>1, SentIs
<1>7. \A c \in Clients : Serves(c) => StateOf(IdOf[c]) = "present"
  BY <1>1, PresentIs DEF Serves, BrokerInv
<1>8. \A c \in Clients : down'[c] = IF Serves(c) /\ IdOf[c] \in reached
                                    THEN Append(down[c], n) ELSE down[c]
  BY <1>5, <1>6, <1>7
<1>9. \A id \in reached : StateOf(id) = "present" /\ Service!Wants(id, t)
  <2> SUFFICES ASSUME NEW id \in reached
               PROVE  StateOf(id) = "present" /\ Service!Wants(id, t)
    OBVIOUS
  <2>1. id \in online /\ StateOf(id) = "present" /\ id \in Ids
    BY <1>5
  <2>2. HasTopic(id, t)
    BY <2>1
  <2>3. QED
    BY <2>1, <2>2, WantsIs DEF BrokerInv
<1>10. /\ Len(datagrams') \in
            (Len(datagrams) + IF reached = {} THEN 0 ELSE 1)..(Len(datagrams) + 1)
       /\ Len(datagrams') <= MaxDatagrams
  BY <1>1, <1>2, BrokerAssumption
<1>11. Service!Stop(t, reached)
  BY <1>1, <1>8, <1>9, <1>10, StopSeen
<1>12. QED
  BY <1>11

\* The server ends between two datagrams.
LEMMA EndSeen ==
  ASSUME BrokerInv, MapFacts', server = "running",
         NEW how \in {"dead", "exited"}, ServerStops(how),
         UNCHANGED <<printed, down, datagrams>>, NEW t \in Topics
  PROVE  Service!Stop(t, {})
<1>1. /\ Len(datagrams') \in
            (Len(datagrams) + IF {} = {} THEN 0 ELSE 1)..(Len(datagrams) + 1)
      /\ Len(datagrams') <= MaxDatagrams
  <2>1. datagrams \in Seq([topic : Topics, to : SUBSET AllIds])
    BY DEF BrokerInv, TypeOK
  <2>2. Len(datagrams) <= MaxDatagrams
    BY DEF BrokerInv, StoryInv
  <2>3. QED
    BY <2>1, <2>2
<1>2. PICK reached \in SUBSET Ids : reached = {}
  OBVIOUS
<1>3. Service!Stop(t, reached)
  BY <1>1, <1>2, StopSeen
<1>4. QED
  BY <1>2, <1>3

LEMMA InitSeen == Init => Service!Init
<1> SUFFICES ASSUME Init PROVE Service!Init
  OBVIOUS
<1>1. \A id \in Ids : StateOf(id) = "unknown" /\ topics[id] = <<>>
  BY DEF Init, StateOf, EveryId, AllIds
<1>2. ASSUME NEW id \in Ids PROVE BoxOf(id) = <<>> /\ GotBy(id) = {}
  <2>1. \A c \in RunsOf(id) : down[c] = <<>> /\ ToSet(printed[c]) = {}
    BY DEF Init, EveryClient, RunsOf, ToSet
  <2>2. notifications[id] = <<>>
    BY DEF Init, EveryId, AllIds
  <2>3. QED
    BY <2>1, <2>2 DEF BoxOf, GotBy
<1>3. server = "running" /\ Len(datagrams) = 0
  BY DEF Init
<1>4. QED
  BY <1>1, <1>2, <1>3 DEF Service!Init

LEMMA NextSeen ==
  ASSUME Orderly, ~MayCrash, Topics # {}, BrokerInv, MapFacts', Next
  PROVE  Service!Next \/ UNCHANGED Service!vars
<1>1. PICK t0 \in Topics : TRUE
  OBVIOUS
<1>2. ASSUME \E t \in Topics, reached \in SUBSET Ids : Service!Stop(t, reached)
      PROVE  Service!Next
  BY <1>2, Zenon DEF Service!Next
<1>3. CASE Accept
  <2>1. CASE ServerStops("dead")
    <3>1. server = "running" /\ UNCHANGED <<printed, down, datagrams>>
      BY <1>3 DEF Accept, InLoop, clients
    <3>2. Service!Stop(t0, {})
      BY <1>1, <2>1, <3>1, EndSeen
    <3>3. QED
      BY <1>1, <1>2, <3>2
  <2>2. CASE ~ServerStops("dead")
    BY <1>3, <2>2, AcceptSeen
  <2>3. QED
    BY <2>1, <2>2
<1>4. CASE ServerExit
  <2>1. /\ server = "running" /\ UNCHANGED <<printed, down, datagrams>>
        /\ ServerStops("exited")
    BY <1>4 DEF ServerExit, InLoop, clients
  <2>2. Service!Stop(t0, {})
    BY <1>1, <2>1, EndSeen
  <2>3. QED
    BY <1>1, <1>2, <2>2
<1>5. ASSUME NEW t \in Topics, Publish(t) PROVE Service!Next
  <2>1. CASE ServerStops("dead")
    <3>1. \E reached \in SUBSET Ids : Service!Stop(t, reached)
      BY <1>5, <2>1, FatalSeen
    <3>2. QED
      BY <1>2, <3>1
  <2>2. CASE ~ServerStops("dead")
    <3>1. Service!Publish(t)
      BY <1>5, <2>2, ServedSeen
    <3>2. QED
      BY <3>1, Zenon DEF Service!Next
  <2>3. QED
    BY <2>1, <2>2
<1>6. ASSUME NEW d \in Clients,
             RegisterClient(d) \/ CloseConnection(d) \/ HandleMessage(d) \/ Client(d)
      PROVE  Service!Next \/ UNCHANGED Service!vars
  BY <1>6, RegisterSeen, CloseSeen, HandleSeen, ClientSeen
<1>7. QED
  BY <1>3, <1>4, <1>5, <1>6 DEF Next, Server

\* While users take turns and nobody is killed, the server, its clients and
\* the connections between them behave like one mailbox per identifier.
\* (Without any topic nothing could be sent at all.)
THEOREM BrokerIsMailboxes ==
  ASSUME Orderly, ~MayCrash, Topics # {}
  PROVE  Spec => ImplementsMailboxes
<1>1. ASSUME BrokerInv, MapFacts', [Next]_vars
      PROVE  [Service!Next]_(Service!vars)
  <2>1. CASE Next
    BY <1>1, <2>1, NextSeen
  <2>2. CASE UNCHANGED vars
    <3>1. /\ UNCHANGED <<server, known, is_connected, topics, notifications, datagrams>>
          /\ \A c \in Clients : /\ down'[c] = down[c] /\ printed'[c] = printed[c]
                                /\ Serves(c)' <=> Serves(c)
      BY <2>2 DEF vars, subscribers, clients, Serves, Registered
    <3>2. QED
      BY <1>1, <3>1, Quiet DEF BrokerInv
  <2>3. QED
    BY <1>1, <2>1, <2>2
<1>2. TypeOK /\ SessionInv /\ FdInv /\ OrderInv /\ Storing /\ StoryInv => BrokerInv
  BY Mapped DEF BrokerInv
<1>3. BrokerInv => MapFacts
  BY DEF BrokerInv
<1>4. Spec => []OrderInv /\ []StoryInv
  BY OrderAlways, StoryAlways, PTL
<1>5. QED
  BY <1>1, <1>2, <1>3, <1>4, TypeCorrect, SessionAlways, FdAlways, StoringAlways,
     InitSeen, PTL
  DEF Spec, ImplementsMailboxes, Service!Spec

-----------------------------------------------------------------------------
\* A client at its keyboard only leaves undone for a while what Broker never
\* forces it to do: whatever is proved of Broker holds with keyboards.
THEOREM KeyboardsOnlyDelay == KeyboardSpec => Spec
<1>1. KeyboardInit => Init
  BY DEF KeyboardInit
<1>2. [KeyboardNext]_keyboardVars => [Next]_vars
  <2> SUFFICES ASSUME [KeyboardNext]_keyboardVars PROVE [Next]_vars
    OBVIOUS
  <2>1. ASSUME NEW c \in Clients, Reading(c) \/ Driven(c) PROVE Client(c)
    BY <2>1 DEF Reading, Driven, Client
  <2>2. ASSUME NEW c \in Clients, BeginCommand(c) PROVE UNCHANGED vars
    BY <2>2 DEF BeginCommand
  <2>3. CASE UNCHANGED keyboardVars
    BY <2>3 DEF keyboardVars
  <2>4. QED
    BY <2>1, <2>2, <2>3 DEF KeyboardNext, Next
<1>3. QED
  BY <1>1, <1>2, PTL DEF KeyboardSpec, Spec

=============================================================================
