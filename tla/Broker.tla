------------------------------- MODULE Broker -------------------------------
(***************************************************************************)
(* The publish/subscribe system of homework2-public: the single-threaded   *)
(* epoll server (server.cpp, server.h), the subscribers it serves          *)
(* (tcp_client.cpp) and the TCP connections between them.  One member of   *)
(* Clients is one run of the client program, from its start to its end,    *)
(* with its one socket; several of them may carry the same identifier.     *)
(* A notification is named by the position of its datagram in `datagrams'. *)
(* What must happen in the end is in BrokerKeyboard, which adds the wait   *)
(* for the rest of a command.                                              *)
(***************************************************************************)
EXTENDS Integers, Sequences, FiniteSets, SequencesExt

CONSTANTS
  Clients,       \* runs of the client program
  NoClient,      \* tcp_handler is not waiting for anybody's identifier
  Ids,           \* identifiers given on the command line
  EmptyId,       \* the "" of a default-constructed subscriber
  IdOf,          \* the identifier each run was started with
  Topics,        \* topic names
  NoTopic,       \* the topic field of a message that carries none
  FirstFd,       \* lowest descriptor number left after the server's own
  MaxDatagrams,  \* bound: datagrams handled in a behaviour
  MaxCommands,   \* bound: commands typed into one client besides exit
  Orderly,       \* do users start, stop and restart clients one at a time?
  MayCrash       \* may client processes be killed?

ASSUME BrokerAssumption ==
  /\ IsFiniteSet(Clients)
  /\ NoClient \notin Clients
  /\ IsFiniteSet(Ids)
  /\ EmptyId \notin Ids
  /\ IdOf \in [Clients -> Ids]
  /\ NoTopic \notin Topics
  /\ FirstFd \in Nat \ {0}
  /\ MaxDatagrams \in Nat
  /\ MaxCommands \in Nat
  /\ Orderly \in BOOLEAN
  /\ MayCrash \in BOOLEAN

VARIABLES
  \* The server process.
  server,         \* "running", "exited" (exit typed) or "dead" (DIE, SIGPIPE)
  accepting,      \* whose identifier tcp_handler is blocked on, or NoClient
  \* The map `subscribers': its keys, the one key field it uses, its values.
  known, socketfd, is_connected, topics, notifications,
  \* The kernel's side of the TCP connections.
  backlog,        \* connections waiting for accept, oldest first
  fdOf,           \* the server's descriptor of each connection, 0 if none
  up, down,       \* messages in flight to the server and to each client
  \* The client processes.
  proc,           \* "unstarted", "connecting", "running" or "gone"
  typed,          \* commands typed so far
  printed,        \* notifications printed, in order (history)
  \* What the server was sent over UDP and whom it addressed (history).
  datagrams

subscribers == <<known, socketfd, is_connected, topics, notifications>>
clients == <<proc, typed, printed>>
vars == <<server, accepting, subscribers, backlog, fdOf, up, down, clients,
          datagrams>>

AllIds == Ids \cup {EmptyId}
Subscription == [name : Topics, sf : {0, 1}]
Message == [cmd : {"id", "exit"}, topic : {NoTopic}, sf : {0}]
      \cup [cmd : {"subscribe", "unsubscribe"}, topic : Topics, sf : {0, 1}]
Plain(cmd) == [cmd |-> cmd, topic |-> NoTopic, sf |-> 0]

TypeOK ==
  /\ server \in {"running", "exited", "dead"}
  /\ accepting \in Clients \cup {NoClient}
  /\ known \in SUBSET AllIds
  /\ socketfd \in [AllIds -> Nat]
  /\ is_connected \in [AllIds -> BOOLEAN]
  /\ topics \in [AllIds -> Seq(Subscription)]
  /\ notifications \in [AllIds -> Seq(Nat)]
  /\ backlog \in Seq(Clients)
  /\ fdOf \in [Clients -> Nat]
  /\ up \in [Clients -> Seq(Message)]
  /\ down \in [Clients -> Seq(Nat)]
  /\ proc \in [Clients -> {"unstarted", "connecting", "running", "gone"}]
  /\ typed \in [Clients -> Nat]
  /\ printed \in [Clients -> Seq(Nat)]
  /\ datagrams \in Seq([topic : Topics, to : SUBSET AllIds])

EveryId(value) == [id \in AllIds |-> value]
EveryClient(value) == [c \in Clients |-> value]

Init ==
  /\ server = "running"
  /\ accepting = NoClient
  /\ known = {}
  /\ socketfd = EveryId(0)
  /\ is_connected = EveryId(FALSE)
  /\ topics = EveryId(<<>>)
  /\ notifications = EveryId(<<>>)
  /\ backlog = <<>>
  /\ fdOf = EveryClient(0)
  /\ up = EveryClient(<<>>)
  /\ down = EveryClient(<<>>)
  /\ proc = EveryClient("unstarted")
  /\ typed = EveryClient(0)
  /\ printed = EveryClient(<<>>)
  /\ datagrams = <<>>

-----------------------------------------------------------------------------
(* What the users do.  With Orderly they behave as the repository's own    *)
(* checker does: a client is started or stopped only when the server has   *)
(* dealt with everything before it, and while one identifier is away no    *)
(* other leaves or joins for the first time.                               *)

\* The connection of c has not been closed by the server.
Reachable(c) == fdOf[c] # 0 \/ c \in ToSet(backlog)

Settled ==
  /\ accepting = NoClient
  /\ backlog = <<>>
  /\ \A c \in Clients : fdOf[c] # 0 => proc[c] = "running" /\ up[c] = <<>>

Away == {id \in known : ~is_connected[id]}

LaunchAllowed(c) ==
  Orderly => /\ Settled
             /\ \/ Away = {}
                \/ IdOf[c] \in Away
                \/ IdOf[c] \in known /\ is_connected[IdOf[c]]

ExitAllowed == Orderly => Settled /\ Away = {}

-----------------------------------------------------------------------------
(* The client program.                                                     *)

Launch(c) ==
  /\ proc[c] = "unstarted"
  /\ server = "running"
  /\ LaunchAllowed(c)
  /\ proc' = [proc EXCEPT ![c] = "connecting"]
  /\ backlog' = Append(backlog, c)
  /\ UNCHANGED <<server, accepting, subscribers, fdOf, up, down, typed,
                 printed, datagrams>>

\* Writing to a connection the server has closed either vanishes or ends
\* the client (SIGPIPE, or DIE on a reset connection).  A client that has
\* ended reads nothing more.
WriteAs(c, msg, state) ==
  /\ \/ /\ Reachable(c)
        /\ up' = [up EXCEPT ![c] = Append(@, msg)]
        /\ proc' = [proc EXCEPT ![c] = state]
     \/ /\ ~Reachable(c)
        /\ proc' \in {[proc EXCEPT ![c] = state], [proc EXCEPT ![c] = "gone"]}
        /\ UNCHANGED up
  /\ down' = IF proc'[c] = "gone" THEN [down EXCEPT ![c] = <<>>] ELSE down

SendRegister(c) ==
  /\ proc[c] = "connecting"
  /\ WriteAs(c, Plain("id"), "running")
  /\ UNCHANGED <<server, accepting, subscribers, backlog, fdOf, typed,
                 printed, datagrams>>

\* The end of a command: its last word is read and it is sent.  While the
\* client waits for that word it reads nothing (BrokerKeyboard).
TypeCommand(c, msg) ==
  /\ proc[c] = "running"
  /\ typed[c] < MaxCommands
  /\ typed' = [typed EXCEPT ![c] = @ + 1]
  /\ WriteAs(c, msg, "running")
  /\ UNCHANGED <<server, accepting, subscribers, backlog, fdOf, printed,
                 datagrams>>

Subscribe(c, t, sf) ==
  TypeCommand(c, [cmd |-> "subscribe", topic |-> t, sf |-> sf])

Unsubscribe(c, t) ==
  TypeCommand(c, [cmd |-> "unsubscribe", topic |-> t, sf |-> 0])

Exit(c) ==
  /\ proc[c] = "running"
  /\ ExitAllowed
  /\ WriteAs(c, Plain("exit"), "gone")
  /\ UNCHANGED <<server, accepting, subscribers, backlog, fdOf, typed,
                 printed, datagrams>>

\* The process is killed and its kernel closes the socket: no "exit" is sent.
Crash(c) ==
  /\ MayCrash
  /\ proc[c] \in {"connecting", "running"}
  /\ proc' = [proc EXCEPT ![c] = "gone"]
  /\ down' = [down EXCEPT ![c] = <<>>]
  /\ UNCHANGED <<server, accepting, subscribers, backlog, fdOf, up, typed,
                 printed, datagrams>>

ReceiveNotification(c) ==
  /\ proc[c] = "running"
  /\ down[c] # <<>>
  /\ printed' = [printed EXCEPT ![c] = Append(@, Head(down[c]))]
  /\ down' = [down EXCEPT ![c] = Tail(@)]
  /\ UNCHANGED <<server, accepting, subscribers, backlog, fdOf, up, proc,
                 typed, datagrams>>

\* receive_message returns 0: the server has closed the connection.
ServerClosedIgnored(c) ==   \* mutant: goes back to epoll_wait
  /\ proc[c] = "running"
  /\ down[c] = <<>>
  /\ ~Reachable(c)
  /\ UNCHANGED vars
ServerClosed(c) ==
  /\ proc[c] = "running"
  /\ down[c] = <<>>
  /\ ~Reachable(c)
  /\ proc' = [proc EXCEPT ![c] = "gone"]
  /\ UNCHANGED <<server, accepting, subscribers, backlog, fdOf, up, down,
                 typed, printed, datagrams>>

-----------------------------------------------------------------------------
(* Sending from the server.  A send goes to whatever connection now has    *)
(* the descriptor number the subscriber was stored with.                   *)

Holders(fd) == {c \in Clients : fdOf[c] = fd /\ fd # 0}

\* EBADF: nothing has this descriptor number, so send fails and DIE ends it.
MustDie(fd) == Holders(fd) = {}
\* The process behind the connection has ended: the first send may still
\* succeed and be lost, later ones raise SIGPIPE or ECONNRESET.
MayDie(fd) == \A c \in Holders(fd) : proc[c] = "gone"

\* `down' once notification n was sent to every subscriber in S, and once
\* everything stored for id was.
ForwardedToAll(S, n) ==     \* mutant: sends to every connection
  [c \in Clients |-> IF fdOf[c] # 0 /\ proc[c] # "gone"
                     THEN Append(down[c], n) ELSE down[c]]
Forwarded(S, n) ==
  [c \in Clients |->
     LET copies == Cardinality({id \in S : c \in Holders(socketfd[id])})
     IN  IF proc[c] = "gone" THEN down[c] ELSE down[c] \o [k \in 1..copies |-> n]]
FlushedNothing(id) == down  \* mutant: clears the queue without sending it
FlushedLastFirst(id) ==     \* mutant: the queue as a stack
  [c \in Clients |-> IF c \in Holders(socketfd[id]) /\ proc[c] # "gone"
                     THEN down[c] \o Reverse(notifications[id]) ELSE down[c]]
Flushed(id) ==
  [c \in Clients |-> IF c \in Holders(socketfd[id]) /\ proc[c] # "gone"
                     THEN down[c] \o notifications[id] ELSE down[c]]

\* The queues once notification n was stored for every subscriber in S.
StoredInFront(S, n) ==      \* mutant: pushes at the wrong end
  [id \in AllIds |-> IF id \in S THEN <<n>> \o notifications[id]
                                 ELSE notifications[id]]
Stored(S, n) ==
  [id \in AllIds |-> IF id \in S THEN Append(notifications[id], n)
                                 ELSE notifications[id]]

\* The server process ends; the kernel closes all its descriptors.  What is
\* already on its way to a client can still be read.
ServerStops(how) ==
  /\ server' = how
  /\ accepting' = NoClient
  /\ known' = {}
  /\ socketfd' = EveryId(0)
  /\ is_connected' = EveryId(FALSE)
  /\ topics' = EveryId(<<>>)
  /\ notifications' = EveryId(<<>>)
  /\ backlog' = <<>>
  /\ fdOf' = EveryClient(0)
  /\ up' = EveryClient(<<>>)

-----------------------------------------------------------------------------
(* The server.  Every handler but the second half of tcp_handler runs only *)
(* when the single thread is back in epoll_wait's loop.                    *)

InLoop == server = "running" /\ accepting = NoClient

LowestFree(fd) ==
  /\ \A c \in Clients : fdOf[c] # fd
  /\ \A f \in FirstFd..(fd - 1) : \E c \in Clients : fdOf[c] = f

\* tcp_handler up to its blocking receive_message.  accept is given an
\* uninitialised length, which the kernel may refuse: it then returns -1 and
\* add_connection_to_epoll ends the server.
AcceptUnchecked ==          \* mutant: no DIE, the -1 is used as a descriptor
  /\ InLoop
  /\ backlog # <<>>
  /\ fdOf' = [fdOf EXCEPT ![Head(backlog)] = -1]
  /\ accepting' = Head(backlog)
  /\ backlog' = Tail(backlog)
  /\ UNCHANGED <<server, subscribers, up, down, clients, datagrams>>
AcceptWithoutReading ==     \* mutant: leaves the identifier to the epoll loop
  /\ InLoop
  /\ backlog # <<>>
  /\ \E fd \in FirstFd..(FirstFd + Cardinality(Clients)) :
       /\ LowestFree(fd)
       /\ fdOf' = [fdOf EXCEPT ![Head(backlog)] = fd]
  /\ backlog' = Tail(backlog)
  /\ UNCHANGED <<server, accepting, subscribers, up, down, clients, datagrams>>
Accept ==
  /\ InLoop
  /\ backlog # <<>>
  /\ \/ /\ \E fd \in FirstFd..(FirstFd + Cardinality(Clients)) :
              /\ LowestFree(fd)
              /\ fdOf' = [fdOf EXCEPT ![Head(backlog)] = fd]
        /\ accepting' = Head(backlog)
        /\ backlog' = Tail(backlog)
        /\ UNCHANGED <<server, subscribers, up>>
     \/ ServerStops("dead")
  /\ UNCHANGED <<down, clients, datagrams>>

RejectKeepingOpen(c) ==     \* mutant: prints, but does not close
  /\ up' = [up EXCEPT ![c] = SubSeq(@, 2, Len(@))]
  /\ accepting' = NoClient
  /\ UNCHANGED <<server, subscribers, backlog, fdOf, down>>
Reject(c) ==
  /\ fdOf' = [fdOf EXCEPT ![c] = 0]
  /\ up' = [up EXCEPT ![c] = <<>>]
  /\ accepting' = NoClient
  /\ UNCHANGED <<server, subscribers, backlog, down>>

AddWithoutSocket(c, id, rest) ==  \* mutant: the descriptor is not stored
  /\ known' = known \cup {id}
  /\ is_connected' = [is_connected EXCEPT ![id] = TRUE]
  /\ up' = [up EXCEPT ![c] = rest]
  /\ accepting' = NoClient
  /\ UNCHANGED <<server, socketfd, topics, notifications, backlog, fdOf, down>>
AddSubscriber(c, id, rest) ==
  /\ known' = known \cup {id}
  /\ socketfd' = [socketfd EXCEPT ![id] = fdOf[c]]
  /\ is_connected' = [is_connected EXCEPT ![id] = TRUE]
  /\ topics' = [topics EXCEPT ![id] = <<>>]
  /\ notifications' = [notifications EXCEPT ![id] = <<>>]
  /\ up' = [up EXCEPT ![c] = rest]
  /\ accepting' = NoClient
  /\ UNCHANGED <<server, backlog, fdOf, down>>

\* A subscriber comes back.  What was stored for it is sent to the
\* descriptor of its first connection, which the map still holds.
WakeKeepingQueue(c, id, rest) ==  \* mutant: sends, but does not clear
  /\ is_connected' = [is_connected EXCEPT ![id] = TRUE]
  /\ down' = Flushed(id)
  /\ up' = [up EXCEPT ![c] = rest]
  /\ accepting' = NoClient
  /\ UNCHANGED <<server, known, socketfd, topics, notifications, backlog, fdOf>>
Wake(c, id, rest) ==
  \/ /\ notifications[id] # <<>> => ~MustDie(socketfd[id])
     /\ is_connected' = [is_connected EXCEPT ![id] = TRUE]
     /\ down' = Flushed(id)
     /\ notifications' = [notifications EXCEPT ![id] = <<>>]
     /\ up' = [up EXCEPT ![c] = rest]
     /\ accepting' = NoClient
     /\ UNCHANGED <<server, known, socketfd, topics, backlog, fdOf>>
  \/ /\ notifications[id] # <<>>
     /\ MayDie(socketfd[id])
     /\ ServerStops("dead")
     /\ UNCHANGED down

\* receive_message returns: a whole message, or an end of file.
ReadableWithMessage(c) == up[c] # <<>>  \* mutant: waits on after the end
Readable(c) == up[c] # <<>> \/ proc[c] = "gone"

\* tcp_handler from the return of receive_message.  Its result is ignored:
\* after an end of file the identifier is still the constructor's "".
RegisterClient(c) ==
  /\ server = "running"
  /\ accepting = c
  /\ Readable(c)
  /\ LET id == IF up[c] = <<>> THEN EmptyId ELSE IdOf[c]
         rest == IF up[c] = <<>> THEN <<>> ELSE Tail(up[c])
     IN  \/ id \in known /\ is_connected[id] /\ Reject(c)
         \/ id \in known /\ ~is_connected[id] /\ Wake(c, id, rest)
         \/ id \notin known /\ AddSubscriber(c, id, rest)
  /\ UNCHANGED <<clients, datagrams>>

HasTopic(id, t) == \E s \in ToSet(topics[id]) : s.name = t
HasStoredTopicAny(id, t) == HasTopic(id, t)  \* mutant: forgets the SF flag
HasStoredTopic(id, t) == \E s \in ToSet(topics[id]) : s.name = t /\ s.sf = 1

\* udp_handler.  If a send ends the server, the subscribers the map's
\* iteration had already reached were served and the others were not.
Publish(t) ==
  LET n == Len(datagrams) + 1
      online == {id \in known : is_connected[id] /\ HasTopic(id, t)}
      offline == {id \in known : ~is_connected[id] /\ HasStoredTopic(id, t)}
  IN  /\ InLoop
      /\ Len(datagrams) < MaxDatagrams
      /\ datagrams' = Append(datagrams,
                             [topic |-> t, to |-> online \cup offline])
      /\ \/ /\ \A id \in online : ~MustDie(socketfd[id])
            /\ down' = Forwarded(online, n)
            /\ notifications' = Stored(offline, n)
            /\ UNCHANGED <<server, accepting, known, socketfd, is_connected,
                           topics, backlog, fdOf, up>>
         \/ /\ \E fatal \in online, served \in SUBSET online :
                 /\ fatal \notin served
                 /\ MayDie(socketfd[fatal])
                 /\ \A id \in served : ~MustDie(socketfd[id])
                 /\ down' = Forwarded(served, n)
            /\ ServerStops("dead")
      /\ UNCHANGED clients

\* receive_message returns 0: the descriptor is closed, and nothing else.
CloseAndDisconnect(c) ==    \* mutant: finds the subscriber by descriptor
  /\ InLoop
  /\ fdOf[c] # 0
  /\ up[c] = <<>>
  /\ proc[c] = "gone"
  /\ fdOf' = [fdOf EXCEPT ![c] = 0]
  /\ is_connected' = [id \in AllIds |-> is_connected[id] /\ socketfd[id] # fdOf[c]]
  /\ UNCHANGED <<server, accepting, known, socketfd, topics, notifications,
                 backlog, up, down, clients, datagrams>>
CloseConnection(c) ==
  /\ InLoop
  /\ fdOf[c] # 0
  /\ up[c] = <<>>
  /\ proc[c] = "gone"
  /\ fdOf' = [fdOf EXCEPT ![c] = 0]
  /\ UNCHANGED <<server, accepting, subscribers, backlog, up, down, clients,
                 datagrams>>

DisconnectNothing(id) == UNCHANGED <<is_connected, topics>>  \* mutant
Disconnect(id) ==
  /\ is_connected' = [is_connected EXCEPT ![id] = FALSE]
  /\ UNCHANGED topics

AddTopic(id, t, sf) ==
  /\ topics' = [topics EXCEPT ![id] = Append(@, [name |-> t, sf |-> sf])]
  /\ UNCHANGED is_connected

FirstOf(id, t, i) ==
  /\ topics[id][i].name = t
  /\ \A j \in 1..(i - 1) : topics[id][j].name # t

\* remove_topic erases the first element of that name and stops.
RemoveTopic(id, t) ==
  /\ \/ /\ ~HasTopic(id, t)
        /\ UNCHANGED topics
     \/ \E i \in DOMAIN topics[id] :
          /\ FirstOf(id, t, i)
          /\ topics' = [topics EXCEPT ![id] = RemoveAt(@, i)]
  /\ UNCHANGED is_connected

\* tcp_message_handler on a complete message; every message carries the
\* sender's identifier.
HandleMessage(c) ==
  LET msg == Head(up[c])
      id == IdOf[c]
  IN  /\ InLoop
      /\ fdOf[c] # 0
      /\ up[c] # <<>>
      /\ up' = [up EXCEPT ![c] = Tail(@)]
      /\ \/ id \in known /\ msg.cmd = "exit" /\ Disconnect(id)
         \/ /\ id \in known /\ msg.cmd = "subscribe"
            /\ AddTopic(id, msg.topic, msg.sf)
         \/ /\ id \in known /\ msg.cmd = "unsubscribe"
            /\ RemoveTopic(id, msg.topic)
         \/ /\ id \notin known \/ msg.cmd = "id"
            /\ UNCHANGED <<is_connected, topics>>
      /\ UNCHANGED <<server, accepting, known, socketfd, notifications,
                     backlog, fdOf, down, clients, datagrams>>

\* "exit" on the server's keyboard, and the destructor.
ServerExit ==
  /\ InLoop
  /\ ServerStops("exited")
  /\ UNCHANGED <<down, clients, datagrams>>

-----------------------------------------------------------------------------
Server ==
  \/ Accept
  \/ ServerExit
  \/ \E t \in Topics : Publish(t)
  \/ \E c \in Clients :
       RegisterClient(c) \/ CloseConnection(c) \/ HandleMessage(c)

Client(c) ==
  \/ Launch(c) \/ SendRegister(c) \/ Exit(c) \/ Crash(c)
  \/ ReceiveNotification(c) \/ ServerClosed(c)
  \/ \E t \in Topics : Unsubscribe(c, t) \/ \E sf \in {0, 1} : Subscribe(c, t, sf)

Next == Server \/ \E c \in Clients : Client(c)

Spec == Init /\ [][Next]_vars

-----------------------------------------------------------------------------
(* Whatever the users do.                                                  *)

\* A notification is stored only for a subscriber that is away: coming back
\* empties the queue, and udp_handler sends to those who are connected.
OnlineQueueEmpty ==
  \A id \in known : is_connected[id] => notifications[id] = <<>>

\* The queue of a subscriber holds notifications addressed to it, each once
\* and in the order udp_handler received them.
StoredInOrder ==
  \A id \in known :
    /\ \A i \in DOMAIN notifications[id] :
         /\ notifications[id][i] \in DOMAIN datagrams
         /\ id \in datagrams[notifications[id][i]].to
    /\ \A i, j \in DOMAIN notifications[id] :
         i < j => notifications[id][i] < notifications[id][j]

\* tcp_handler reads a connection's first message and the epoll loop all the
\* others, although both are woken by readable descriptors: no identifier is
\* ever parsed as a command, and no command is taken for an identifier.
IdentifierFirst ==
  \A c \in Clients :
    \A i \in DOMAIN up[c] :
      up[c][i].cmd = "id" <=> i = 1 /\ (accepting = c \/ c \in ToSet(backlog))

\* What tcp_handler registers for a connection that ends before it names
\* itself: it never subscribes to anything and nothing is kept for it.
PhantomHarmless ==
  EmptyId \in known => /\ is_connected[EmptyId]
                       /\ topics[EmptyId] = <<>>
                       /\ notifications[EmptyId] = <<>>

Registered(c) == fdOf[c] # 0 /\ accepting # c

\* The check against a second login holds across restarts and crashes: two
\* processes of one identifier are never served at the same time.
OneLiveSession ==
  \A c, d \in Clients :
    /\ Registered(c) /\ proc[c] = "running"
    /\ Registered(d) /\ proc[d] = "running"
    /\ IdOf[c] = IdOf[d]
    => c = d

-----------------------------------------------------------------------------
(* When users are Orderly and no client is killed.                         *)

\* The descriptor stored with a connected subscriber, which is never updated,
\* is the descriptor of the connection that subscriber uses now.
SocketMatches ==
  \A id \in known :
    is_connected[id] =>
      \E c \in Clients : /\ IdOf[c] = id
                        /\ Registered(c)
                        /\ fdOf[c] = socketfd[id]

\* A client prints only what was addressed to its identifier.
PrintsOnlyItsOwn ==
  \A c \in Clients : \A i \in DOMAIN printed[c] :
    IdOf[c] \in datagrams[printed[c][i]].to

\* Over all the runs of one identifier nothing is printed twice, and each
\* run prints in the order the datagrams were handled.
PrintedOnceInOrder ==
  \A c \in Clients :
    /\ \A i, j \in DOMAIN printed[c] : i < j => printed[c][i] < printed[c][j]
    /\ \A d \in Clients \ {c} :
         IdOf[c] = IdOf[d] => ToSet(printed[c]) \cap ToSet(printed[d]) = {}

\* A queue is emptied only into the connection of its own subscriber, whole.
StoredReachOwner ==
  [][\A id \in Ids :
       /\ notifications[id] # <<>>
       /\ notifications'[id] # notifications[id]
       /\ server' = "running"
       => \/ IsPrefix(notifications[id], notifications'[id])
          \/ \E c \in Clients : /\ IdOf[c] = id
                                /\ Registered(c)'
                                /\ down'[c] = notifications[id]]_vars

\* The runs started with an identifier.
RunsOf(id) == {c \in Clients : IdOf[c] = id}

=============================================================================
