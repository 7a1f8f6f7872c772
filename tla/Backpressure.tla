---------------------------- MODULE Backpressure ----------------------------
(***************************************************************************)
(* The two event loops of homework2-public over TCP connections that hold  *)
(* only so much (server.h, tcp_client.cpp, send_message in helper.cpp).    *)
(* The server is one thread: while a send to one subscriber blocks, it     *)
(* does nothing else.  So is a client: while it reads the rest of a        *)
(* command from the keyboard, or its own send blocks, it reads nothing     *)
(* from the server.  The clients are logged in and stay; the commands and  *)
(* the notifications are about one topic.                                  *)
(***************************************************************************)
EXTENDS Integers, Sequences, FiniteSets

CONSTANTS
  Clients,       \* connected clients
  NoClient,      \* the server is sending to nobody
  Capacity,      \* messages a connection holds in each direction
  MaxDatagrams,  \* bound: datagrams published
  MaxCommands    \* bound: commands typed, into all the clients

ASSUME BackpressureAssumption ==
  /\ NoClient \notin Clients
  /\ Capacity \in Nat \ {0}
  /\ MaxDatagrams \in Nat
  /\ MaxCommands \in Nat

VARIABLES
  \* The server.
  topics,     \* how often each client's list of topics has the topic
  published,  \* datagrams udp_handler has read
  todo,       \* the subscribers its loop has not served yet
  target,     \* the one of them send_message is called for
  \* The connections.
  toServer, toClient,
  \* The clients.
  keys,       \* commands typed that the process has not read
  ahead,      \* commands in the buffer of std::cin
  doing,      \* the command handle_stdin_message is at, <<>> if none
  client,     \* "loop", "reading" (the rest of a command) or "sending" it
  typed,      \* commands typed so far
  printed     \* notifications printed (history)

server == <<topics, published, todo, target>>
clients == <<keys, ahead, doing, client, typed, printed>>
vars == <<server, toServer, toClient, clients>>

Commands == {"subscribe", "unsubscribe"}

TypeOK ==
  /\ topics \in [Clients -> Nat]
  /\ published \in Nat
  /\ todo \in SUBSET Clients
  /\ target \in todo \cup {NoClient}
  /\ toServer \in [Clients -> Seq(Commands)]
  /\ toClient \in [Clients -> Seq(Nat)]
  /\ keys \in [Clients -> Seq(Commands)]
  /\ ahead \in [Clients -> Seq(Commands)]
  /\ doing \in [Clients -> Seq(Commands)]
  /\ client \in [Clients -> {"loop", "reading", "sending"}]
  /\ typed \in Nat
  /\ printed \in [Clients -> Seq(Nat)]

Nothing == [c \in Clients |-> <<>>]

Init ==
  /\ topics \in [Clients -> {0, 1}]
  /\ published = 0
  /\ todo = {}
  /\ target = NoClient
  /\ toServer = Nothing
  /\ toClient = Nothing
  /\ keys = Nothing
  /\ ahead = Nothing
  /\ doing = Nothing
  /\ client = [c \in Clients |-> "loop"]
  /\ typed = 0
  /\ printed = Nothing

-----------------------------------------------------------------------------
(* The users.                                                              *)

\* A line, or the beginning of one: who has begun a line ends it first.
Type(c) ==
  /\ client[c] # "reading"
  /\ typed < MaxCommands
  /\ \E command \in Commands : keys' = [keys EXCEPT ![c] = Append(@, command)]
  /\ typed' = typed + 1
  /\ UNCHANGED <<server, toServer, toClient, ahead, doing, client, printed>>

FinishLine(c) ==
  /\ client[c] = "reading"
  /\ client' = [client EXCEPT ![c] = "sending"]
  /\ UNCHANGED <<server, toServer, toClient, keys, ahead, doing, typed, printed>>

-----------------------------------------------------------------------------
(* The client's loop.                                                      *)

\* epoll sees what the process has not read; std::cin has a buffer, takes
\* from there first, and refills it with all there is.
TakeEagerly(c) ==  \* mutant: refills on every call
  LET lines == ahead[c] \o keys[c]
  IN  /\ doing' = [doing EXCEPT ![c] = <<Head(lines)>>]
      /\ ahead' = [ahead EXCEPT ![c] = Tail(lines)]
      /\ keys' = [keys EXCEPT ![c] = <<>>]
Take(c) ==
  \/ /\ ahead[c] = <<>>
     /\ doing' = [doing EXCEPT ![c] = <<Head(keys[c])>>]
     /\ ahead' = [ahead EXCEPT ![c] = Tail(keys[c])]
     /\ keys' = [keys EXCEPT ![c] = <<>>]
  \/ /\ ahead[c] # <<>>
     /\ doing' = [doing EXCEPT ![c] = <<Head(ahead[c])>>]
     /\ ahead' = [ahead EXCEPT ![c] = Tail(ahead[c])]
     /\ UNCHANGED keys

\* handle_stdin_message up to the call of send_message.  The last line may
\* not be complete: then std::cin blocks for the rest.
ReadCommand(c) ==
  /\ client[c] = "loop"
  /\ keys[c] # <<>>
  /\ Take(c)
  /\ \/ client' = [client EXCEPT ![c] = "sending"]
     \/ /\ ahead'[c] = <<>> /\ keys'[c] = <<>>
        /\ client' = [client EXCEPT ![c] = "reading"]
  /\ UNCHANGED <<server, toServer, toClient, typed, printed>>

SendCommand(c) ==
  /\ client[c] = "sending"
  /\ Len(toServer[c]) < Capacity
  /\ toServer' = [toServer EXCEPT ![c] = @ \o doing[c]]
  /\ doing' = [doing EXCEPT ![c] = <<>>]
  /\ client' = [client EXCEPT ![c] = "loop"]
  /\ UNCHANGED <<server, toClient, keys, ahead, typed, printed>>

\* handle_server_message.
PrintAfterCommands(c) ==  \* mutant: the keyboard goes first
  /\ client[c] = "loop"
  /\ toClient[c] # <<>>
  /\ toServer[c] = <<>>
  /\ printed' = [printed EXCEPT ![c] = Append(@, Head(toClient[c]))]
  /\ toClient' = [toClient EXCEPT ![c] = Tail(@)]
  /\ UNCHANGED <<server, toServer, keys, ahead, doing, client, typed>>
ReceiveNotification(c) ==
  /\ client[c] = "loop"
  /\ toClient[c] # <<>>
  /\ printed' = [printed EXCEPT ![c] = Append(@, Head(toClient[c]))]
  /\ toClient' = [toClient EXCEPT ![c] = Tail(@)]
  /\ UNCHANGED <<server, toServer, keys, ahead, doing, client, typed>>

-----------------------------------------------------------------------------
(* The server's loop.                                                      *)

InLoop == todo = {}

\* The iteration comes to one of those it has not served.
Reaches(S) ==
  /\ todo' = S
  /\ IF S = {} THEN target' = NoClient ELSE target' \in S

After(command, count) ==
  IF command = "subscribe" THEN count + 1 ELSE IF count = 0 THEN 0 ELSE count - 1

\* tcp_message_handler.
Handle(c) ==
  /\ InLoop
  /\ toServer[c] # <<>>
  /\ topics' = [topics EXCEPT ![c] = After(Head(toServer[c]), @)]
  /\ toServer' = [toServer EXCEPT ![c] = Tail(@)]
  /\ UNCHANGED <<published, todo, target, toClient, clients>>

\* udp_handler up to its first send ...
Publish ==
  /\ InLoop
  /\ published < MaxDatagrams
  /\ published' = published + 1
  /\ Reaches({c \in Clients : topics[c] > 0})
  /\ UNCHANGED <<topics, toServer, toClient, clients>>

\* ... and from the return of each one to the next.
SendOrDrop ==  \* mutant: a send that does not block, its result ignored
  /\ target # NoClient
  /\ toClient' = IF Len(toClient[target]) < Capacity
                 THEN [toClient EXCEPT ![target] = Append(@, published)]
                 ELSE toClient
  /\ Reaches(todo \ {target})
  /\ UNCHANGED <<topics, published, toServer, clients>>
Send ==
  /\ target # NoClient
  /\ Len(toClient[target]) < Capacity
  /\ toClient' = [toClient EXCEPT ![target] = Append(@, published)]
  /\ Reaches(todo \ {target})
  /\ UNCHANGED <<topics, published, toServer, clients>>

-----------------------------------------------------------------------------
Next ==
  \/ Publish \/ Send
  \/ \E c \in Clients :
       \/ Type(c) \/ FinishLine(c)
       \/ ReadCommand(c) \/ SendCommand(c) \/ ReceiveNotification(c) \/ Handle(c)

(* Both loops go on while something is readable, and epoll_wait returns    *)
(* every descriptor in turn; nobody has to type or publish anything.       *)
Fairness ==
  /\ WF_vars(Send)
  /\ \A c \in Clients :
       /\ WF_vars(ReadCommand(c))
       /\ WF_vars(SendCommand(c))
       /\ WF_vars(ReceiveNotification(c))
       /\ WF_vars(Handle(c))

Spec == Init /\ [][Next]_vars
FairSpec == Spec /\ Fairness

-----------------------------------------------------------------------------
(* What can hold the server up: a user who has typed half a line, or two   *)
(* sends that wait for each other.                                         *)
HalfLine(c) == client[c] = "reading"
Crossed(c) ==
  /\ client[c] = "sending"
  /\ Len(toServer[c]) = Capacity
  /\ Len(toClient[c]) = Capacity

\* The server gets back to its loop, and with it to everybody else, unless
\* the client it sends to stays away from its own for one of these reasons.
ServerReturns ==
  []<>InLoop \/ <>[](target # NoClient /\ (HalfLine(target) \/ Crossed(target)))

\* A line can be left behind in the buffer, where epoll does not see it; but
\* a client that gets back to its loop is up to date once a line is typed
\* alone.
CatchesUp ==
  \A c \in Clients :
    []<>(client[c] = "loop") =>
      (Len(keys[c]) = 1 ~> Len(keys[c]) > 1 \/ (keys[c] = <<>> /\ ahead[c] = <<>>))

\* Nothing is lost, doubled or reordered on the way, in either direction,
\* and no client can tell that its neighbours were served before it.
Ideal == INSTANCE Fanout WITH
  commands <- [c \in Clients |-> toServer[c] \o doing[c] \o ahead[c] \o keys[c]],
  queue <- [c \in Clients |->
              toClient[c] \o (IF c \in todo THEN <<published>> ELSE <<>>)]
ImplementsFanout == Ideal!Spec

=============================================================================
