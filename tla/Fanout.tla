------------------------------- MODULE Fanout -------------------------------
(***************************************************************************)
(* What a subscriber may think it is connected to: every command typed is  *)
(* carried out, in order; every notification reaches all its subscribers   *)
(* in one step, through queues without an end.  Broker is written at this  *)
(* level; Backpressure shows that the blocking loops of the two programs   *)
(* come to the same.                                                       *)
(***************************************************************************)
EXTENDS Integers, Sequences

CONSTANT Clients  \* connected clients

VARIABLES
  topics,     \* how often each client's list of topics has the topic
  published,  \* notifications published
  commands,   \* commands typed and not carried out
  queue,      \* notifications sent and not printed
  printed     \* notifications printed

vars == <<topics, published, commands, queue, printed>>

Init ==
  /\ topics \in [Clients -> {0, 1}]
  /\ published = 0
  /\ commands = [c \in Clients |-> <<>>]
  /\ queue = [c \in Clients |-> <<>>]
  /\ printed = [c \in Clients |-> <<>>]

Type(c) ==
  /\ \E command \in {"subscribe", "unsubscribe"} :
       commands' = [commands EXCEPT ![c] = Append(@, command)]
  /\ UNCHANGED <<topics, published, queue, printed>>

\* add_topic puts one more element into the vector, remove_topic erases the
\* first that matches.
After(command, count) ==
  IF command = "subscribe" THEN count + 1 ELSE IF count = 0 THEN 0 ELSE count - 1

CarryOut(c) ==
  /\ commands[c] # <<>>
  /\ topics' = [topics EXCEPT ![c] = After(Head(commands[c]), @)]
  /\ commands' = [commands EXCEPT ![c] = Tail(@)]
  /\ UNCHANGED <<published, queue, printed>>

Subscribers == {c \in Clients : topics[c] > 0}

Publish ==
  /\ published' = published + 1
  /\ queue' = [c \in Clients |-> IF c \in Subscribers
                                 THEN Append(queue[c], published') ELSE queue[c]]
  /\ UNCHANGED <<topics, commands, printed>>

ReceiveNotification(c) ==
  /\ queue[c] # <<>>
  /\ printed' = [printed EXCEPT ![c] = Append(@, Head(queue[c]))]
  /\ queue' = [queue EXCEPT ![c] = Tail(@)]
  /\ UNCHANGED <<topics, published, commands>>

Next == Publish \/ \E c \in Clients : Type(c) \/ CarryOut(c) \/ ReceiveNotification(c)

Spec == Init /\ [][Next]_vars

=============================================================================
