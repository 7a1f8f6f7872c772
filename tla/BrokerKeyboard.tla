--------------------------- MODULE BrokerKeyboard ---------------------------
(***************************************************************************)
(* Broker with its clients' keyboards, and what must happen in the end.    *)
(* handle_stdin_message reads a command word by word with `>>', which      *)
(* blocks: from the first word to the last the client is not in its epoll  *)
(* loop, and reads nothing the server sends, its end included.             *)
(***************************************************************************)
EXTENDS Broker

VARIABLE typing  \* clients that wait for the rest of a command

keyboardVars == <<vars, typing>>

KeyboardInit == Init /\ typing = {}

\* epoll_wait reports the keyboard, and there is not a whole command to read.
\* Users who take turns type whole lines, as the checker does.
BeginCommand(c) ==
  /\ ~Orderly
  /\ proc[c] = "running"
  /\ c \notin typing
  /\ typing' = typing \cup {c}
  /\ UNCHANGED vars

\* What the client does with its socket when it is not at its keyboard.
Reading(c) ==
  /\ c \notin typing
  /\ SendRegister(c) \/ ReceiveNotification(c) \/ ServerClosed(c)

\* What its user does: end a command, begun before or typed at once, start
\* the client or kill it.
Driven(c) ==
  \/ Launch(c) \/ Exit(c) \/ Crash(c)
  \/ \E t \in Topics : Unsubscribe(c, t) \/ \E sf \in {0, 1} : Subscribe(c, t, sf)

KeyboardNext ==
  \/ Server /\ UNCHANGED typing
  \/ \E c \in Clients : BeginCommand(c)
  \/ \E c \in Clients : Reading(c) /\ UNCHANGED typing
  \/ \E c \in Clients : Driven(c) /\ typing' = typing \ {c}

(* The server goes back to epoll_wait and reacts while anything is         *)
(* readable, and so does a client that is not at its keyboard.  What users *)
(* and publishers do is never forced, the rest of a command included.      *)
Reaction ==
  /\ \/ Accept
     \/ \E c \in Clients :
          RegisterClient(c) \/ CloseConnection(c) \/ HandleMessage(c) \/ Reading(c)
  /\ UNCHANGED typing

Fairness == WF_keyboardVars(Reaction)

KeyboardSpec == KeyboardInit /\ [][KeyboardNext]_keyboardVars
FairSpec == KeyboardSpec /\ Fairness

-----------------------------------------------------------------------------
\* A client that connects is accepted and its identifier looked at, or the
\* server is gone: tcp_handler's blocking read does not hold up the others
\* for ever, even when the client it waits for is killed.
EveryoneAnswered ==
  \A c \in Clients :
    proc[c] = "connecting" ~> c \notin ToSet(backlog) /\ accepting # c

\* When the server has ended, by command or by DIE, so does every client,
\* once what is on its way to it is printed; but not one whose user has
\* typed a part of a command, until the rest of it comes.
AllClientsLeave ==
  \A c \in Clients :
    server # "running" ~> proc[c] \in {"unstarted", "gone"} \/ c \in typing

\* "it will be sent when the client connects again" (readme.txt:65-66): what
\* is stored when its owner starts anew gets printed, unless the server goes
\* down or the client leaves first.  For users who take turns and type whole
\* lines.
StoredIsPrinted ==
  \A id \in Ids, n \in 1..MaxDatagrams :
    /\ \E c \in RunsOf(id) : proc[c] = "connecting"
    /\ n \in ToSet(notifications[id])
    ~> \/ \E c \in RunsOf(id) : n \in ToSet(printed[c])
       \/ \A c \in RunsOf(id) : proc[c] \in {"unstarted", "gone"}
       \/ server # "running"

=============================================================================
