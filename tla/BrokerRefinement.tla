-------------------------- MODULE BrokerRefinement --------------------------
(***************************************************************************)
(* With orderly users and no killed clients the broker is a Mailboxes      *)
(* service: the mailbox of an identifier is the queue the server keeps     *)
(* while it is away, and the messages on their way to its process while    *)
(* that is connected.                                                      *)
(***************************************************************************)
EXTENDS Broker

StateOf(id) ==
  CASE id \notin known -> "unknown"
    [] id \in known /\ ~is_connected[id] -> "away"
    [] id \in known /\ is_connected[id] ->
         IF \E c \in RunsOf(id) : Registered(c) /\ proc[c] = "running"
         THEN "present" ELSE "leaving"

BoxOf(id) ==
  IF \E c \in RunsOf(id) : down[c] # <<>>
  THEN down[CHOOSE c \in RunsOf(id) : down[c] # <<>>]
  ELSE notifications[id]

GotBy(id) == UNION {ToSet(printed[c]) : c \in RunsOf(id)}

Service == INSTANCE Mailboxes WITH
  open <- server = "running",
  state <- [id \in Ids |-> StateOf(id)],
  topics <- [id \in Ids |-> topics[id]],
  box <- [id \in Ids |-> BoxOf(id)],
  got <- [id \in Ids |-> GotBy(id)],
  sent <- Len(datagrams)

\* Every behaviour of the two programs, seen through this mapping, is one the
\* service allows: stale descriptors, the blocking registration and rejected
\* logins never show as long as users take turns.
ImplementsMailboxes == Service!Spec

=============================================================================
