----------------------------- MODULE Mailboxes ------------------------------
(***************************************************************************)
(* What the publish/subscribe service promises, without processes, sockets *)
(* or descriptors: each identifier has a mailbox.  A datagram goes into    *)
(* the mailbox of every present subscriber of its topic and of every       *)
(* absent one that asked for storing; mail is read in order; what is       *)
(* unread when a subscriber leaves is lost, what arrives while it is away  *)
(* waits.  The service may stop for good at any time.                      *)
(***************************************************************************)
EXTENDS Integers, Sequences, FiniteSets, SequencesExt

CONSTANTS Ids, Topics, MaxDatagrams

VARIABLES
  open,    \* is the service running?
  state,   \* "unknown", "present", "leaving" (not noticed yet) or "away"
  topics,  \* subscriptions, in the order they were made
  box,     \* mail not read yet, oldest first
  got,     \* mail read
  sent     \* number of datagrams so far

vars == <<open, state, topics, box, got, sent>>

Subscription == [name : Topics, sf : {0, 1}]

TypeOK ==
  /\ open \in BOOLEAN
  /\ state \in [Ids -> {"unknown", "present", "leaving", "away"}]
  /\ topics \in [Ids -> Seq(Subscription)]
  /\ box \in [Ids -> Seq(Nat)]
  /\ got \in [Ids -> SUBSET Nat]
  /\ sent \in Nat

Init ==
  /\ open = TRUE
  /\ state = [id \in Ids |-> "unknown"]
  /\ topics = [id \in Ids |-> <<>>]
  /\ box = [id \in Ids |-> <<>>]
  /\ got = [id \in Ids |-> {}]
  /\ sent = 0

Moves(id, from, to) ==
  /\ open
  /\ state[id] = from
  /\ state' = [state EXCEPT ![id] = to]

Join(id) ==
  /\ Moves(id, "unknown", "present")
  /\ UNCHANGED <<open, topics, box, got, sent>>

\* The subscriber comes back; its mail is still there.
Return(id) ==
  /\ Moves(id, "away", "present")
  /\ UNCHANGED <<open, topics, box, got, sent>>

Leave(id) ==
  /\ Moves(id, "present", "leaving")
  /\ box' = [box EXCEPT ![id] = <<>>]
  /\ UNCHANGED <<open, topics, got, sent>>

Notice(id) ==
  /\ Moves(id, "leaving", "away")
  /\ UNCHANGED <<open, topics, box, got, sent>>

Subscribe(id, t, sf) ==
  /\ open
  /\ state[id] = "present"
  /\ topics' = [topics EXCEPT ![id] = Append(@, [name |-> t, sf |-> sf])]
  /\ UNCHANGED <<open, state, box, got, sent>>

\* Takes back the oldest subscription to t.
Unsubscribe(id, t) ==
  /\ open
  /\ state[id] = "present"
  /\ \E i \in DOMAIN topics[id] :
       /\ topics[id][i].name = t
       /\ \A j \in 1..(i - 1) : topics[id][j].name # t
       /\ topics' = [topics EXCEPT ![id] = RemoveAt(@, i)]
  /\ UNCHANGED <<open, state, box, got, sent>>

Wants(id, t) ==
  \E i \in DOMAIN topics[id] :
    /\ topics[id][i].name = t
    /\ \/ state[id] = "present"
       \/ state[id] = "away" /\ topics[id][i].sf = 1

Publish(t) ==
  /\ open
  /\ sent < MaxDatagrams
  /\ sent' = sent + 1
  /\ box' = [id \in Ids |-> IF Wants(id, t) THEN Append(box[id], sent + 1)
                                            ELSE box[id]]
  /\ UNCHANGED <<open, state, topics, got>>

\* Mail already in the box can be read even after the service has stopped.
Read(id) ==
  /\ box[id] # <<>>
  /\ open => state[id] = "present"
  /\ got' = [got EXCEPT ![id] = @ \cup {Head(box[id])}]
  /\ box' = [box EXCEPT ![id] = Tail(@)]
  /\ UNCHANGED <<open, state, topics, sent>>

\* The service stops and forgets everybody, what it kept for those who are
\* away included.  A datagram it was serving may have reached some already.
Stop(t, reached) ==
  /\ open
  /\ open' = FALSE
  /\ sent' \in (sent + IF reached = {} THEN 0 ELSE 1)..(sent + 1)
  /\ sent' <= MaxDatagrams
  /\ \A id \in reached : state[id] = "present" /\ Wants(id, t)
  /\ box' = [id \in Ids |->
               IF id \in reached THEN Append(box[id], sent + 1)
               ELSE IF state[id] = "present" THEN box[id]
               ELSE <<>>]
  /\ state' = [id \in Ids |-> "unknown"]
  /\ topics' = [id \in Ids |-> <<>>]
  /\ UNCHANGED got

\* After the end a subscriber may give up on what it has not read.
GiveUp(id) ==
  /\ ~open
  /\ box' = [box EXCEPT ![id] = <<>>]
  /\ UNCHANGED <<open, state, topics, got, sent>>

Next ==
  \/ \E id \in Ids :
       \/ Join(id) \/ Return(id) \/ Leave(id) \/ Notice(id)
       \/ Read(id) \/ GiveUp(id)
       \/ \E t \in Topics :
            Unsubscribe(id, t) \/ \E sf \in {0, 1} : Subscribe(id, t, sf)
  \/ \E t \in Topics : Publish(t)
  \/ \E t \in Topics, reached \in SUBSET Ids : Stop(t, reached)

Spec == Init /\ [][Next]_vars

-----------------------------------------------------------------------------
\* Mail is read at most once and in the order it was sent: whatever waits in
\* a mailbox is younger than everything its owner has read, and sorted.
InOrder ==
  \A id \in Ids :
    /\ \A i \in DOMAIN box[id] :
         /\ box[id][i] <= sent
         /\ \A n \in got[id] : n < box[id][i]
    /\ \A i, j \in DOMAIN box[id] : i < j => box[id][i] < box[id][j]
    /\ \A n \in got[id] : n <= sent

=============================================================================
