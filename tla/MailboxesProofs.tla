-------------------------- MODULE MailboxesProofs ---------------------------
(* The promises of Mailboxes, for any identifiers, topics and bound.       *)
EXTENDS Mailboxes, TLAPS

\* Sequences stay sequences when an element is taken out.
LEMMA RemoveAtType ==
  ASSUME NEW S, NEW s \in Seq(S), NEW i \in DOMAIN s
  PROVE  RemoveAt(s, i) \in Seq(S)
BY DEF RemoveAt

\* The variables of Mailboxes keep their types.
THEOREM TypeCorrect == Spec => []TypeOK
<1>1. Init => TypeOK
  BY DEF Init, TypeOK
<1>2. TypeOK /\ [Next]_vars => TypeOK'
  <2> SUFFICES ASSUME TypeOK, [Next]_vars PROVE TypeOK'
    OBVIOUS
  <2> USE DEF TypeOK
  <2>1. ASSUME NEW id \in Ids, Join(id) \/ Return(id) \/ Notice(id)
        PROVE  TypeOK'
    BY <2>1 DEF Join, Return, Notice, Moves
  <2>8. ASSUME NEW id \in Ids, Leave(id) \/ GiveUp(id)
        PROVE  TypeOK'
    <3>1. box' = [box EXCEPT ![id] = <<>>]
      BY <2>8 DEF Leave, GiveUp
    <3>2. box' \in [Ids -> Seq(Nat)]
      BY <3>1
    <3>3. QED
      BY <2>8, <3>2 DEF Leave, GiveUp, Moves
  <2>9. ASSUME NEW id \in Ids, Read(id)
        PROVE  TypeOK'
    <3>1. Head(box[id]) \in Nat /\ Tail(box[id]) \in Seq(Nat)
      BY <2>9 DEF Read
    <3>2. QED
      BY <2>9, <3>1 DEF Read
  <2>2. ASSUME NEW id \in Ids, NEW t \in Topics, Unsubscribe(id, t)
        PROVE  TypeOK'
    BY <2>2, RemoveAtType DEF Unsubscribe
  <2>3. ASSUME NEW id \in Ids, NEW t \in Topics, NEW sf \in {0, 1},
               Subscribe(id, t, sf)
        PROVE  TypeOK'
    <3>1. [name |-> t, sf |-> sf] \in Subscription
      BY DEF Subscription
    <3>2. Append(topics[id], [name |-> t, sf |-> sf]) \in Seq(Subscription)
      BY <3>1
    <3>3. QED
      BY <2>3, <3>2 DEF Subscribe
  <2>4. ASSUME NEW t \in Topics, Publish(t)
        PROVE  TypeOK'
    BY <2>4 DEF Publish
  <2>5. ASSUME NEW t \in Topics, NEW reached \in SUBSET Ids, Stop(t, reached)
        PROVE  TypeOK'
    <3>1. sent' \in Nat
      BY <2>5 DEF Stop
    <3>2. box' \in [Ids -> Seq(Nat)]
      <4>1. \A id \in Ids : Append(box[id], sent + 1) \in Seq(Nat)
        OBVIOUS
      <4>2. QED
        BY <2>5, <4>1 DEF Stop
    <3>3. state' \in [Ids -> {"unknown", "present", "leaving", "away"}]
      BY <2>5 DEF Stop
    <3>4. topics' \in [Ids -> Seq(Subscription)]
      <4>1. topics' = [id \in Ids |-> <<>>]
        BY <2>5 DEF Stop
      <4>2. QED
        BY <4>1
    <3>5. open' \in BOOLEAN /\ got' \in [Ids -> SUBSET Nat]
      BY <2>5 DEF Stop
    <3>6. QED
      BY <3>1, <3>2, <3>3, <3>4, <3>5
  <2>6. CASE UNCHANGED vars
    BY <2>6 DEF vars
  <2>7. QED
    BY <2>1, <2>2, <2>3, <2>4, <2>5, <2>6, <2>8, <2>9 DEF Next
<1>3. QED
  BY <1>1, <1>2, PTL DEF Spec

\* The mailbox of one identifier, in order and ahead of what was read.
OneInOrder(id) ==
  /\ \A i \in DOMAIN box[id] :
       /\ box[id][i] <= sent
       /\ \A n \in got[id] : n < box[id][i]
  /\ \A i, j \in DOMAIN box[id] : i < j => box[id][i] < box[id][j]
  /\ \A n \in got[id] : n <= sent

\* A mailbox that stays as it is, loses its mail or gets the newest datagram
\* remains in order.
LEMMA BoxInOrder ==
  ASSUME TypeOK, TypeOK', NEW id \in Ids, OneInOrder(id),
         got'[id] = got[id], sent' >= sent,
         \/ box'[id] = box[id]
         \/ box'[id] = <<>>
         \/ box'[id] = Append(box[id], sent + 1) /\ sent' = sent + 1
  PROVE  OneInOrder(id)'
<1> USE DEF OneInOrder, TypeOK
<1>1. CASE box'[id] = box[id]
  BY <1>1
<1>2. CASE box'[id] = <<>>
  BY <1>2
<1>3. CASE box'[id] = Append(box[id], sent + 1) /\ sent' = sent + 1
  <2>1. /\ DOMAIN box[id] = 1..Len(box[id])
        /\ DOMAIN box'[id] = 1..(Len(box[id]) + 1)
        /\ \A i \in 1..Len(box[id]) : box'[id][i] = box[id][i]
        /\ box'[id][Len(box[id]) + 1] = sent + 1
    BY <1>3
  <2>2. \A i \in DOMAIN box[id] : box[id][i] \in Nat
    <3>1. box[id] \in Seq(Nat)
      OBVIOUS
    <3>2. \A s \in Seq(Nat) : \A i \in DOMAIN s : s[i] \in Nat
      OBVIOUS
    <3>3. QED
      BY <3>1, <3>2, Zenon
  <2>3. \A n \in got[id] : n \in Nat
    OBVIOUS
  <2>4. QED
    BY <1>3, <2>1, <2>2, <2>3, SMTT(20)
<1>4. QED
  BY <1>1, <1>2, <1>3

\* Mail is read at most once and in the order it was sent.
THEOREM MailInOrder == Spec => []InOrder
<1>1. Init => InOrder
  BY DEF Init, InOrder
<1>2. TypeOK /\ TypeOK' /\ InOrder /\ [Next]_vars => InOrder'
  <2> SUFFICES ASSUME TypeOK, TypeOK', InOrder, [Next]_vars,
                      NEW id \in Ids
               PROVE  OneInOrder(id)'
    BY DEF InOrder, OneInOrder
  <2>0. OneInOrder(id)
    BY DEF InOrder, OneInOrder
  <2>1. CASE Read(id)
    <3> USE DEF OneInOrder, TypeOK
    <3>1. /\ Len(box[id]) \in Nat \ {0}
          /\ box'[id] = Tail(box[id])
          /\ got'[id] = got[id] \cup {box[id][1]}
          /\ sent' = sent
      BY <2>1 DEF Read
    <3>2. /\ DOMAIN box[id] = 1..Len(box[id])
          /\ DOMAIN box'[id] = 1..(Len(box[id]) - 1)
          /\ \A i \in DOMAIN box'[id] : box'[id][i] = box[id][i + 1]
          /\ \A i \in DOMAIN box'[id] : i \in Int /\ 1 < i + 1
          /\ \A i \in DOMAIN box'[id] : i + 1 \in DOMAIN box[id]
          /\ 1 \in DOMAIN box[id]
      BY <3>1
    <3>3. \A i \in DOMAIN box[id] : box[id][i] \in Nat
      OBVIOUS
    <3>4. \A n \in got[id] : n \in Nat
      OBVIOUS
    <3>5. ASSUME NEW i \in DOMAIN box'[id]
          PROVE  /\ box'[id][i] <= sent'
                 /\ \A n \in got'[id] : n < box'[id][i]
      <4>1. box[id][1] < box[id][i + 1]
        BY <2>0, <3>2
      <4>2. QED
        BY <2>0, <3>1, <3>2, <4>1
    <3>6. ASSUME NEW i \in DOMAIN box'[id], NEW j \in DOMAIN box'[id], i < j
          PROVE  box'[id][i] < box'[id][j]
      <4>1. i + 1 \in DOMAIN box[id] /\ j + 1 \in DOMAIN box[id] /\ i + 1 < j + 1
        BY <3>2, <3>6
      <4>2. QED
        BY <2>0, <3>2, <4>1
    <3>7. \A n \in got'[id] : n <= sent'
      BY <2>0, <3>1, <3>2
    <3>8. QED
      BY <3>5, <3>6, <3>7
  <2>2. ASSUME NEW other \in Ids, Read(other), other # id
        PROVE  OneInOrder(id)'
    <3>1. box'[id] = box[id] /\ got'[id] = got[id] /\ sent' = sent
      BY <2>2 DEF Read, TypeOK
    <3>2. QED
      BY <2>0, <3>1, BoxInOrder DEF TypeOK
  <2>3. ASSUME NEW other \in Ids,
               \/ Join(other) \/ Return(other) \/ Leave(other)
               \/ Notice(other) \/ GiveUp(other)
        PROVE  OneInOrder(id)'
    <3>1. /\ box'[id] = box[id] \/ box'[id] = <<>>
          /\ got'[id] = got[id] /\ sent' = sent
      BY <2>3 DEF Join, Return, Leave, Notice, GiveUp, TypeOK
    <3>2. QED
      BY <2>0, <3>1, BoxInOrder DEF TypeOK
  <2>4. ASSUME NEW other \in Ids, NEW t \in Topics,
               \/ Unsubscribe(other, t)
               \/ \E sf \in {0, 1} : Subscribe(other, t, sf)
        PROVE  OneInOrder(id)'
    <3>1. box' = box /\ got' = got /\ sent' = sent
      BY <2>4 DEF Unsubscribe, Subscribe
    <3>2. QED
      BY <2>0, <3>1, BoxInOrder DEF TypeOK
  <2>5. ASSUME NEW t \in Topics, Publish(t)
        PROVE  OneInOrder(id)'
    <3>1. /\ \/ box'[id] = box[id]
             \/ box'[id] = Append(box[id], sent + 1)
          /\ got'[id] = got[id] /\ sent' = sent + 1
      BY <2>5 DEF Publish
    <3>2. QED
      BY <2>0, <3>1, BoxInOrder DEF TypeOK
  <2>6. ASSUME NEW t \in Topics, NEW reached \in SUBSET Ids, Stop(t, reached)
        PROVE  OneInOrder(id)'
    <3>1. /\ \/ box'[id] = box[id]
             \/ box'[id] = <<>>
             \/ box'[id] = Append(box[id], sent + 1) /\ sent' = sent + 1
          /\ got'[id] = got[id] /\ sent' >= sent
      BY <2>6 DEF Stop, TypeOK
    <3>2. QED
      BY <2>0, <3>1, BoxInOrder
  <2>7. CASE UNCHANGED vars
    BY <2>7, <2>0, BoxInOrder DEF vars, TypeOK
  <2>8. QED
    BY <2>1, <2>2, <2>3, <2>4, <2>5, <2>6, <2>7 DEF Next
<1>3. QED
  BY <1>1, <1>2, TypeCorrect, PTL DEF Spec

=============================================================================
