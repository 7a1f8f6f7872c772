------------------------- MODULE BackpressureProofs -------------------------
(* Bounded connections and blocking sends implement Fanout, for any number *)
(* of clients and any capacity.                                            *)
EXTENDS Backpressure, SequenceTheorems, TLAPS

\* Facts about sequences that the steps need.
LEMMA AppendAfter ==
  ASSUME NEW S, NEW s \in Seq(S), NEW t \in Seq(S), NEW x \in S
  PROVE  s \o Append(t, x) = Append(s \o t, x)
<1>1. s \o t \in Seq(S) /\ <<x>> \in Seq(S)
  BY ConcatProperties
<1>2. Append(t, x) = t \o <<x>> /\ Append(s \o t, x) = (s \o t) \o <<x>>
  BY <1>1, AppendIsConcat
<1>3. QED
  BY <1>1, <1>2, ConcatAssociative

LEMMA HeadMoves ==
  ASSUME NEW S, NEW s \in Seq(S), NEW t \in Seq(S), t # <<>>
  PROVE  (s \o <<Head(t)>>) \o Tail(t) = s \o t
<1>1. /\ Head(t) \in S /\ Tail(t) \in Seq(S) /\ Len(Tail(t)) = Len(t) - 1
      /\ \A i \in 1..Len(Tail(t)) : Tail(t)[i] = t[i + 1]
  BY HeadTailProperties
<1>2. <<Head(t)>> \o Tail(t) = t
  BY <1>1
<1>3. <<Head(t)>> \in Seq(S)
  BY <1>1
<1>4. QED
  BY <1>1, <1>2, <1>3, ConcatAssociative

LEMMA FirstOfBoth ==
  ASSUME NEW S, NEW s \in Seq(S), NEW t \in Seq(S), s # <<>>
  PROVE  /\ s \o t \in Seq(S) /\ s \o t # <<>>
         /\ Head(s \o t) = Head(s)
         /\ Tail(s \o t) = Tail(s) \o t
<1>1. s \o t \in Seq(S) /\ s \o t # <<>>
  BY ConcatProperties, ConcatEqualIffEmpty
<1>2. Head(s \o t) = Head(s)
  OBVIOUS
<1>3. Tail(s) \in Seq(S) /\ Tail(s \o t) \in Seq(S)
  BY <1>1, HeadTailProperties
<1>4. Tail(s \o t) = Tail(s) \o t
  OBVIOUS
<1>5. QED
  BY <1>1, <1>2, <1>4

\* The variables keep their types, the server sends to somebody it has to
\* serve, and a client in its loop is at no command.
BackpressureInv ==
  /\ TypeOK
  /\ \A c \in Clients : client[c] = "loop" => doing[c] = <<>>

LEMMA BackpressureInit == Init => BackpressureInv
BY DEF Init, Nothing, BackpressureInv, TypeOK

LEMMA BackpressureStep == BackpressureInv /\ [Next]_vars => BackpressureInv'
<1> SUFFICES ASSUME BackpressureInv, [Next]_vars PROVE BackpressureInv'
  OBVIOUS
<1> USE DEF BackpressureInv, TypeOK, server, clients
<1>1. ASSUME NEW c \in Clients, Type(c) PROVE BackpressureInv'
  <2>1. PICK command \in Commands : keys' = [keys EXCEPT ![c] = Append(@, command)]
    BY <1>1 DEF Type
  <2>2. Append(keys[c], command) \in Seq(Commands)
    BY AppendProperties
  <2>3. keys' \in [Clients -> Seq(Commands)]
    BY <2>1, <2>2
  <2>4. typed' \in Nat
    BY <1>1 DEF Type
  <2>5. UNCHANGED <<server, toServer, toClient, ahead, doing, client, printed>>
    BY <1>1 DEF Type
  <2>6. QED
    BY <2>3, <2>4, <2>5
<1>2. ASSUME NEW c \in Clients, FinishLine(c) PROVE BackpressureInv'
  BY <1>2 DEF FinishLine
<1>3. ASSUME NEW c \in Clients, ReadCommand(c) PROVE BackpressureInv'
  <2>1. PICK s \in {ahead[c], keys[c]} :
          /\ s # <<>>
          /\ doing' = [doing EXCEPT ![c] = <<Head(s)>>]
          /\ ahead' = [ahead EXCEPT ![c] = Tail(s)]
          /\ keys' \in {keys, [keys EXCEPT ![c] = <<>>]}
    BY <1>3 DEF ReadCommand, Take
  <2>2. s \in Seq(Commands)
    OBVIOUS
  <2>3. Tail(s) \in Seq(Commands) /\ Head(s) \in Commands
    BY <2>1, <2>2, HeadTailProperties
  <2>4. <<Head(s)>> \in Seq(Commands)
    BY <2>3
  <2>5. /\ keys' \in [Clients -> Seq(Commands)]
        /\ ahead' \in [Clients -> Seq(Commands)]
        /\ doing' \in [Clients -> Seq(Commands)]
        /\ \A d \in Clients \ {c} : doing'[d] = doing[d]
    <3>1. [keys EXCEPT ![c] = <<>>] \in [Clients -> Seq(Commands)]
      BY EmptySeq
    <3>2. keys' \in [Clients -> Seq(Commands)]
      BY <2>1, <3>1
    <3>3. QED
      BY <2>1, <2>3, <2>4, <3>2
  <2>6. /\ client' \in [Clients -> {"loop", "reading", "sending"}]
        /\ client'[c] # "loop"
        /\ \A d \in Clients \ {c} : client'[d] = client[d]
    BY <1>3 DEF ReadCommand
  <2>7. QED
    BY <1>3, <2>5, <2>6 DEF ReadCommand
<1>4. ASSUME NEW c \in Clients, SendCommand(c) PROVE BackpressureInv'
  <2>1. toServer[c] \o doing[c] \in Seq(Commands)
    OBVIOUS
  <2>2. toServer' \in [Clients -> Seq(Commands)] /\ doing' \in [Clients -> Seq(Commands)]
    BY <1>4, <2>1, EmptySeq DEF SendCommand
  <2>3. QED
    BY <1>4, <2>2 DEF SendCommand
<1>5. ASSUME NEW c \in Clients, ReceiveNotification(c) PROVE BackpressureInv'
  <2>1. toClient[c] \in Seq(Nat) /\ toClient[c] # <<>> /\ printed[c] \in Seq(Nat)
    BY <1>5 DEF ReceiveNotification
  <2>2. Head(toClient[c]) \in Nat /\ Tail(toClient[c]) \in Seq(Nat)
    BY <2>1, HeadTailProperties
  <2>3. Append(printed[c], Head(toClient[c])) \in Seq(Nat)
    BY <2>1, <2>2, AppendProperties
  <2>4. printed' \in [Clients -> Seq(Nat)] /\ toClient' \in [Clients -> Seq(Nat)]
    BY <1>5, <2>2, <2>3 DEF ReceiveNotification
  <2>5. QED
    BY <1>5, <2>4 DEF ReceiveNotification
<1>6. ASSUME NEW c \in Clients, Handle(c) PROVE BackpressureInv'
  <2>1. Tail(toServer[c]) \in Seq(Commands)
    BY <1>6 DEF Handle
  <2>2. \A command, n \in Nat : After(Head(toServer[c]), n) \in Nat
    BY DEF After
  <2>3. topics' \in [Clients -> Nat] /\ toServer' \in [Clients -> Seq(Commands)]
    BY <1>6, <2>1, <2>2 DEF Handle
  <2>4. QED
    BY <1>6, <2>3 DEF Handle
<1>7. CASE Publish
  <2>1. todo' \in SUBSET Clients /\ target' \in todo' \cup {NoClient} /\ published' \in Nat
    BY <1>7 DEF Publish, Reaches
  <2>2. QED
    BY <1>7, <2>1 DEF Publish
<1>8. CASE Send
  <2>1. target \in Clients
    BY <1>8 DEF Send
  <2>2. toClient' \in [Clients -> Seq(Nat)]
    BY <1>8, <2>1 DEF Send
  <2>3. QED
    BY <1>8, <2>2 DEF Send, Reaches
<1>9. CASE UNCHANGED vars
  BY <1>9 DEF vars
<1>10. QED
  BY <1>1, <1>2, <1>3, <1>4, <1>5, <1>6, <1>7, <1>8, <1>9 DEF Next

LEMMA BackpressureAlways == Spec => []BackpressureInv
BY BackpressureInit, BackpressureStep, PTL DEF Spec

\* The variables keep their types, and the server is never inside a send for
\* a client it has already served.
THEOREM TypeCorrect == Spec => []TypeOK
BY BackpressureAlways, PTL DEF BackpressureInv

-----------------------------------------------------------------------------
(* The mapping, step by step.                                              *)

Underway(c) == toServer[c] \o doing[c] \o ahead[c] \o keys[c]
Pending(c) == toClient[c] \o (IF c \in todo THEN <<published>> ELSE <<>>)

LEMMA FanoutInit == Init => Ideal!Init
<1> SUFFICES ASSUME Init PROVE Ideal!Init
  OBVIOUS
<1>1. \A c \in Clients : Underway(c) = <<>> /\ Pending(c) = <<>>
  BY DEF Init, Nothing, Underway, Pending
<1>2. QED
  BY <1>1 DEF Init, Ideal!Init, Nothing, Underway, Pending

\* What a step leaves alone.
LEMMA SameUnderway ==
  ASSUME NEW c \in Clients, UNCHANGED <<toServer[c], doing[c], ahead[c], keys[c]>>
  PROVE  Underway(c)' = Underway(c)
BY DEF Underway

LEMMA TypeSimulates ==
  ASSUME BackpressureInv, NEW c \in Clients, Type(c)
  PROVE  Ideal!Type(c)
<1> USE DEF BackpressureInv, TypeOK
<1>1. PICK command \in Commands : keys' = [keys EXCEPT ![c] = Append(@, command)]
  BY DEF Type
<1> DEFINE front == toServer[c] \o doing[c] \o ahead[c]
<1>2. front \in Seq(Commands) /\ keys[c] \in Seq(Commands)
  BY ConcatProperties
<1>3. Underway(c)' = front \o Append(keys[c], command) /\ Underway(c) = front \o keys[c]
  BY <1>1 DEF Type, Underway
<1> DEFINE end == keys[c]
<1> HIDE DEF front
<1>4. Underway(c)' = Append(Underway(c), command)
  <2>1. front \o Append(end, command) = Append(front \o end, command)
    <3>1. end \in Seq(Commands)
      BY <1>2
    <3> HIDE DEF end, BackpressureInv, TypeOK
    <3>2. QED
      BY <1>2, <3>1, AppendAfter
  <2>2. QED
    BY <1>3, <2>1
<1>5. \A d \in Clients \ {c} : Underway(d)' = Underway(d)
  BY <1>1 DEF Type, Underway
<1>6. UNCHANGED <<topics, published, printed>> /\ \A d \in Clients : Pending(d)' = Pending(d)
  BY DEF Type, Pending, server
<1>7. QED
  BY <1>4, <1>5, <1>6 DEF Ideal!Type, Underway, Pending, Commands

\* The client's own steps on a command move it along without a trace.
LEMMA MovingStutters ==
  ASSUME BackpressureInv, NEW c \in Clients,
         FinishLine(c) \/ ReadCommand(c) \/ SendCommand(c)
  PROVE  UNCHANGED Ideal!vars
<1> USE DEF BackpressureInv, TypeOK
<1>1. Underway(c)' = Underway(c)
  <2>1. CASE FinishLine(c)
    BY <2>1 DEF FinishLine, Underway
  <2>2. CASE ReadCommand(c)
    <3> DEFINE out == toServer[c]
    <3>1. out \in Seq(Commands) /\ ahead[c] \in Seq(Commands) /\ keys[c] \in Seq(Commands)
      OBVIOUS
    <3>2. doing[c] = <<>> /\ toServer'[c] = out
      BY <2>2 DEF ReadCommand
    <3>3. Underway(c) = (out \o ahead[c]) \o keys[c]
      BY <3>1, <3>2, ConcatEmptySeq DEF Underway
    <3>4. CASE ahead[c] = <<>>
      <4>1. /\ keys[c] # <<>> /\ keys'[c] = <<>>
            /\ doing'[c] = <<Head(keys[c])>> /\ ahead'[c] = Tail(keys[c])
        BY <2>2, <3>4 DEF ReadCommand, Take
      <4>2. (out \o <<Head(keys[c])>>) \o Tail(keys[c]) = out \o keys[c]
        BY <3>1, <4>1, HeadMoves
      <4>3. out \o keys[c] \in Seq(Commands)
        BY <3>1, ConcatProperties
      <4>4. Underway(c)' = out \o keys[c]
        BY <3>2, <4>1, <4>2, <4>3, ConcatEmptySeq DEF Underway
      <4>5. QED
        BY <3>1, <3>3, <3>4, <4>4, ConcatEmptySeq
    <3>5. CASE ahead[c] # <<>>
      <4>1. /\ keys'[c] = keys[c]
            /\ doing'[c] = <<Head(ahead[c])>> /\ ahead'[c] = Tail(ahead[c])
        BY <2>2, <3>5 DEF ReadCommand, Take
      <4>2. (out \o <<Head(ahead[c])>>) \o Tail(ahead[c]) = out \o ahead[c]
        BY <3>1, <3>5, HeadMoves
      <4>3. QED
        BY <3>2, <3>3, <4>1, <4>2 DEF Underway
    <3>6. QED
      BY <3>4, <3>5
  <2>3. CASE SendCommand(c)
    <3>1. /\ toServer'[c] = toServer[c] \o doing[c] /\ doing'[c] = <<>>
          /\ ahead' = ahead /\ keys' = keys
      BY <2>3 DEF SendCommand
    <3>2. toServer[c] \o doing[c] \in Seq(Commands)
      BY ConcatProperties
    <3>3. QED
      BY <3>1, <3>2, ConcatEmptySeq DEF Underway
  <2>4. QED
    BY <2>1, <2>2, <2>3
<1>2. \A d \in Clients \ {c} : Underway(d)' = Underway(d)
  <2>1. \A d \in Clients \ {c} : UNCHANGED <<toServer[d], doing[d], ahead[d], keys[d]>>
    BY DEF FinishLine, ReadCommand, Take, SendCommand
  <2>2. QED
    BY <2>1, SameUnderway
<1>3. UNCHANGED <<topics, published, printed>> /\ \A d \in Clients : Pending(d)' = Pending(d)
  BY DEF FinishLine, ReadCommand, SendCommand, Pending, server
<1>4. \A d \in Clients : Underway(d)' = Underway(d)
  BY <1>1, <1>2
<1>5. QED
  BY <1>3, <1>4 DEF Ideal!vars, Underway, Pending

LEMMA HandleSimulates ==
  ASSUME BackpressureInv, NEW c \in Clients, Handle(c)
  PROVE  Ideal!CarryOut(c)
<1> USE DEF BackpressureInv, TypeOK
<1>1. /\ toServer[c] \in Seq(Commands) /\ doing[c] \in Seq(Commands)
      /\ ahead[c] \in Seq(Commands) /\ keys[c] \in Seq(Commands)
      /\ toServer[c] # <<>> /\ toServer'[c] = Tail(toServer[c])
  BY DEF Handle
<1>2. /\ Underway(c) # <<>> /\ Head(Underway(c)) = Head(toServer[c])
      /\ Tail(Underway(c)) = Tail(toServer[c]) \o doing[c] \o ahead[c] \o keys[c]
  <2> DEFINE s == toServer[c]
             t == doing[c]
             u == ahead[c]
             w == keys[c]
  <2>1. s \in Seq(Commands) /\ t \in Seq(Commands) /\ u \in Seq(Commands) /\ w \in Seq(Commands) /\ s # <<>>
    BY <1>1
  <2>2. Underway(c) = s \o t \o u \o w
    BY DEF Underway
  <2> HIDE DEF s, t, u, w, BackpressureInv, TypeOK
  <2>3. /\ s \o t \o u \o w # <<>>
        /\ Head(s \o t \o u \o w) = Head(s)
        /\ Tail(s \o t \o u \o w) = Tail(s) \o t \o u \o w
    <3>1. /\ s \o t \in Seq(Commands) /\ s \o t # <<>>
          /\ Head(s \o t) = Head(s) /\ Tail(s \o t) = Tail(s) \o t
      BY <2>1, FirstOfBoth
    <3> DEFINE st == s \o t
    <3>2. st \in Seq(Commands) /\ st # <<>>
      BY <3>1
    <3> HIDE DEF st
    <3>3. /\ st \o u \in Seq(Commands) /\ st \o u # <<>>
          /\ Head(st \o u) = Head(st) /\ Tail(st \o u) = Tail(st) \o u
      BY <2>1, <3>2, FirstOfBoth
    <3> DEFINE stu == st \o u
    <3>4. stu \in Seq(Commands) /\ stu # <<>>
      BY <3>3
    <3> HIDE DEF stu
    <3>5. /\ stu \o w # <<>>
          /\ Head(stu \o w) = Head(stu) /\ Tail(stu \o w) = Tail(stu) \o w
      BY <2>1, <3>4, FirstOfBoth
    <3>6. QED
      BY <3>1, <3>3, <3>5 DEF st, stu
  <2>4. QED
    BY <2>2, <2>3 DEF s, t, u, w
<1>3. Underway(c)' = Tail(Underway(c))
  BY <1>1, <1>2 DEF Underway, Handle, clients
<1>4. \A d \in Clients \ {c} : Underway(d)' = Underway(d)
  BY DEF Handle, clients, Underway
<1>5. /\ UNCHANGED <<published, printed>> /\ \A d \in Clients : Pending(d)' = Pending(d)
      /\ topics' = [topics EXCEPT ![c] = Ideal!After(Head(toServer[c]), @)]
  BY DEF Handle, clients, Pending, After, Ideal!After
<1>6. QED
  BY <1>2, <1>3, <1>4, <1>5 DEF Ideal!CarryOut, Underway, Pending

LEMMA PrintSimulates ==
  ASSUME BackpressureInv, NEW c \in Clients, ReceiveNotification(c)
  PROVE  Ideal!ReceiveNotification(c)
<1> USE DEF BackpressureInv, TypeOK
<1> DEFINE s == toClient[c]
           t == IF c \in todo THEN <<published>> ELSE <<>>
<1>1. s \in Seq(Nat) /\ t \in Seq(Nat) /\ s # <<>> /\ toClient'[c] = Tail(s)
  BY DEF ReceiveNotification
<1> HIDE DEF s, t, BackpressureInv, TypeOK
<1>2. s \o t # <<>> /\ Head(s \o t) = Head(s) /\ Tail(s \o t) = Tail(s) \o t
  BY <1>1, FirstOfBoth
<1> USE DEF s, t, BackpressureInv, TypeOK
<1>3. /\ Pending(c) # <<>> /\ Head(Pending(c)) = Head(s)
      /\ Pending(c)' = Tail(Pending(c))
  BY <1>1, <1>2 DEF ReceiveNotification, Pending, server
<1>4. \A d \in Clients \ {c} : Pending(d)' = Pending(d)
  BY DEF ReceiveNotification, Pending, server
<1>5. /\ UNCHANGED <<topics, published>> /\ \A d \in Clients : Underway(d)' = Underway(d)
      /\ printed' = [printed EXCEPT ![c] = Append(@, Head(s))]
  BY DEF ReceiveNotification, Underway, server
<1> HIDE DEF s, t
<1>6. QED
  BY <1>3, <1>4, <1>5 DEF Ideal!ReceiveNotification, Underway, Pending

LEMMA PublishSimulates ==
  ASSUME BackpressureInv, Publish
  PROVE  Ideal!Publish
<1> USE DEF BackpressureInv, TypeOK
<1>1. /\ todo = {} /\ published' = published + 1 /\ toClient' = toClient
      /\ todo' = {c \in Clients : topics[c] > 0}
  BY DEF Publish, InLoop, Reaches
<1>2. \A c \in Clients :
        Pending(c)' = IF c \in Ideal!Subscribers
                      THEN Append(Pending(c), published') ELSE Pending(c)
  <2> SUFFICES ASSUME NEW c \in Clients
               PROVE  Pending(c)' = IF c \in Ideal!Subscribers
                        THEN Append(Pending(c), published') ELSE Pending(c)
    OBVIOUS
  <2>1. toClient[c] \in Seq(Nat) /\ published' \in Nat
    BY <1>1
  <2>2. Pending(c) = toClient[c]
    BY <1>1, <2>1, ConcatEmptySeq DEF Pending
  <2>3. c \in Ideal!Subscribers <=> c \in todo'
    BY <1>1 DEF Ideal!Subscribers
  <2>4. Append(toClient[c], published') = toClient[c] \o <<published'>>
    BY <2>1, AppendIsConcat
  <2>5. QED
    BY <1>1, <2>1, <2>2, <2>3, <2>4, ConcatEmptySeq DEF Pending
<1>3. UNCHANGED <<topics, printed>> /\ \A d \in Clients : Underway(d)' = Underway(d)
  BY DEF Publish, Underway, clients
<1>4. QED
  BY <1>1, <1>2, <1>3 DEF Ideal!Publish, Underway, Pending

\* A send only moves the notification from the loop into the connection.
LEMMA SendStutters ==
  ASSUME BackpressureInv, Send
  PROVE  UNCHANGED Ideal!vars
<1> USE DEF BackpressureInv, TypeOK
<1>1. /\ target \in todo /\ target \in Clients /\ todo' = todo \ {target}
      /\ published' = published
      /\ toClient' = [toClient EXCEPT ![target] = Append(@, published)]
  BY BackpressureAssumption DEF Send, Reaches
<1>2. \A d \in Clients : Pending(d)' = Pending(d)
  <2>1. ASSUME NEW d \in Clients PROVE Pending(d)' = Pending(d)
    <3>1. CASE d = target
      <4>1. toClient[d] \in Seq(Nat) /\ Append(toClient[d], published) \in Seq(Nat)
        BY AppendProperties
      <4>2. Append(toClient[d], published) = toClient[d] \o <<published>>
        BY <4>1, AppendIsConcat
      <4>3. Pending(d)' = Append(toClient[d], published) \o <<>>
        BY <1>1, <3>1 DEF Pending
      <4>4. QED
        BY <1>1, <3>1, <4>1, <4>2, <4>3, ConcatEmptySeq DEF Pending
    <3>2. CASE d # target
      BY <1>1, <3>2 DEF Pending
    <3>3. QED
      BY <3>1, <3>2
  <2>2. QED
    BY <2>1
<1>3. UNCHANGED <<topics, printed>> /\ \A d \in Clients : Underway(d)' = Underway(d)
  BY DEF Send, Underway, clients
<1>4. QED
  BY <1>1, <1>2, <1>3 DEF Ideal!vars, Underway, Pending

LEMMA FanoutStep == BackpressureInv /\ [Next]_vars => [Ideal!Next]_Ideal!vars
<1> SUFFICES ASSUME BackpressureInv, [Next]_vars PROVE [Ideal!Next]_Ideal!vars
  OBVIOUS
<1>1. CASE Publish
  BY <1>1, PublishSimulates DEF Ideal!Next
<1>2. CASE Send
  BY <1>2, SendStutters
<1>3. ASSUME NEW c \in Clients,
             Type(c) \/ FinishLine(c) \/ ReadCommand(c) \/ SendCommand(c) \/ ReceiveNotification(c) \/ Handle(c)
      PROVE  [Ideal!Next]_Ideal!vars
  BY <1>3, TypeSimulates, MovingStutters, PrintSimulates, HandleSimulates DEF Ideal!Next
<1>4. CASE UNCHANGED vars
  BY <1>4 DEF vars, server, clients, Ideal!vars
<1>5. QED
  BY <1>1, <1>2, <1>3, <1>4 DEF Next

\* Whatever blocks, for however long: what the clients and the users see is
\* what unbounded queues and a server that serves everybody at once would
\* show them.
THEOREM FanoutImplemented == Spec => ImplementsFanout
BY FanoutInit, FanoutStep, BackpressureAlways, PTL DEF Spec, ImplementsFanout, Ideal!Spec

=============================================================================
