--------------------------- MODULE FramingProofs ---------------------------
(***************************************************************************)
(* Theorems about Framing for every width of a length, every set of sizes, *)
(* every capacity and any number of messages.                              *)
(***************************************************************************)
EXTENDS Framing, SequenceTheorems, TLAPS

(* Whatever is cut, a byte names a message that was sent, and no byte of a *)
(* body is read before the length is.                                      *)
BytesKnown == \A i \in DOMAIN stream : stream[i].msg <= Current
BodyAfterLength == got < LenBytes => body = <<>>

-----------------------------------------------------------------------------
(* While no length was cut, the stream is what lies between the reader's   *)
(* place and the writer's.                                                 *)

Whole(m) == LenBytes + sent[m]

\* The message the reader is in, and how many of its bytes it has.
InMsg == Len(received) + 1
Has == got + Len(body)

\* Each byte is of a message that was sent and lies inside it.
BytesInside ==
  \A i \in DOMAIN stream :
    /\ stream[i].msg \in 1..Current
    /\ stream[i].pos <= Whole(stream[i].msg)

\* n places after the place `pos' of message m comes byte b, as far as the
\* frame of m and the first byte of the next one say.
Leads(m, pos, n, b) ==
  /\ pos + n <= Whole(m) => b.msg = m /\ b.pos = pos + n
  /\ pos + n = Whole(m) + 1 => b.msg = m + 1 /\ b.pos = 1

\* n places after the place `pos' of message m the writer stands.
ReachesWriter(m, pos, n) ==
  /\ pos + n < Whole(m) => m = Current /\ written = pos + n
  /\ pos + n = Whole(m) => \/ m = Current /\ written = Whole(m)
                           \/ m + 1 = Current /\ written = 0

Contiguous ==
  \A i, j \in DOMAIN stream :
    i <= j => Leads(stream[i].msg, stream[i].pos, j - i, stream[j])

UpToWriter ==
  sender # "reset" =>
    \A i \in DOMAIN stream :
      ReachesWriter(stream[i].msg, stream[i].pos, Len(stream) - i)

\* The stream goes on where the reader is ...
FromReader ==
  InMsg <= Current => \A j \in DOMAIN stream : Leads(InMsg, Has, j, stream[j])

\* ... and the reader is never past the writer.
ReaderBehind ==
  /\ InMsg <= Current + 1
  /\ InMsg <= Current /\ sender # "reset" =>
       ReachesWriter(InMsg, Has, Len(stream))
  /\ InMsg = Current + 1 =>
       stream = <<>> /\ got = 0 /\ (sender # "reset" => ~Busy)

\* What the reader has of its message is that message's.
BodyRight ==
  /\ got \in {0, LenBytes}
  /\ got = 0 => body = <<>> /\ size = 0
  /\ got = LenBytes => /\ InMsg <= Current
                       /\ size = sent[InMsg] /\ Len(body) < size
                       /\ \A j \in DOMAIN body :
                            body[j].msg = InMsg /\ body[j].pos = LenBytes + j

ReceivedRight ==
  \A i \in DOMAIN received : i <= Current /\ received[i] = Body(i)

\* Writing stops inside a body or between two frames only.
WrittenWhole == written = 0 \/ written >= LenBytes

EndSeen == receiver = "closed" => stream = <<>> /\ sender # "open"

StreamInv ==
  /\ BytesInside /\ Contiguous /\ UpToWriter /\ FromReader /\ ReaderBehind
  /\ BodyRight /\ ReceivedRight /\ WrittenWhole /\ EndSeen

FramingInv == ~split => StreamInv

-----------------------------------------------------------------------------
(* What a read takes off the stream and a write puts on it.                *)

LEMMA TakenRest ==
  ASSUME NEW s \in Seq(Byte), NEW k \in 1..Len(s)
  PROVE  /\ SubSeq(s, 1, k) \in Seq(Byte) /\ Len(SubSeq(s, 1, k)) = k
         /\ \A i \in 1..k : SubSeq(s, 1, k)[i] = s[i]
         /\ SubSeq(s, k + 1, Len(s)) \in Seq(Byte)
         /\ Len(SubSeq(s, k + 1, Len(s))) = Len(s) - k
         /\ \A i \in 1..(Len(s) - k) : SubSeq(s, k + 1, Len(s))[i] = s[k + i]
<1> DEFINE n == Len(s)
<1>1. n \in Nat /\ k \in Int /\ n \in Int /\ 1 \in Int /\ k + 1 \in Int
  BY LenProperties
<1>2. \A i \in 1..n : s[i] \in Byte
  BY ElementOfSeq
<1> HIDE DEF n
<1>3. (\A i \in 1..k : s[i] \in Byte) /\ (\A i \in (k + 1)..n : s[i] \in Byte)
  BY <1>1, <1>2 DEF n
<1>4. /\ SubSeq(s, 1, k) \in Seq(Byte)
      /\ Len(SubSeq(s, 1, k)) = IF 1 <= k THEN k - 1 + 1 ELSE 0
      /\ \A i \in 1..(k - 1 + 1) : SubSeq(s, 1, k)[i] = s[1 + i - 1]
  BY <1>1, <1>3, SubSeqProperties
<1>5. /\ SubSeq(s, k + 1, n) \in Seq(Byte)
      /\ Len(SubSeq(s, k + 1, n)) = IF k + 1 <= n THEN n - (k + 1) + 1 ELSE 0
      /\ \A i \in 1..(n - (k + 1) + 1) : SubSeq(s, k + 1, n)[i] = s[(k + 1) + i - 1]
  BY <1>1, <1>3, SubSeqProperties
<1>6. k <= n
  BY <1>1 DEF n
<1>7. /\ Len(SubSeq(s, 1, k)) = k
      /\ \A i \in 1..k : SubSeq(s, 1, k)[i] = s[i]
  <2>1. k - 1 + 1 = k /\ \A i \in 1..k : 1 + i - 1 = i
    OBVIOUS
  <2>2. QED
    BY <1>4, <2>1
<1>8. /\ Len(SubSeq(s, k + 1, n)) = n - k
      /\ \A i \in 1..(n - k) : SubSeq(s, k + 1, n)[i] = s[k + i]
  <2>1. /\ n - (k + 1) + 1 = n - k
        /\ \A i \in 1..(n - k) : (k + 1) + i - 1 = k + i
        /\ ~(k + 1 <= n) => n - k = 0
    BY <1>1, <1>6
  <2>2. QED
    BY <1>5, <2>1
<1>9. QED
  BY <1>4, <1>5, <1>7, <1>8 DEF n

LEMMA PrefixIs ==
  ASSUME NEW s \in Seq(Byte), NEW n \in 0..Len(s)
  PROVE  /\ SubSeq(s, 1, n) \in Seq(Byte) /\ Len(SubSeq(s, 1, n)) = n
         /\ \A i \in 1..n : SubSeq(s, 1, n)[i] = s[i]
<1>1. CASE n = 0
  BY <1>1, SubSeqEmpty, EmptySeq
<1>2. CASE n # 0
  BY <1>2, LenProperties, TakenRest
<1>3. QED
  BY <1>1, <1>2

LEMMA TakenIn == \A i \in 1..Len(stream) :
  stream \in Seq(Byte) => stream[i].msg \in 0..MaxMessages
<1>1. \A b \in Byte : b.msg \in 0..MaxMessages
  BY DEF Byte
<1>2. QED
  BY <1>1, ElementOfSeq

LEMMA CurrentIs ==
  ASSUME TypeOK, Busy
  PROVE  Current \in 1..MaxMessages /\ sent[Current] \in 1..MaxSize
<1>1. Len(sent) \in Nat /\ Len(sent) # 0 /\ Len(sent) <= MaxMessages
  BY EmptySeq DEF TypeOK, Busy
<1>2. sent[Len(sent)] \in Sizes
  BY <1>1, ElementOfSeq DEF TypeOK
<1>3. Sizes \subseteq 1..MaxSize /\ MaxMessages \in Nat
  BY FramingAssumption
<1>4. Len(sent) \in 1..MaxMessages
  BY <1>1, <1>3
<1>5. sent[Len(sent)] \in 1..MaxSize
  BY <1>2, <1>3
<1>6. QED
  BY <1>4, <1>5 DEF Current

LEMMA ChunkIs ==
  ASSUME TypeOK, Busy, NEW k \in Nat, written + k <= Whole(Current)
  PROVE  /\ Chunk(k) \in Seq(Byte) /\ Len(Chunk(k)) = k
         /\ \A t \in 1..k : Chunk(k)[t].pos = written + t /\ Chunk(k)[t].msg <= Current
         /\ written \notin 1..(LenBytes - 1) =>
              \A t \in 1..k : Chunk(k)[t].msg = Current
<1>1. Current \in 1..MaxMessages /\ sent[Current] \in 1..MaxSize
  BY CurrentIs
<1>2. \A t \in 1..k : written + t \in 1..(LenBytes + MaxSize)
  BY <1>1, FramingAssumption DEF TypeOK, Whole
<1>3. \A t \in 1..k :
        /\ [msg |-> IF written \in 1..(LenBytes - 1) THEN 0 ELSE Current,
            pos |-> written + t] \in Byte
  BY <1>1, <1>2, FramingAssumption DEF Byte
<1>4. Chunk(k) \in Seq(Byte) /\ Len(Chunk(k)) = k
  BY <1>3 DEF Chunk
<1>5. \A t \in 1..k : /\ Chunk(k)[t].pos = written + t
                      /\ Chunk(k)[t].msg <= Current
                      /\ written \notin 1..(LenBytes - 1) => Chunk(k)[t].msg = Current
  BY <1>1 DEF Chunk
<1>6. QED
  BY <1>4, <1>5

LEMMA ChunkFits ==
  ASSUME TypeOK, NEW k \in Nat, Write(k)
  PROVE  /\ Whole(Current) \in Nat
         /\ written + k <= Whole(Current) /\ written + k \in 0..(LenBytes + MaxSize)
<1>1. Busy
  BY DEF Write
<1>2. sent[Current] \in 1..MaxSize
  BY <1>1, CurrentIs
<1>3. LenBytes \in Nat /\ MaxSize \in Nat
  BY FramingAssumption
<1>4. written \in 0..(LenBytes + MaxSize)
  BY DEF TypeOK
<1>5. written < LenBytes => k <= LenBytes - written
  BY DEF Write
<1>6. ~(written < LenBytes) => k <= LenBytes + sent[Current] - written
  BY DEF Write
<1> DEFINE x == sent[Current]
<1> HIDE DEF x
<1>7. x \in 1..MaxSize /\ (~(written < LenBytes) => k <= LenBytes + x - written)
  BY <1>2, <1>6 DEF x
<1>8. written + k <= LenBytes + x /\ LenBytes + x \in Nat
  BY <1>3, <1>4, <1>5, <1>7
<1>9. written + k \in 0..(LenBytes + MaxSize)
  BY <1>3, <1>4, <1>7, <1>8
<1>10. QED
  BY <1>8, <1>9 DEF Whole, x

-----------------------------------------------------------------------------
LEMMA TypeStep ==
  TypeOK /\ BytesKnown /\ BodyAfterLength /\ [Next]_vars => TypeOK' /\ BytesKnown'
<1> SUFFICES ASSUME TypeOK, BytesKnown, BodyAfterLength, [Next]_vars
             PROVE  TypeOK' /\ BytesKnown'
  OBVIOUS
<1>0. /\ LenBytes \in Nat \ {0} /\ MaxSize \in Nat /\ Sizes \subseteq 1..MaxSize
      /\ MaxMessages \in Nat /\ Capacity \in Nat
  BY FramingAssumption
<1>1. ASSUME NEW n \in Sizes, SendMessage(n) PROVE TypeOK' /\ BytesKnown'
  <2>1. sent' = Append(sent, n) /\ Len(sent) < MaxMessages
    BY <1>1 DEF SendMessage, Current
  <2>2. sent' \in Seq(Sizes) /\ Len(sent') = Len(sent) + 1 /\ Len(sent) \in Nat
    BY <2>1, AppendProperties DEF TypeOK
  <2>3. TypeOK'
    BY <1>0, <1>1, <2>1, <2>2 DEF TypeOK, SendMessage, Byte
  <2>4. BytesKnown'
    <3>1. \A i \in DOMAIN stream : stream[i].msg \in Int
      <4>1. \A i \in DOMAIN stream : stream[i] \in Byte
        BY ElementOfSeq, LenProperties DEF TypeOK
      <4>2. \A b \in Byte : b.msg \in Int
        BY DEF Byte
      <4>3. QED
        BY <4>1, <4>2
    <3>2. QED
      BY <1>1, <2>2, <3>1 DEF BytesKnown, Current, SendMessage
  <2>5. QED
    BY <2>3, <2>4
<1>2. ASSUME NEW k \in 1..Capacity, Write(k) PROVE TypeOK' /\ BytesKnown'
  <2>1. Busy /\ k \in Nat /\ k >= 1
    BY <1>0, <1>2 DEF Write
  <2>2. Current \in 1..MaxMessages /\ sent[Current] \in 1..MaxSize
    BY <2>1, CurrentIs
  <2>3. written + k <= Whole(Current) /\ written + k \in 0..(LenBytes + MaxSize)
    BY <1>2, <2>1, ChunkFits
  <2>4. /\ Chunk(k) \in Seq(Byte) /\ Len(Chunk(k)) = k
        /\ \A t \in 1..k : Chunk(k)[t].msg <= Current
    BY <2>1, <2>3, ChunkIs
  <2>5. stream' = stream \o Chunk(k) /\ Len(stream) + k <= Capacity
    BY <1>2 DEF Write
  <2>6. /\ stream' \in Seq(Byte) /\ Len(stream') = Len(stream) + k /\ Len(stream) \in Nat
        /\ \A i \in 1..(Len(stream) + k) :
             stream'[i] = IF i <= Len(stream) THEN stream[i] ELSE Chunk(k)[i - Len(stream)]
    BY <2>4, <2>5, ConcatProperties, LenProperties DEF TypeOK
  <2>7. BytesKnown'
    <3>1. ASSUME NEW i \in DOMAIN stream' PROVE stream'[i].msg <= Current
      <4>1. i \in 1..(Len(stream) + k)
        BY <2>6, LenProperties
      <4>2. CASE i <= Len(stream)
        <5>1. i \in DOMAIN stream
          BY <4>1, <4>2, LenProperties DEF TypeOK
        <5>2. QED
          BY <2>6, <4>1, <4>2, <5>1 DEF BytesKnown
      <4>3. CASE ~(i <= Len(stream))
        <5>1. i - Len(stream) \in 1..k
          BY <2>1, <2>6, <4>1, <4>3
        <5>2. QED
          BY <2>4, <2>6, <4>1, <4>3, <5>1
      <4>4. QED
        BY <4>2, <4>3
    <3>2. Current' = Current
      BY <1>2 DEF Write, Current
    <3>3. QED
      BY <3>1, <3>2 DEF BytesKnown
  <2>8. TypeOK'
    BY <1>0, <1>2, <2>3, <2>5, <2>6 DEF TypeOK, Write
  <2>9. QED
    BY <2>7, <2>8
<1>3. CASE Stop
  <2>1. PICK n \in 0..Len(stream) : stream' = stream \/ stream' = SubSeq(stream, 1, n)
    BY <1>3, LenProperties DEF Stop, TypeOK
  <2>2. CASE stream' = stream
    BY <1>0, <1>3, <2>2 DEF Stop, TypeOK, BytesKnown, Current
  <2>3. CASE stream' = SubSeq(stream, 1, n)
    <3>1. /\ stream' \in Seq(Byte) /\ Len(stream') = n
          /\ \A i \in 1..n : stream'[i] = stream[i]
      BY <2>1, <2>3, PrefixIs DEF TypeOK
    <3>2. DOMAIN stream' = 1..n /\ DOMAIN stream = 1..Len(stream) /\ Len(stream) \in Nat
      BY <3>1, LenProperties DEF TypeOK
    <3>3. BytesKnown'
      BY <1>3, <3>1, <3>2 DEF Stop, BytesKnown, Current
    <3>4. TypeOK'
      BY <1>0, <1>3, <3>1, <3>2 DEF Stop, TypeOK
    <3>5. QED
      BY <3>3, <3>4
  <2>4. QED
    BY <2>1, <2>2, <2>3
<1>4. ASSUME NEW k \in 1..Capacity, ReadLength(k) \/ ReadBody(k)
      PROVE  TypeOK' /\ BytesKnown'
  <2>1. k \in 1..Len(stream) /\ stream \in Seq(Byte) /\ stream' = Rest(k)
    BY <1>0, <1>4, LenProperties DEF ReadLength, ReadBody, TypeOK
  <2>2. /\ Taken(k) \in Seq(Byte) /\ Len(Taken(k)) = k
        /\ \A i \in 1..k : Taken(k)[i] = stream[i]
        /\ stream' \in Seq(Byte) /\ Len(stream') = Len(stream) - k
        /\ \A i \in 1..(Len(stream) - k) : stream'[i] = stream[k + i]
    BY <2>1, TakenRest DEF Taken, Rest
  <2>3. /\ DOMAIN stream' = 1..(Len(stream) - k) /\ DOMAIN stream = 1..Len(stream)
        /\ Len(stream) \in Nat /\ Len(stream) <= Capacity
    BY <2>1, <2>2, LenProperties DEF TypeOK
  <2>4. BytesKnown'
    <3>1. sent' = sent
      BY <1>4 DEF ReadLength, ReadBody
    <3>2. \A i \in 1..(Len(stream) - k) : k + i \in 1..Len(stream)
      BY <2>1, <2>3
    <3>3. QED
      BY <2>2, <2>3, <3>1, <3>2 DEF BytesKnown, Current
  <2>5. CASE ReadLength(k)
    <3>1. got' \in 0..LenBytes
      BY <1>0, <2>5 DEF ReadLength, TypeOK
    <3>2. size' \in 0..MaxSize
      <4>1. CASE ~(got' < LenBytes) /\ IsLength(Taken(k))
        <5>1. k = LenBytes
          BY <2>2, <4>1 DEF IsLength
        <5>2. Taken(k)[1] = stream[1] /\ 1 \in DOMAIN stream
          BY <2>1, <2>2, <2>3
        <5>3. stream[1].msg \in 0..MaxMessages /\ stream[1].msg <= Current
          BY <2>1, <5>2, TakenIn DEF BytesKnown
        <5>4. stream[1].msg # 0
          BY <4>1, <5>2 DEF IsLength
        <5>5. Len(sent) \in Nat /\ stream[1].msg \in 1..Len(sent)
          BY <1>0, <5>3, <5>4, LenProperties DEF Current, TypeOK
        <5>6. sent[stream[1].msg] \in Sizes
          BY <5>5, ElementOfSeq DEF TypeOK
        <5>7. size' = sent[stream[1].msg]
          BY <2>5, <4>1, <5>2 DEF ReadLength, Lengths
        <5>8. \A n \in Sizes : n \in 0..MaxSize
          BY <1>0
        <5>9. QED
          BY <5>6, <5>7, <5>8
      <4>2. CASE got' < LenBytes \/ ~IsLength(Taken(k))
        BY <2>5, <4>2 DEF ReadLength, Lengths, TypeOK
      <4>3. QED
        BY <4>1, <4>2
    <3>3. receiver' \in {"open", "closed", "dead"} /\ split' \in BOOLEAN
      BY <2>5 DEF ReadLength, TypeOK
    <3>4. body' = body /\ body = <<>> /\ Len(<<>>) = 0
      BY <2>5, EmptySeq DEF ReadLength, BodyAfterLength
    <3>5. TypeOK'
      BY <1>0, <2>2, <2>3, <2>5, <3>1, <3>2, <3>3, <3>4 DEF ReadLength, TypeOK
    <3>6. QED
      BY <2>4, <3>5
  <2>6. CASE ReadBody(k)
    <3>1. body \in Seq(Byte) /\ Len(body) \in Nat /\ size \in Nat /\ k <= size - Len(body)
      BY <2>6, LenProperties DEF ReadBody, TypeOK, Left
    <3>2. body \o Taken(k) \in Seq(Byte) /\ Len(body \o Taken(k)) = Len(body) + k
      BY <2>2, <3>1, ConcatProperties
    <3>3. CASE k = Left
      <4>1. received' = Append(received, body \o Taken(k)) /\ body' = <<>> /\ got' = 0 /\ size' = 0
        BY <2>6, <3>3 DEF ReadBody
      <4>2. received' \in Seq(Seq(Byte)) /\ <<>> \in Seq(Byte) /\ Len(<<>>) = 0
        BY <3>2, <4>1, AppendProperties, EmptySeq DEF TypeOK
      <4>3. TypeOK'
        BY <1>0, <2>2, <2>3, <2>6, <4>1, <4>2 DEF ReadBody, TypeOK
      <4>4. QED
        BY <2>4, <4>3
    <3>4. CASE k # Left
      <4>1. body' = body \o Taken(k) /\ UNCHANGED <<received, got, size>>
        BY <2>6, <3>4 DEF ReadBody
      <4>2. TypeOK'
        BY <1>0, <2>2, <2>3, <2>6, <3>1, <3>2, <4>1 DEF ReadBody, TypeOK
      <4>3. QED
        BY <2>4, <4>2
    <3>5. QED
      BY <3>3, <3>4
  <2>7. QED
    BY <1>4, <2>5, <2>6
<1>5. CASE ReadEnd
  BY <1>0, <1>5 DEF ReadEnd, TypeOK, BytesKnown, Current
<1>6. CASE UNCHANGED vars
  BY <1>6 DEF vars, TypeOK, BytesKnown, Current
<1>7. QED
  BY <1>1, <1>2, <1>3, <1>4, <1>5, <1>6 DEF Next, Step

LEMMA BodyLater ==
  TypeOK /\ BodyAfterLength /\ [Next]_vars => BodyAfterLength'
<1> SUFFICES ASSUME TypeOK, BodyAfterLength, [Next]_vars PROVE BodyAfterLength'
  OBVIOUS
<1>1. ASSUME NEW k \in 1..Capacity, ReadBody(k) PROVE BodyAfterLength'
  BY <1>1, FramingAssumption DEF ReadBody, Reading, BodyAfterLength
<1>2. ASSUME NEW k \in 1..Capacity, ReadLength(k) PROVE BodyAfterLength'
  BY <1>2 DEF ReadLength, BodyAfterLength
<1>3. CASE UNCHANGED <<got, body>>
  BY <1>3 DEF BodyAfterLength
<1>4. QED
  BY <1>1, <1>2, <1>3 DEF Next, Step, SendMessage, Write, Stop, ReadEnd, vars

LEMMA Typing == Spec => [](TypeOK /\ BytesKnown /\ BodyAfterLength)
<1>1. Init => TypeOK /\ BytesKnown /\ BodyAfterLength
  <2> SUFFICES ASSUME Init PROVE TypeOK /\ BytesKnown /\ BodyAfterLength
    OBVIOUS
  <2>1. /\ <<>> \in Seq(Sizes) /\ <<>> \in Seq(Byte) /\ <<>> \in Seq(Seq(Byte))
        /\ Len(<<>>) = 0
    BY EmptySeq
  <2>2. BytesKnown /\ BodyAfterLength
    BY DEF Init, BytesKnown, BodyAfterLength
  <2>3. /\ 0 \in 0..(LenBytes + MaxSize) /\ 0 \in 0..LenBytes /\ 0 \in 0..MaxSize
        /\ 0 <= MaxMessages /\ 0 <= Capacity
    BY FramingAssumption
  <2>4. TypeOK
    <3>1. /\ sent \in Seq(Sizes) /\ stream \in Seq(Byte) /\ body \in Seq(Byte)
          /\ received \in Seq(Seq(Byte))
      BY <2>1 DEF Init
    <3>2. Len(sent) = 0 /\ Len(stream) = 0 /\ Len(body) = 0
      BY <2>1 DEF Init
    <3>3. split \in BOOLEAN
      BY DEF Init
    <3>4. /\ written = 0 /\ got = 0 /\ size = 0
          /\ sender = "open" /\ receiver = "open"
      BY DEF Init
    <3>5. QED
      BY <2>3, <3>1, <3>2, <3>3, <3>4 DEF TypeOK
  <2>5. QED
    BY <2>2, <2>4
<1>2. QED
  BY <1>1, TypeStep, BodyLater, PTL DEF Spec

\* Whatever is cut and whatever an indeterminate length holds, every variable
\* keeps its type: no more than Capacity bytes are in flight, and no more of a
\* message is read than its length says.
THEOREM TypeCorrect == Spec => []TypeOK
BY Typing, PTL

-----------------------------------------------------------------------------
(* The types the arithmetic on places rests on.                            *)
StreamTypes ==
  /\ Len(stream) \in Nat /\ DOMAIN stream = 1..Len(stream)
  /\ \A i \in 1..Len(stream) :
       stream[i] \in Byte /\ stream[i].msg \in Nat /\ stream[i].pos \in Nat \ {0}
  /\ Current \in Nat /\ LenBytes \in Nat \ {0}
  /\ \A m \in 1..Current : sent[m] \in Nat \ {0} /\ Whole(m) \in Nat
  /\ Len(received) \in Nat /\ DOMAIN received = 1..Len(received)
  /\ written \in Nat /\ got \in Nat /\ size \in Nat
  /\ body \in Seq(Byte) /\ Len(body) \in Nat /\ DOMAIN body = 1..Len(body)
  /\ Busy <=> Current # 0 /\ written < Whole(Current)

LEMMA Types == TypeOK => StreamTypes
<1> SUFFICES ASSUME TypeOK PROVE StreamTypes
  OBVIOUS
<1>1. stream \in Seq(Byte) /\ sent \in Seq(Sizes) /\ body \in Seq(Byte)
      /\ received \in Seq(Seq(Byte))
  BY DEF TypeOK
<1>2. /\ Len(stream) \in Nat /\ DOMAIN stream = 1..Len(stream)
      /\ Len(body) \in Nat /\ DOMAIN body = 1..Len(body)
      /\ Len(received) \in Nat /\ DOMAIN received = 1..Len(received)
      /\ Len(sent) \in Nat
  BY <1>1, LenProperties
<1>3. LenBytes \in Nat \ {0} /\ MaxSize \in Nat /\ MaxMessages \in Nat
      /\ Sizes \subseteq 1..MaxSize
  BY FramingAssumption
<1>4. \A i \in 1..Len(stream) : stream[i] \in Byte
  BY <1>1, ElementOfSeq
<1>5. \A b \in Byte : b.msg \in Nat /\ b.pos \in Nat \ {0}
  BY <1>3 DEF Byte
<1>6. Current \in Nat /\ \A m \in 1..Current : sent[m] \in Nat \ {0} /\ Whole(m) \in Nat
  <2>1. \A m \in 1..Len(sent) : sent[m] \in Sizes
    BY <1>1, ElementOfSeq
  <2>2. \A x \in Sizes : x \in Nat \ {0} /\ LenBytes + x \in Nat
    BY <1>3
  <2>3. QED
    BY <1>2, <2>1, <2>2 DEF Current, Whole
<1>7. written \in Nat /\ got \in Nat /\ size \in Nat
  BY <1>3 DEF TypeOK
<1>8. Busy <=> Current # 0 /\ written < Whole(Current)
  <2>1. sent = <<>> <=> Len(sent) = 0
    BY <1>1, EmptySeq
  <2>2. QED
    BY <2>1 DEF Busy, Current, Whole
<1>9. QED
  BY <1>1, <1>2, <1>3, <1>4, <1>5, <1>6, <1>7, <1>8 DEF StreamTypes

LEMMA TypesNext == TypeOK' => StreamTypes'
BY Types, PTL

-----------------------------------------------------------------------------
(* Writing.                                                                *)

LEMMA ReachThenLead ==
  ASSUME StreamTypes, NEW m \in 1..Current, NEW p \in Nat, NEW d \in Nat,
         ReachesWriter(m, p, d), NEW t \in Nat \ {0}, NEW b,
         written + t <= Whole(Current), b.msg = Current, b.pos = written + t
  PROVE  Leads(m, p, d + t, b)
<1>1. /\ Whole(m) \in Nat /\ Whole(Current) \in Nat /\ Current \in Nat
      /\ written \in Nat
  BY DEF StreamTypes
<1>2. p + (d + t) <= Whole(m) => b.msg = m /\ b.pos = p + (d + t)
  BY <1>1 DEF ReachesWriter
<1>3. p + (d + t) = Whole(m) + 1 => b.msg = m + 1 /\ b.pos = 1
  <2>1. SUFFICES ASSUME p + (d + t) = Whole(m) + 1
                 PROVE  b.msg = m + 1 /\ b.pos = 1
    OBVIOUS
  <2>2. CASE p + d = Whole(m)
    <3>1. t = 1
      BY <1>1, <2>1, <2>2
    <3>2. m + 1 = Current /\ written = 0
      BY <1>1, <2>2, <3>1 DEF ReachesWriter
    <3>3. QED
      BY <3>1, <3>2
  <2>3. CASE p + d # Whole(m)
    <3>1. p + d < Whole(m)
      BY <1>1, <2>1, <2>3
    <3>2. m = Current /\ written = p + d
      BY <3>1 DEF ReachesWriter
    <3>3. QED
      BY <1>1, <2>1, <3>2
  <2>4. QED
    BY <2>2, <2>3
<1>4. QED
  BY <1>2, <1>3 DEF Leads

LEMMA ReachFurther ==
  ASSUME StreamTypes, NEW m \in 1..Current, NEW p \in Nat, NEW d \in Nat,
         ReachesWriter(m, p, d), NEW k \in Nat \ {0},
         written + k <= Whole(Current), written' = written + k, sent' = sent
  PROVE  /\ p + (d + k) < Whole(m) => m = Current /\ written' = p + (d + k)
         /\ p + (d + k) = Whole(m) => m = Current /\ written' = Whole(m)
<1>1. /\ Whole(m) \in Nat /\ Whole(Current) \in Nat /\ Current \in Nat
      /\ written \in Nat
  BY DEF StreamTypes
<1>2. p + (d + k) <= Whole(m) => m = Current /\ written = p + d
  BY <1>1 DEF ReachesWriter
<1>3. QED
  BY <1>1, <1>2

LEMMA WriteStep ==
  ASSUME TypeOK, StreamInv, NEW k \in 1..Capacity, Write(k), ~split'
  PROVE  StreamInv'
<1> DEFINE n == Len(stream)
<1>1. StreamTypes
  BY Types
<1>2. Busy /\ k \in Nat \ {0} /\ Current \in Nat \ {0} /\ n \in Nat /\ written \in Nat
      /\ LenBytes \in Nat \ {0} /\ Whole(Current) \in Nat
  <2>1. Busy /\ k \in Nat \ {0}
    BY FramingAssumption DEF Write
  <2>2. QED
    BY <1>1, <2>1 DEF StreamTypes
<1>3. written + k <= Whole(Current)
  BY <1>2, ChunkFits
<1>4. /\ sent' = sent /\ Current' = Current /\ written' = written + k
      /\ UNCHANGED <<sender, receiver, got, size, body, received>>
      /\ sender = "open"
  BY DEF Write, Current
<1>5. written = 0 => k = LenBytes
  <2>1. ~(written < LenBytes /\ k < LenBytes)
    BY DEF Write
  <2>2. written < LenBytes => k <= LenBytes - written
    BY DEF Write
  <2>3. QED
    BY <1>2, <2>1, <2>2
<1>6. /\ Chunk(k) \in Seq(Byte) /\ Len(Chunk(k)) = k
      /\ \A t \in 1..k : Chunk(k)[t].pos = written + t /\ Chunk(k)[t].msg = Current
  <2>1. written \notin 1..(LenBytes - 1)
    BY <1>2 DEF StreamInv, WrittenWhole
  <2>2. QED
    BY <1>2, <1>3, <2>1, ChunkIs
<1>7. /\ Len(stream') = n + k /\ DOMAIN stream' = 1..(n + k)
      /\ \A i \in 1..n : stream'[i] = stream[i]
      /\ \A t \in 1..k : stream'[n + t].pos = written + t /\ stream'[n + t].msg = Current
  <2>1. stream' = stream \o Chunk(k) /\ stream \in Seq(Byte)
    BY DEF Write, TypeOK
  <2>2. /\ stream' \in Seq(Byte) /\ Len(stream') = Len(stream) + Len(Chunk(k))
        /\ \A i \in 1..(Len(stream) + Len(Chunk(k))) :
             stream'[i] = IF i <= Len(stream) THEN stream[i] ELSE Chunk(k)[i - Len(stream)]
    BY <1>6, <2>1, ConcatProperties
  <2>3. /\ Len(stream') = n + k /\ DOMAIN stream' = 1..(n + k)
        /\ \A i \in 1..(n + k) :
             stream'[i] = IF i <= n THEN stream[i] ELSE Chunk(k)[i - n]
    BY <1>6, <2>2, LenProperties
  <2> HIDE DEF n
  <2>4. /\ \A i \in 1..n : i \in 1..(n + k) /\ i <= n
        /\ \A t \in 1..k : n + t \in 1..(n + k) /\ ~(n + t <= n) /\ (n + t) - n = t
    BY <1>2
  <2>5. \A i \in 1..n : stream'[i] = stream[i]
    BY <2>3, <2>4
  <2>6. \A t \in 1..k : stream'[n + t] = Chunk(k)[t]
    BY <2>3, <2>4
  <2>7. QED
    BY <1>6, <2>3, <2>5, <2>6
<1> HIDE DEF n
<1>8. \A i \in 1..(n + k) : i \in 1..n \/ \E t \in 1..k : i = n + t
  <2>1. \A i \in 1..(n + k) : i \notin 1..n => i - n \in 1..k /\ i = n + (i - n)
    BY <1>2
  <2>2. QED
    BY <2>1
<1>9. \A i \in 1..n : /\ stream[i].msg \in 1..Current
                      /\ stream[i].pos \in Nat /\ n - i \in Nat
                      /\ ReachesWriter(stream[i].msg, stream[i].pos, n - i)
  <2>1. /\ DOMAIN stream = 1..n
        /\ \A i \in 1..n : stream[i].pos \in Nat /\ n - i \in Nat
    BY <1>1, <1>2 DEF StreamTypes, n
  <2>2. \A i \in 1..n : stream[i].msg \in 1..Current
    BY <2>1 DEF StreamInv, BytesInside
  <2>3. \A i \in 1..n : ReachesWriter(stream[i].msg, stream[i].pos, n - i)
    BY <1>4, <2>1 DEF StreamInv, UpToWriter, n
  <2>4. QED
    BY <2>1, <2>2, <2>3
<1>10. BytesInside'
  <2>1. \A i \in 1..n : stream[i].msg \in 1..Current /\ stream[i].pos <= Whole(stream[i].msg)
    BY <1>1 DEF StreamInv, BytesInside, StreamTypes, n
  <2>2. \A t \in 1..k : Current \in 1..Current /\ written + t <= Whole(Current)
    BY <1>2, <1>3
  <2>3. \A i \in 1..(n + k) :
          stream'[i].msg \in 1..Current /\ stream'[i].pos <= Whole(stream'[i].msg)
    BY <1>7, <1>8, <2>1, <2>2
  <2>4. QED
    BY <1>4, <1>7, <2>3 DEF BytesInside, Whole
<1>11. Contiguous'
  <2>1. ASSUME NEW i \in 1..(n + k), NEW j \in 1..(n + k), i <= j
        PROVE  Leads(stream'[i].msg, stream'[i].pos, j - i, stream'[j])
    <3>1. CASE j \in 1..n
      <4>1. i \in 1..n
        BY <1>2, <2>1, <3>1
      <4>2. Leads(stream[i].msg, stream[i].pos, j - i, stream[j])
        BY <1>1, <2>1, <3>1, <4>1 DEF StreamInv, Contiguous, StreamTypes, n
      <4>3. QED
        BY <1>7, <3>1, <4>1, <4>2
    <3>2. ASSUME NEW t \in 1..k, j = n + t, i \in 1..n
          PROVE  Leads(stream'[i].msg, stream'[i].pos, j - i, stream'[j])
      <4>1. written + t <= Whole(Current) /\ t \in Nat \ {0} /\ j - i = (n - i) + t
        BY <1>2, <1>3, <3>2
      <4>2. stream'[j].msg = Current /\ stream'[j].pos = written + t
        BY <1>7, <3>2
      <4>3. Leads(stream[i].msg, stream[i].pos, (n - i) + t, stream'[j])
        BY <1>1, <1>9, <3>2, <4>1, <4>2, ReachThenLead
      <4>4. QED
        BY <1>7, <3>2, <4>1, <4>3
    <3>3. ASSUME NEW t \in 1..k, j = n + t, NEW s \in 1..k, i = n + s
          PROVE  Leads(stream'[i].msg, stream'[i].pos, j - i, stream'[j])
      <4>1. /\ stream'[j].msg = Current /\ stream'[j].pos = written + t
            /\ stream'[i].msg = Current /\ stream'[i].pos = written + s
        BY <1>7, <3>3
      <4>2. (written + s) + (j - i) = written + t /\ written + t <= Whole(Current)
        BY <1>2, <1>3, <3>3
      <4>3. QED
        BY <1>2, <4>1, <4>2 DEF Leads
    <3>4. QED
      BY <1>8, <3>1, <3>2, <3>3
  <2>2. QED
    BY <1>4, <1>7, <2>1 DEF Contiguous, Leads, Whole
<1>12. UpToWriter'
  <2>1. \A m \in 1..Current, p, d \in Nat :
          ReachesWriter(m, p, d) =>
            /\ p + (d + k) < Whole(m) => m = Current /\ written' = p + (d + k)
            /\ p + (d + k) = Whole(m) => m = Current /\ written' = Whole(m)
    BY <1>1, <1>2, <1>3, <1>4, ReachFurther
  <2>2. ASSUME NEW i \in 1..(n + k)
        PROVE  /\ stream'[i].pos + ((n + k) - i) < Whole(stream'[i].msg) =>
                    stream'[i].msg = Current /\ written' = stream'[i].pos + ((n + k) - i)
               /\ stream'[i].pos + ((n + k) - i) = Whole(stream'[i].msg) =>
                    stream'[i].msg = Current /\ written' = Whole(stream'[i].msg)
    <3>1. CASE i \in 1..n
      <4>1. (n + k) - i = (n - i) + k
        BY <1>2, <3>1
      <4>2. /\ stream[i].pos + ((n - i) + k) < Whole(stream[i].msg) =>
                 stream[i].msg = Current /\ written' = stream[i].pos + ((n - i) + k)
            /\ stream[i].pos + ((n - i) + k) = Whole(stream[i].msg) =>
                 stream[i].msg = Current /\ written' = Whole(stream[i].msg)
        BY <1>9, <2>1, <3>1
      <4>3. QED
        BY <1>7, <3>1, <4>1, <4>2
    <3>2. ASSUME NEW t \in 1..k, i = n + t
          PROVE stream'[i].msg = Current /\ written' = stream'[i].pos + ((n + k) - i)
      BY <1>2, <1>4, <1>7, <3>2
    <3>3. QED
      BY <1>8, <3>1, <3>2
  <2>3. QED
    BY <1>4, <1>7, <2>2 DEF UpToWriter, ReachesWriter, Whole
<1>13. InMsg' = InMsg /\ Has' = Has /\ InMsg \in 1..Current /\ Has \in Nat
       /\ ReachesWriter(InMsg, Has, n)
  <2>1. InMsg \in Nat \ {0} /\ Has \in Nat
    BY <1>1 DEF StreamTypes, InMsg, Has
  <2>2. InMsg <= Current
    BY <1>2, <1>4, <2>1 DEF StreamInv, ReaderBehind
  <2>3. QED
    BY <1>2, <1>4, <2>1, <2>2 DEF StreamInv, ReaderBehind, InMsg, Has, n
<1>14. FromReader'
  <2>1. ASSUME NEW j \in 1..(n + k) PROVE Leads(InMsg, Has, j, stream'[j])
    <3>1. CASE j \in 1..n
      <4>1. j \in DOMAIN stream /\ InMsg <= Current
        BY <1>1, <1>2, <1>13, <3>1 DEF StreamTypes, n
      <4>2. Leads(InMsg, Has, j, stream[j])
        BY <4>1 DEF StreamInv, FromReader
      <4>3. QED
        BY <1>7, <3>1, <4>2
    <3>2. ASSUME NEW t \in 1..k, j = n + t PROVE Leads(InMsg, Has, j, stream'[j])
      <4>1. written + t <= Whole(Current) /\ t \in Nat \ {0}
        BY <1>2, <1>3, <3>2
      <4>2. stream'[j].msg = Current /\ stream'[j].pos = written + t
        BY <1>7, <3>2
      <4>3. QED
        BY <1>1, <1>2, <1>13, <3>2, <4>1, <4>2, ReachThenLead
    <3>3. QED
      BY <1>8, <3>1, <3>2
  <2>2. QED
    BY <1>4, <1>7, <1>13, <2>1 DEF FromReader, Leads, Whole
<1>15. ReaderBehind'
  <2>1. /\ Has + (n + k) < Whole(InMsg) => InMsg = Current /\ written' = Has + (n + k)
        /\ Has + (n + k) = Whole(InMsg) => InMsg = Current /\ written' = Whole(InMsg)
    BY <1>1, <1>2, <1>3, <1>4, <1>13, ReachFurther
  <2>2. InMsg \in 1..Current /\ Current \in Nat
    BY <1>2, <1>13
  <2>3. QED
    BY <1>4, <1>7, <1>13, <2>1, <2>2 DEF ReaderBehind, ReachesWriter, Whole
<1>16. WrittenWhole'
  BY <1>2, <1>4, <1>5 DEF StreamInv, WrittenWhole
<1>17. BodyRight' /\ ReceivedRight' /\ EndSeen'
  BY <1>4, <1>13 DEF StreamInv, BodyRight, ReceivedRight, EndSeen, Body, InMsg
<1>18. QED
  BY <1>10, <1>11, <1>12, <1>14, <1>15, <1>16, <1>17 DEF StreamInv

-----------------------------------------------------------------------------
(* Reading.                                                                *)

\* What is left of the stream once its first k bytes are read.
Shifted(k) ==
  /\ k \in 1..Len(stream) /\ UNCHANGED <<sent, written, sender>>
  /\ stream' \in Seq(Byte)
  /\ Len(stream') = Len(stream) - k /\ DOMAIN stream' = 1..(Len(stream) - k)
  /\ \A i \in 1..(Len(stream) - k) : stream'[i] = stream[k + i]

LEMMA ReadShifts ==
  ASSUME TypeOK, NEW k \in 1..Capacity, ReadLength(k) \/ ReadBody(k)
  PROVE  /\ Shifted(k)
         /\ Taken(k) \in Seq(Byte) /\ Len(Taken(k)) = k
         /\ \A i \in 1..k : Taken(k)[i] = stream[i]
<1>1. k \in 1..Len(stream) /\ stream \in Seq(Byte) /\ stream' = Rest(k)
  BY FramingAssumption, LenProperties DEF ReadLength, ReadBody, TypeOK
<1>2. /\ Taken(k) \in Seq(Byte) /\ Len(Taken(k)) = k
      /\ \A i \in 1..k : Taken(k)[i] = stream[i]
      /\ stream' \in Seq(Byte) /\ Len(stream') = Len(stream) - k
      /\ \A i \in 1..(Len(stream) - k) : stream'[i] = stream[k + i]
  BY <1>1, TakenRest DEF Taken, Rest
<1>3. DOMAIN stream' = 1..(Len(stream) - k)
  BY <1>2, LenProperties
<1>4. UNCHANGED <<sent, written, sender>>
  BY DEF ReadLength, ReadBody
<1>5. QED
  BY <1>1, <1>2, <1>3, <1>4 DEF Shifted

LEMMA ShiftKeeps ==
  ASSUME StreamTypes, StreamInv, NEW k, Shifted(k)
  PROVE  BytesInside' /\ Contiguous' /\ UpToWriter'
<1> DEFINE n == Len(stream)
<1>1. /\ n \in Nat /\ k \in 1..n /\ Len(stream') = n - k /\ DOMAIN stream' = 1..(n - k)
      /\ \A i \in 1..(n - k) : stream'[i] = stream[k + i]
      /\ sent' = sent /\ Current' = Current /\ written' = written /\ sender' = sender
  BY DEF Shifted, StreamTypes, Current
<1>2. \A i \in 1..n :
        /\ stream[i].msg \in 1..Current /\ stream[i].pos <= Whole(stream[i].msg)
        /\ sender # "reset" => ReachesWriter(stream[i].msg, stream[i].pos, n - i)
        /\ \A j \in 1..n :
             i <= j => Leads(stream[i].msg, stream[i].pos, j - i, stream[j])
  BY DEF StreamInv, BytesInside, UpToWriter, Contiguous, StreamTypes
<1> HIDE DEF n
<1>3. \A i \in 1..(n - k) : k + i \in 1..n
  BY <1>1
<1>4. BytesInside'
  <2>1. \A i \in 1..(n - k) :
          stream'[i].msg \in 1..Current /\ stream'[i].pos <= Whole(stream'[i].msg)
    BY <1>1, <1>2, <1>3
  <2>2. QED
    BY <1>1, <2>1 DEF BytesInside, Whole
<1>5. Contiguous'
  <2>1. ASSUME NEW i \in 1..(n - k), NEW j \in 1..(n - k), i <= j
        PROVE  Leads(stream'[i].msg, stream'[i].pos, j - i, stream'[j])
    <3>1. (k + j) - (k + i) = j - i /\ k + i <= k + j
      BY <1>1, <2>1
    <3>2. Leads(stream[k + i].msg, stream[k + i].pos, (k + j) - (k + i), stream[k + j])
      BY <1>2, <1>3, <3>1
    <3>3. QED
      BY <1>1, <3>1, <3>2
  <2>2. QED
    BY <1>1, <2>1 DEF Contiguous, Leads, Whole
<1>6. UpToWriter'
  <2>1. ASSUME NEW i \in 1..(n - k), sender # "reset"
        PROVE  ReachesWriter(stream'[i].msg, stream'[i].pos, (n - k) - i)
    <3>1. n - (k + i) = (n - k) - i
      BY <1>1
    <3>2. ReachesWriter(stream[k + i].msg, stream[k + i].pos, n - (k + i))
      BY <1>2, <1>3, <2>1
    <3>3. QED
      BY <1>1, <3>1, <3>2
  <2>2. QED
    BY <1>1, <2>1 DEF UpToWriter, ReachesWriter, Whole
<1>7. QED
  BY <1>4, <1>5, <1>6

\* The reader stays in its message.
LEMMA ReadOn ==
  ASSUME StreamTypes, StreamInv, NEW k, Shifted(k), InMsg <= Current,
         InMsg' = InMsg, Has' = Has + k
  PROVE  FromReader' /\ ReaderBehind'
<1> DEFINE n == Len(stream)
<1>1. /\ n \in Nat /\ k \in 1..n /\ Len(stream') = n - k /\ DOMAIN stream' = 1..(n - k)
      /\ \A i \in 1..(n - k) : stream'[i] = stream[k + i]
      /\ sent' = sent /\ Current' = Current /\ written' = written /\ sender' = sender
  BY DEF Shifted, StreamTypes, Current
<1>2. Has \in Nat /\ InMsg \in Nat /\ Current \in Nat
  BY DEF StreamTypes, Has, InMsg
<1>3. /\ \A j \in 1..n : Leads(InMsg, Has, j, stream[j])
      /\ sender # "reset" => ReachesWriter(InMsg, Has, n)
  BY DEF StreamInv, FromReader, ReaderBehind, StreamTypes
<1> HIDE DEF n
<1>4. \A i \in 1..(n - k) : k + i \in 1..n /\ Has + (k + i) = (Has + k) + i
  BY <1>1, <1>2
<1>5. \A i \in 1..(n - k) : Leads(InMsg, Has + k, i, stream'[i])
  <2>1. \A i \in 1..(n - k) : Leads(InMsg, Has, k + i, stream[k + i])
    BY <1>3, <1>4
  <2>2. QED
    BY <1>1, <1>4, <2>1 DEF Leads
<1>6. sender # "reset" => ReachesWriter(InMsg, Has + k, n - k)
  <2>1. (Has + k) + (n - k) = Has + n
    BY <1>1, <1>2
  <2>2. QED
    BY <1>3, <2>1 DEF ReachesWriter
<1>7. FromReader'
  BY <1>1, <1>5 DEF FromReader, Leads, Whole
<1>8. ReaderBehind'
  BY <1>1, <1>2, <1>6 DEF ReaderBehind, ReachesWriter, Whole
<1>9. QED
  BY <1>7, <1>8

\* The reader has the whole of its message and goes to the next one.
LEMMA ReadOver ==
  ASSUME StreamTypes, StreamInv, NEW k, Shifted(k), InMsg <= Current,
         Has + k = Whole(InMsg), InMsg' = InMsg + 1, Has' = 0, got' = 0
  PROVE  FromReader' /\ ReaderBehind'
<1> DEFINE n == Len(stream)
<1>1. /\ n \in Nat /\ k \in 1..n /\ Len(stream') = n - k /\ DOMAIN stream' = 1..(n - k)
      /\ \A i \in 1..(n - k) : stream'[i] = stream[k + i]
      /\ sent' = sent /\ Current' = Current /\ written' = written /\ sender' = sender
  BY DEF Shifted, StreamTypes, Current
<1>2. Has \in Nat /\ InMsg \in Nat \ {0} /\ Current \in Nat /\ LenBytes \in Nat \ {0}
  BY DEF StreamTypes, Has, InMsg
<1>3. /\ \A j \in 1..n : Leads(InMsg, Has, j, stream[j])
      /\ sender # "reset" => ReachesWriter(InMsg, Has, n)
  BY DEF StreamInv, FromReader, ReaderBehind, StreamTypes
<1>4. \A i \in 1..n :
        /\ stream[i].msg \in 1..Current
        /\ sender # "reset" => ReachesWriter(stream[i].msg, stream[i].pos, n - i)
        /\ \A j \in 1..n :
             i <= j => Leads(stream[i].msg, stream[i].pos, j - i, stream[j])
  BY DEF StreamInv, BytesInside, UpToWriter, Contiguous, StreamTypes
<1> HIDE DEF n
<1>5. CASE k < n
  <2>1. k + 1 \in 1..n /\ Has + (k + 1) = Whole(InMsg) + 1
    BY <1>1, <1>2, <1>5
  <2>2. stream[k + 1].msg = InMsg + 1 /\ stream[k + 1].pos = 1
    BY <1>3, <2>1 DEF Leads
  <2>3. InMsg + 1 \in 1..Current
    BY <1>4, <2>1, <2>2
  <2>4. ASSUME NEW i \in 1..(n - k) PROVE Leads(InMsg + 1, 0, i, stream'[i])
    <3>1. /\ k + i \in 1..n /\ k + 1 <= k + i
          /\ 1 + ((k + i) - (k + 1)) = 0 + i
      BY <1>1
    <3>2. Leads(InMsg + 1, 1, (k + i) - (k + 1), stream[k + i])
      BY <1>4, <2>1, <2>2, <3>1
    <3>3. QED
      BY <1>1, <3>1, <3>2 DEF Leads
  <2>5. sender # "reset" => ReachesWriter(InMsg + 1, 0, n - k)
    <3>1. 1 + (n - (k + 1)) = 0 + (n - k)
      BY <1>1
    <3>2. sender # "reset" => ReachesWriter(InMsg + 1, 1, n - (k + 1))
      BY <1>4, <2>1, <2>2
    <3>3. QED
      BY <3>1, <3>2 DEF ReachesWriter
  <2>6. FromReader'
    BY <1>1, <2>4 DEF FromReader, Leads, Whole
  <2>7. ReaderBehind'
    BY <1>1, <1>2, <2>3, <2>5 DEF ReaderBehind, ReachesWriter, Whole
  <2>8. QED
    BY <2>6, <2>7
<1>6. CASE k = n
  <2>1. DOMAIN stream' = {} /\ Len(stream') = 0
    BY <1>1, <1>6
  <2>2. sender # "reset" => \/ InMsg = Current /\ written = Whole(InMsg)
                            \/ InMsg + 1 = Current /\ written = 0
    BY <1>3, <1>6 DEF ReachesWriter
  <2>3. FromReader'
    BY <2>1 DEF FromReader
  <2>4. InMsg = Current => ~Busy \/ sender = "reset"
    BY <1>2, <2>2 DEF StreamTypes
  <2>5. ReaderBehind'
    <3>1. InMsg' <= Current' + 1
      BY <1>1, <1>2
    <3>2. InMsg' <= Current' /\ sender' # "reset" => ReachesWriter(InMsg', 0, 0)
      <4>1. ASSUME InMsg + 1 <= Current, sender # "reset"
            PROVE  ReachesWriter(InMsg + 1, 0, 0)
        <5>1. InMsg + 1 = Current /\ written = 0
          BY <1>2, <2>2, <4>1
        <5>2. Whole(InMsg + 1) > 0
          BY <1>2, <5>1 DEF StreamTypes, Whole
        <5>3. QED
          BY <1>2, <5>1, <5>2 DEF ReachesWriter, StreamTypes
      <4>2. QED
        BY <1>1, <4>1
    <3>3. InMsg' = Current' + 1 =>
            stream' = <<>> /\ got' = 0 /\ (sender' # "reset" => ~Busy')
      <4>1. stream' = <<>>
        BY <2>1, EmptySeq DEF Shifted
      <4>2. Busy' <=> Busy
        BY <1>1 DEF Busy, Current
      <4>3. QED
        BY <1>1, <1>2, <2>4, <4>1, <4>2
    <3>4. QED
      BY <1>1, <2>1, <3>1, <3>2, <3>3 DEF ReaderBehind, ReachesWriter, Whole
  <2>6. QED
    BY <2>3, <2>5
<1>7. QED
  BY <1>1, <1>5, <1>6

LEMMA ReadLengthStep ==
  ASSUME TypeOK, StreamInv, NEW k \in 1..Capacity, ReadLength(k), ~split'
  PROVE  StreamInv'
<1>1. StreamTypes
  BY Types
<1>2. Shifted(k) /\ Len(Taken(k)) = k /\ \A i \in 1..k : Taken(k)[i] = stream[i]
  BY ReadShifts
<1>3. /\ LenBytes \in Nat \ {0} /\ k \in Nat \ {0} /\ got = 0 /\ k = LenBytes
      /\ got' = LenBytes /\ body = <<>>
  <2>1. ~(k < LenBytes) /\ k <= LenBytes - got /\ got < LenBytes /\ got' = got + k
    BY DEF ReadLength
  <2>2. got = 0 \/ got = LenBytes
    BY DEF StreamInv, BodyRight
  <2>3. body = <<>>
    BY <1>1, <2>1, <2>2 DEF StreamInv, BodyRight, StreamTypes
  <2>4. QED
    BY <1>1, <2>1, <2>2, <2>3, FramingAssumption DEF StreamTypes
<1>4. Has = 0 /\ InMsg \in Nat \ {0} /\ Current \in Nat
  BY <1>1, <1>3, EmptySeq DEF Has, StreamTypes, InMsg
<1>5. InMsg \in 1..Current
  <2>1. stream # <<>>
    BY <1>2, EmptySeq DEF Shifted
  <2>2. QED
    BY <1>4, <2>1 DEF StreamInv, ReaderBehind
<1>6. sent[InMsg] \in Nat \ {0} /\ Whole(InMsg) = LenBytes + sent[InMsg]
  BY <1>1, <1>5 DEF StreamTypes, Whole
<1>7. \A j \in 1..LenBytes : Taken(k)[j].msg = InMsg /\ Taken(k)[j].pos = j
  <2>1. \A j \in 1..LenBytes :
          /\ j \in DOMAIN stream /\ 0 + j <= Whole(InMsg) /\ 0 + j = j
          /\ Taken(k)[j] = stream[j]
    BY <1>1, <1>2, <1>3, <1>6 DEF Shifted, StreamTypes
  <2>2. InMsg <= Current
    BY <1>4, <1>5
  <2>3. \A j \in 1..LenBytes : Leads(InMsg, 0, j, stream[j])
    BY <1>4, <2>1, <2>2 DEF StreamInv, FromReader
  <2>4. QED
    BY <2>1, <2>3 DEF Leads
<1>8. IsLength(Taken(k)) /\ Taken(k)[1].msg = InMsg
  BY <1>2, <1>3, <1>4, <1>7 DEF IsLength
<1>9. size' = sent[InMsg] /\ receiver' = "open"
  <2>1. ~(got' < LenBytes)
    BY <1>3
  <2>2. size' = sent[InMsg]
    BY <1>8, <2>1 DEF ReadLength, Lengths
  <2>3. QED
    BY <1>6, <2>1, <2>2 DEF ReadLength
<1>10. UNCHANGED <<sent, written, sender, body, received>>
  BY DEF ReadLength
<1>11. InMsg' = InMsg /\ Has' = Has + k
  BY <1>3, <1>4, <1>10, EmptySeq DEF InMsg, Has
<1>12. FromReader' /\ ReaderBehind'
  BY <1>1, <1>2, <1>4, <1>5, <1>11, ReadOn
<1>13. BytesInside' /\ Contiguous' /\ UpToWriter'
  BY <1>1, <1>2, ShiftKeeps
<1>14. BodyRight'
  <2>1. DOMAIN body = {} /\ Len(body) = 0
    BY <1>3, EmptySeq
  <2>2. Current' = Current /\ InMsg <= Current
    BY <1>4, <1>5, <1>10 DEF Current
  <2>3. QED
    BY <1>3, <1>6, <1>9, <1>10, <1>11, <2>1, <2>2 DEF BodyRight
<1>15. ReceivedRight' /\ WrittenWhole' /\ EndSeen'
  BY <1>9, <1>10 DEF StreamInv, ReceivedRight, WrittenWhole, EndSeen, Body, Current
<1>16. QED
  BY <1>12, <1>13, <1>14, <1>15 DEF StreamInv

LEMMA ReadBodyStep ==
  ASSUME TypeOK, StreamInv, NEW k \in 1..Capacity, ReadBody(k), ~split'
  PROVE  StreamInv'
<1> DEFINE whole == body \o Taken(k)
           m == InMsg
           l == Len(body)
<1>1. StreamTypes
  BY Types
<1>2. /\ Shifted(k) /\ Taken(k) \in Seq(Byte) /\ Len(Taken(k)) = k
      /\ \A i \in 1..k : Taken(k)[i] = stream[i]
  BY ReadShifts
<1>3. /\ got = LenBytes /\ LenBytes \in Nat \ {0} /\ k \in Nat \ {0}
      /\ m \in 1..Current /\ size = sent[m] /\ l < size /\ l \in Nat
      /\ Current \in Nat /\ receiver = "open"
      /\ \A j \in 1..l : body[j].msg = m /\ body[j].pos = LenBytes + j
  <2>1. got = LenBytes /\ receiver = "open"
    BY DEF ReadBody, Reading
  <2>2. m \in Nat \ {0}
    BY <1>1 DEF StreamTypes, InMsg
  <2>3. /\ m <= Current /\ size = sent[m] /\ l < size
        /\ \A j \in DOMAIN body : body[j].msg = m /\ body[j].pos = LenBytes + j
    BY <2>1 DEF StreamInv, BodyRight
  <2>4. /\ LenBytes \in Nat \ {0} /\ Current \in Nat /\ l \in Nat
        /\ DOMAIN body = 1..l
    BY <1>1 DEF StreamTypes
  <2>5. k \in Nat \ {0}
    BY FramingAssumption
  <2> HIDE DEF m, l
  <2>6. QED
    BY <2>1, <2>2, <2>3, <2>4, <2>5
<1>4. /\ size \in Nat \ {0} /\ Whole(m) = LenBytes + size /\ Has = LenBytes + l
      /\ k <= size - l
  BY <1>1, <1>3 DEF StreamTypes, Whole, Has, ReadBody, Left
<1>5. \A j \in 1..k : /\ Taken(k)[j].msg = m
                      /\ Taken(k)[j].pos = LenBytes + (l + j)
  <2>1. \A j \in 1..k :
          /\ j \in DOMAIN stream /\ Has + j <= Whole(m)
          /\ Has + j = LenBytes + (l + j)
    <3>1. DOMAIN stream = 1..Len(stream) /\ k \in 1..Len(stream)
      BY <1>1, <1>2 DEF Shifted, StreamTypes
    <3>2. /\ LenBytes \in Nat /\ l \in Nat /\ size \in Nat /\ k \in Nat /\ k <= size - l
          /\ Has = LenBytes + l /\ Whole(m) = LenBytes + size
      BY <1>3, <1>4
    <3> DEFINE w == Whole(m)
               h == Has
    <3>3. h = LenBytes + l /\ w = LenBytes + size
      BY <3>2
    <3> HIDE DEF m, l, w, h
    <3>4. \A j \in 1..k : h + j <= w /\ h + j = LenBytes + (l + j)
      BY <3>2, <3>3
    <3>5. \A j \in 1..k : j \in DOMAIN stream
      BY <3>1, <3>2
    <3>6. QED
      BY <3>4, <3>5 DEF w, h
  <2>2. m <= Current
    BY <1>3
  <2>3. \A j \in 1..k : Leads(m, Has, j, stream[j])
    BY <2>1, <2>2 DEF StreamInv, FromReader
  <2>4. QED
    BY <1>2, <2>1, <2>3 DEF Leads
<1>6. /\ whole \in Seq(Byte) /\ Len(whole) = l + k /\ DOMAIN whole = 1..(l + k)
      /\ \A j \in 1..(l + k) : whole[j].msg = m /\ whole[j].pos = LenBytes + j
  <2>1. body \in Seq(Byte)
    BY <1>1 DEF StreamTypes
  <2>2. /\ whole \in Seq(Byte) /\ Len(whole) = l + k
        /\ \A j \in 1..(l + k) : whole[j] = IF j <= l THEN body[j] ELSE Taken(k)[j - l]
    <3>1. \A s, t \in Seq(Byte) :
            /\ s \o t \in Seq(Byte) /\ Len(s \o t) = Len(s) + Len(t)
            /\ \A j \in 1..(Len(s) + Len(t)) :
                 (s \o t)[j] = IF j <= Len(s) THEN s[j] ELSE t[j - Len(s)]
      BY ConcatProperties
    <3>2. Taken(k) \in Seq(Byte) /\ Len(Taken(k)) = k
      BY <1>2
    <3>3. /\ whole \in Seq(Byte) /\ Len(whole) = l + Len(Taken(k))
          /\ \A j \in 1..(l + Len(Taken(k))) :
               whole[j] = IF j <= l THEN body[j] ELSE Taken(k)[j - l]
      BY <2>1, <3>1, <3>2
    <3>4. QED
      BY <3>2, <3>3
  <2>3. DOMAIN whole = 1..(l + k)
    BY <2>2, LenProperties
  <2> HIDE DEF whole, l, m
  <2>4. ASSUME NEW j \in 1..(l + k)
        PROVE  whole[j].msg = m /\ whole[j].pos = LenBytes + j
    <3>1. CASE j <= l
      <4>1. j \in 1..l /\ whole[j] = body[j]
        BY <1>3, <2>2, <2>4, <3>1
      <4>2. QED
        BY <1>3, <4>1
    <3>2. CASE ~(j <= l)
      <4>1. j - l \in 1..k /\ l + (j - l) = j
        BY <1>3, <3>2
      <4>2. QED
        BY <1>5, <2>2, <3>2, <4>1
    <3>3. QED
      BY <3>1, <3>2
  <2>5. QED
    BY <2>2, <2>3, <2>4
<1>7. UNCHANGED <<sent, written, sender, receiver>>
  BY DEF ReadBody
<1>8. BytesInside' /\ Contiguous' /\ UpToWriter'
  BY <1>1, <1>2, ShiftKeeps
<1>9. EndSeen' /\ WrittenWhole'
  BY <1>3, <1>7 DEF StreamInv, WrittenWhole, EndSeen
<1>10. CASE k = Left
  <2>1. received' = Append(received, whole) /\ body' = <<>> /\ got' = 0 /\ size' = 0
    BY <1>10 DEF ReadBody
  <2>2. l + k = size
    BY <1>3, <1>4, <1>10 DEF Left
  <2>3. /\ Len(received') = m /\ DOMAIN received' = 1..m
        /\ received'[m] = whole
        /\ \A i \in 1..(m - 1) : received'[i] = received[i] /\ i \in DOMAIN received
    <3>1. received \in Seq(Seq(Byte))
      BY DEF TypeOK
    <3>2. /\ received' \in Seq(Seq(Byte)) /\ Len(received') = Len(received) + 1
          /\ \A i \in 1..Len(received) : received'[i] = received[i]
          /\ received'[Len(received) + 1] = whole
      BY <1>6, <2>1, <3>1, AppendProperties
    <3>3. DOMAIN received' = 1..Len(received')
      BY <3>2, LenProperties
    <3>4. m - 1 = Len(received) /\ DOMAIN received = 1..Len(received)
      BY <1>1 DEF InMsg, StreamTypes
    <3>5. QED
      BY <3>2, <3>3, <3>4 DEF InMsg
  <2>4. whole = Body(m)
    <3>1. DOMAIN Body(m) = 1..size
      BY <1>3 DEF Body
    <3>2. whole = [j \in 1..size |-> whole[j]]
      BY <1>6, <2>2, LenProperties
    <3>3. \A b \in Byte : b = [msg |-> b.msg, pos |-> b.pos]
      BY DEF Byte
    <3>4. \A j \in 1..size : whole[j] = [msg |-> m, pos |-> LenBytes + j]
      <4>1. \A j \in 1..size : whole[j] \in Byte
        BY <1>6, <2>2, ElementOfSeq
      <4>2. QED
        BY <1>6, <2>2, <3>3, <4>1
    <3>5. QED
      BY <1>3, <3>2, <3>4 DEF Body
  <2>5. ReceivedRight'
    <3>1. ASSUME NEW i \in 1..m PROVE i <= Current /\ received'[i] = Body(i)
      <4>1. CASE i = m
        BY <1>3, <2>3, <2>4, <4>1
      <4>2. CASE i # m
        <5>1. i \in 1..(m - 1)
          BY <1>3, <4>2
        <5>2. QED
          BY <2>3, <5>1 DEF StreamInv, ReceivedRight
      <4>3. QED
        BY <4>1, <4>2
    <3>2. QED
      BY <1>7, <2>3, <3>1 DEF ReceivedRight, Body, Current
  <2>6. InMsg' = InMsg + 1 /\ Has' = 0 /\ Has + k = Whole(InMsg)
    <3>1. Len(body') = 0
      BY <2>1, EmptySeq
    <3>2. QED
      BY <1>3, <1>4, <2>1, <2>2, <2>3, <3>1 DEF InMsg, Has
  <2>7. FromReader' /\ ReaderBehind'
    <3>1. InMsg <= Current
      BY <1>3
    <3>2. QED
      BY <1>1, <1>2, <2>1, <2>6, <3>1, ReadOver
  <2>8. BodyRight'
    BY <1>3, <2>1 DEF BodyRight
  <2>9. QED
    BY <1>8, <1>9, <2>5, <2>7, <2>8 DEF StreamInv
<1>11. CASE k # Left
  <2>1. body' = whole /\ UNCHANGED <<received, got, size>>
    BY <1>11 DEF ReadBody
  <2>2. l + k < size
    BY <1>3, <1>4, <1>11 DEF Left
  <2>3. InMsg' = InMsg /\ Has' = Has + k
    <3>1. InMsg' = InMsg /\ Has' = LenBytes + (l + k)
      BY <1>3, <1>6, <2>1 DEF InMsg, Has
    <3>2. QED
      BY <1>3, <1>4, <3>1
  <2>4. FromReader' /\ ReaderBehind'
    <3>1. InMsg <= Current
      BY <1>3
    <3>2. QED
      BY <1>1, <1>2, <2>3, <3>1, ReadOn
  <2>5. BodyRight'
    <3>1. Current' = Current /\ m <= Current
      BY <1>3, <1>7 DEF Current
    <3>2. LenBytes # 0
      BY <1>3
    <3>3. QED
      BY <1>3, <1>6, <1>7, <2>1, <2>2, <2>3, <3>1, <3>2 DEF BodyRight
  <2>6. ReceivedRight'
    BY <1>7, <2>1 DEF StreamInv, ReceivedRight, Body, Current
  <2>7. QED
    BY <1>8, <1>9, <2>4, <2>5, <2>6 DEF StreamInv
<1>12. QED
  BY <1>10, <1>11

-----------------------------------------------------------------------------
(* A message more, and the end.                                            *)

LEMMA SendStep ==
  ASSUME TypeOK, StreamInv, NEW x \in Sizes, SendMessage(x)
  PROVE  StreamInv'
<1> DEFINE c == Current
           n == Len(stream)
           W(m) == LenBytes + sent'[m]
<1>1. StreamTypes
  BY Types
<1>2. /\ c \in Nat /\ Current' = c + 1 /\ x \in Nat \ {0} /\ LenBytes \in Nat \ {0}
      /\ sent'[c + 1] = x /\ \A m \in 1..c : sent'[m] = sent[m]
  <2>1. sent \in Seq(Sizes) /\ sent' = Append(sent, x)
    BY DEF SendMessage, TypeOK
  <2>2. /\ Len(sent') = Len(sent) + 1
        /\ sent'[Len(sent) + 1] = x /\ \A m \in 1..Len(sent) : sent'[m] = sent[m]
    BY <2>1, AppendProperties
  <2>3. \A y \in Sizes : y \in Nat \ {0}
    BY FramingAssumption
  <2>4. QED
    BY <1>1, <2>2, <2>3 DEF StreamTypes, Current
<1>3. /\ written' = 0 /\ sender = "open" /\ ~Busy
      /\ UNCHANGED <<sender, stream, receiver, got, size, body, received>>
  BY DEF SendMessage
<1>4. InMsg' = InMsg /\ Has' = Has /\ InMsg \in Nat \ {0} /\ Has \in Nat
  BY <1>1, <1>3 DEF InMsg, Has, StreamTypes
<1>5. \A m \in 1..c : W(m) = Whole(m) /\ Whole(m) \in Nat
  BY <1>1, <1>2 DEF Whole, StreamTypes
<1>6. \A m \in 1..c, p, d \in Nat :
        ReachesWriter(m, p, d) =>
          /\ ~(p + d < Whole(m))
          /\ p + d = Whole(m) => m = c
  <2>1. SUFFICES ASSUME NEW m \in 1..c, NEW p \in Nat, NEW d \in Nat,
                        ReachesWriter(m, p, d)
                 PROVE  ~(p + d < Whole(m)) /\ (p + d = Whole(m) => m = c)
    OBVIOUS
  <2>2. c # 0 => ~(written < Whole(c)) /\ Whole(c) > 0
    BY <1>1, <1>2, <1>3 DEF StreamTypes, Whole
  <2> HIDE DEF c
  <2>3. /\ p + d < Whole(m) => m = c /\ written = p + d
        /\ p + d = Whole(m) => m = c \/ (m + 1 = c /\ written = 0)
    BY <2>1 DEF ReachesWriter, c
  <2>4. QED
    BY <1>2, <2>2, <2>3
<1>7. /\ n \in Nat /\ DOMAIN stream = 1..n
      /\ \A i \in 1..n :
           /\ stream[i].msg \in 1..c /\ stream[i].pos \in Nat /\ n - i \in Nat
           /\ stream[i].pos <= Whole(stream[i].msg)
           /\ ReachesWriter(stream[i].msg, stream[i].pos, n - i)
           /\ \A j \in 1..n :
                i <= j => Leads(stream[i].msg, stream[i].pos, j - i, stream[j])
  <2>1. /\ n \in Nat /\ DOMAIN stream = 1..n
        /\ \A i \in 1..n : stream[i].pos \in Nat /\ n - i \in Nat
    BY <1>1 DEF StreamTypes
  <2>2. \A i \in 1..n : stream[i].msg \in 1..c /\ stream[i].pos <= Whole(stream[i].msg)
    BY <2>1 DEF StreamInv, BytesInside
  <2>3. \A i \in 1..n : ReachesWriter(stream[i].msg, stream[i].pos, n - i)
    BY <1>3, <2>1 DEF StreamInv, UpToWriter
  <2>4. \A i, j \in 1..n :
          i <= j => Leads(stream[i].msg, stream[i].pos, j - i, stream[j])
    BY <2>1 DEF StreamInv, Contiguous
  <2> HIDE DEF c, n
  <2>5. QED
    BY <2>1, <2>2, <2>3, <2>4
<1> HIDE DEF c, n, W
<1>8. BytesInside'
  <2>1. \A i \in 1..n :
          /\ stream[i].msg \in 1..(c + 1) /\ stream[i].pos <= W(stream[i].msg)
    BY <1>2, <1>5, <1>7
  <2>2. QED
    BY <1>2, <1>3, <1>7, <2>1 DEF BytesInside, Whole, W
<1>9. Contiguous'
  <2>1. ASSUME NEW i \in 1..n, NEW j \in 1..n, i <= j
        PROVE  /\ stream[i].pos + (j - i) <= W(stream[i].msg) =>
                    stream[j].msg = stream[i].msg /\ stream[j].pos = stream[i].pos + (j - i)
               /\ stream[i].pos + (j - i) = W(stream[i].msg) + 1 =>
                    stream[j].msg = stream[i].msg + 1 /\ stream[j].pos = 1
    BY <1>5, <1>7, <2>1 DEF Leads
  <2>2. \A i, j \in DOMAIN stream :
          i <= j =>
            /\ stream[i].pos + (j - i) <= W(stream[i].msg) =>
                 stream[j].msg = stream[i].msg /\ stream[j].pos = stream[i].pos + (j - i)
            /\ stream[i].pos + (j - i) = W(stream[i].msg) + 1 =>
                 stream[j].msg = stream[i].msg + 1 /\ stream[j].pos = 1
    BY <1>7, <2>1
  <2>3. QED
    BY <1>3, <2>2 DEF Contiguous, Leads, Whole, W
<1>10. UpToWriter'
  <2>1. ASSUME NEW i \in 1..n
        PROVE  /\ ~(stream[i].pos + (n - i) < W(stream[i].msg))
               /\ stream[i].pos + (n - i) = W(stream[i].msg) => stream[i].msg = c
    <3>1. stream[i].msg \in 1..c /\ W(stream[i].msg) = Whole(stream[i].msg)
      BY <1>5, <1>7
    <3>2. QED
      BY <1>6, <1>7, <3>1
  <2>2. QED
    BY <1>2, <1>3, <1>7, <2>1 DEF UpToWriter, ReachesWriter, Whole, W, n
<1>11. InMsg <= c + 1
  BY DEF StreamInv, ReaderBehind, c
<1>12. ASSUME InMsg <= c PROVE FromReader' /\ ReaderBehind'
  <2>1. InMsg \in 1..c
    BY <1>2, <1>4, <1>12
  <2>2. /\ \A j \in 1..n : Leads(InMsg, Has, j, stream[j])
        /\ ReachesWriter(InMsg, Has, n)
    BY <1>3, <1>7, <1>12 DEF StreamInv, FromReader, ReaderBehind, c, n
  <2>3. W(InMsg) = Whole(InMsg)
    BY <1>5, <2>1
  <2>4. FromReader'
    BY <1>3, <1>4, <1>7, <2>2, <2>3 DEF FromReader, Leads, Whole, W
  <2>5. ReaderBehind'
    <3>1. /\ ~(Has + n < Whole(InMsg))
          /\ Has + n = Whole(InMsg) => InMsg = c
      BY <1>4, <1>6, <1>7, <2>1, <2>2
    <3>2. ~(Has + n < W(InMsg)) /\ (Has + n = W(InMsg) => InMsg = c)
      BY <2>3, <3>1
    <3>3. InMsg' # Current' + 1 /\ InMsg' <= Current' + 1
      BY <1>2, <1>4, <2>1
    <3>4. Len(stream') = n
      BY <1>3 DEF n
    <3>5. ReachesWriter(InMsg, Has, n)'
      BY <1>2, <1>3, <1>4, <3>2, <3>4 DEF ReachesWriter, Whole, W, n
    <3>6. QED
      BY <3>3, <3>5 DEF ReaderBehind, n
  <2>6. QED
    BY <2>4, <2>5
<1>13. ASSUME InMsg = c + 1 PROVE FromReader' /\ ReaderBehind'
  <2>1. stream = <<>> /\ got = 0 /\ body = <<>>
    BY <1>13 DEF StreamInv, ReaderBehind, BodyRight, c
  <2>2. Has = 0 /\ n = 0
    BY <2>1, EmptySeq DEF Has, n
  <2>3. FromReader'
    BY <1>3, <1>7, <2>2 DEF FromReader
  <2>4. ReaderBehind'
    <3>1. InMsg' = c + 1 /\ Has' = 0 /\ Len(stream') = 0 /\ Current' = c + 1
      BY <1>2, <1>3, <1>4, <1>13, <2>2 DEF n
    <3>2. /\ 0 + 0 < W(c + 1) => c + 1 = Current' /\ written' = 0 + 0
          /\ 0 + 0 # W(c + 1)
      BY <1>2, <1>3 DEF W
    <3>3. ReachesWriter(InMsg, Has, Len(stream))'
      BY <3>1, <3>2 DEF ReachesWriter, Whole, W
    <3>4. InMsg' # Current' + 1 /\ InMsg' <= Current' + 1
      BY <1>2, <3>1
    <3>5. QED
      BY <3>3, <3>4 DEF ReaderBehind
  <2>5. QED
    BY <2>3, <2>4
<1>14. BodyRight'
  BY <1>2, <1>3, <1>4 DEF StreamInv, BodyRight, c
<1>15. ReceivedRight'
  <2>1. ASSUME NEW i \in DOMAIN received PROVE i <= c + 1 /\ received[i] = Body(i)'
    <3>1. i \in 1..c
      BY <1>1, <1>2, <2>1 DEF StreamInv, ReceivedRight, StreamTypes, c
    <3>2. sent'[i] = sent[i] /\ received[i] = Body(i)
      BY <1>2, <2>1, <3>1 DEF StreamInv, ReceivedRight
    <3>3. QED
      BY <1>2, <3>1, <3>2 DEF Body
  <2>2. QED
    BY <1>2, <1>3, <2>1 DEF ReceivedRight
<1>16. WrittenWhole' /\ EndSeen'
  BY <1>3 DEF StreamInv, WrittenWhole, EndSeen
<1>17. QED
  BY <1>2, <1>4, <1>8, <1>9, <1>10, <1>11, <1>12, <1>13, <1>14, <1>15, <1>16
     DEF StreamInv

LEMMA StopStep ==
  ASSUME TypeOK, StreamInv, Stop
  PROVE  StreamInv'
<1>1. StreamTypes
  BY Types
<1>2. /\ sender = "open" /\ sender' \in {"closed", "reset"}
      /\ UNCHANGED <<sent, written, receiver, got, size, body, received, split>>
  BY DEF Stop
<1>3. /\ InMsg' = InMsg /\ Has' = Has /\ Current' = Current /\ (Busy' <=> Busy)
  BY <1>2 DEF InMsg, Has, Current, Busy
<1>4. BodyRight' /\ ReceivedRight' /\ WrittenWhole' /\ EndSeen'
  BY <1>2, <1>3
     DEF StreamInv, BodyRight, ReceivedRight, Body, WrittenWhole, EndSeen
<1>5. CASE stream' = stream /\ sender' = "closed"
  <2>1. BytesInside' /\ Contiguous' /\ FromReader'
    BY <1>2, <1>3, <1>5
       DEF StreamInv, BytesInside, Contiguous, FromReader, Leads, Whole
  <2>2. UpToWriter'
    BY <1>2, <1>3, <1>5 DEF StreamInv, UpToWriter, ReachesWriter, Whole
  <2>3. ReaderBehind'
    BY <1>2, <1>3, <1>5 DEF StreamInv, ReaderBehind, ReachesWriter, Whole
  <2>4. QED
    BY <1>4, <2>1, <2>2, <2>3 DEF StreamInv
<1>6. CASE sender' = "reset"
  <2>1. PICK n \in 0..Len(stream) : stream' = SubSeq(stream, 1, n)
    BY <1>6 DEF Stop
  <2>2. /\ stream' \in Seq(Byte) /\ Len(stream') = n /\ DOMAIN stream' = 1..n
        /\ \A i \in 1..n : stream'[i] = stream[i] /\ i \in DOMAIN stream
    <3>1. stream \in Seq(Byte)
      BY DEF TypeOK
    <3>2. /\ stream' \in Seq(Byte) /\ Len(stream') = n
          /\ \A i \in 1..n : stream'[i] = stream[i]
      BY <2>1, <3>1, PrefixIs
    <3>3. /\ DOMAIN stream' = 1..n /\ \A i \in 1..n : i \in DOMAIN stream
      BY <1>1, <3>2, LenProperties DEF StreamTypes
    <3>4. QED
      BY <3>2, <3>3
  <2>3. BytesInside'
    <3>1. \A i \in 1..n : /\ stream[i].msg \in 1..Current
                          /\ stream[i].pos <= Whole(stream[i].msg)
      BY <2>2 DEF StreamInv, BytesInside
    <3>2. QED
      BY <1>2, <1>3, <2>2, <3>1 DEF BytesInside, Whole
  <2>4. Contiguous'
    <3>1. \A i, j \in 1..n :
            i <= j => Leads(stream[i].msg, stream[i].pos, j - i, stream[j])
      BY <2>2 DEF StreamInv, Contiguous
    <3>2. QED
      BY <1>2, <2>2, <3>1 DEF Contiguous, Leads, Whole
  <2>5. FromReader'
    <3>1. ASSUME InMsg <= Current, NEW j \in 1..n PROVE Leads(InMsg, Has, j, stream[j])
      BY <2>2, <3>1 DEF StreamInv, FromReader
    <3>2. QED
      BY <1>2, <1>3, <2>2, <3>1 DEF FromReader, Leads, Whole
  <2>6. UpToWriter'
    BY <1>6 DEF UpToWriter
  <2>7. ReaderBehind'
    <3>1. InMsg = Current + 1 => stream' = <<>>
      <4>1. stream = <<>> => n = 0
        BY EmptySeq
      <4>2. n = 0 => stream' = <<>>
        BY <2>2, EmptySeq
      <4>3. QED
        BY <4>1, <4>2 DEF StreamInv, ReaderBehind
    <3>2. QED
      BY <1>2, <1>3, <1>6, <3>1 DEF StreamInv, ReaderBehind
  <2>8. QED
    BY <1>4, <2>3, <2>4, <2>5, <2>6, <2>7 DEF StreamInv
<1>7. QED
  BY <1>5, <1>6 DEF Stop

LEMMA SameStream ==
  ASSUME StreamInv,
         UNCHANGED <<sent, written, sender, stream, got, size, body, received>>,
         EndSeen'
  PROVE  StreamInv'
<1>1. /\ InMsg' = InMsg /\ Has' = Has /\ Current' = Current /\ (Busy' <=> Busy)
  BY DEF InMsg, Has, Current, Busy
<1>2. BytesInside' /\ Contiguous' /\ FromReader'
  BY <1>1 DEF StreamInv, BytesInside, Contiguous, FromReader, Leads, Whole
<1>3. UpToWriter' /\ ReaderBehind'
  BY <1>1 DEF StreamInv, UpToWriter, ReaderBehind, ReachesWriter, Whole
<1>4. BodyRight' /\ ReceivedRight' /\ WrittenWhole'
  BY <1>1 DEF StreamInv, BodyRight, ReceivedRight, Body, WrittenWhole
<1>5. QED
  BY <1>2, <1>3, <1>4 DEF StreamInv

-----------------------------------------------------------------------------
LEMMA StreamStep == TypeOK /\ FramingInv /\ [Next]_vars => FramingInv'
<1> SUFFICES ASSUME TypeOK, FramingInv, [Next]_vars, ~split' PROVE StreamInv'
  BY DEF FramingInv
<1>1. StreamInv
  BY DEF FramingInv, Next, Step, SendMessage, Write, Stop, ReadLength, ReadBody,
         ReadEnd, vars
<1>2. ASSUME NEW n \in Sizes, SendMessage(n) PROVE StreamInv'
  BY <1>1, <1>2, SendStep
<1>3. ASSUME NEW k \in 1..Capacity, Write(k) PROVE StreamInv'
  BY <1>1, <1>3, WriteStep
<1>4. CASE Stop
  BY <1>1, <1>4, StopStep
<1>5. ASSUME NEW k \in 1..Capacity, ReadLength(k) PROVE StreamInv'
  BY <1>1, <1>5, ReadLengthStep
<1>6. ASSUME NEW k \in 1..Capacity, ReadBody(k) PROVE StreamInv'
  BY <1>1, <1>6, ReadBodyStep
<1>7. CASE ReadEnd
  <2>1. EndSeen'
    BY <1>7 DEF ReadEnd, Ended, EndSeen
  <2>2. QED
    BY <1>1, <1>7, <2>1, SameStream DEF ReadEnd
<1>8. CASE UNCHANGED vars
  <2>1. EndSeen'
    BY <1>1, <1>8 DEF vars, StreamInv, EndSeen
  <2>2. QED
    BY <1>1, <1>8, <2>1, SameStream DEF vars
<1>9. QED
  BY <1>2, <1>3, <1>4, <1>5, <1>6, <1>7, <1>8 DEF Next, Step

LEMMA StreamInit == Init => FramingInv
<1> SUFFICES ASSUME Init PROVE StreamInv
  BY DEF FramingInv
<1>1. /\ Current = 0 /\ InMsg = 1 /\ Has = 0 /\ ~Busy /\ LenBytes \in Nat \ {0}
  BY EmptySeq, FramingAssumption DEF Init, Current, InMsg, Has, Busy
<1>2. DOMAIN stream = {} /\ DOMAIN received = {} /\ DOMAIN body = {}
  BY EmptySeq DEF Init
<1>3. BytesInside /\ Contiguous /\ UpToWriter /\ FromReader /\ ReceivedRight
  BY <1>2 DEF BytesInside, Contiguous, UpToWriter, FromReader, ReceivedRight
<1>4. ReaderBehind /\ BodyRight
  BY <1>1 DEF Init, ReaderBehind, BodyRight
<1>5. WrittenWhole /\ EndSeen
  BY DEF Init, WrittenWhole, EndSeen
<1>6. QED
  BY <1>3, <1>4, <1>5 DEF StreamInv

LEMMA Stream == Spec => [](TypeOK /\ FramingInv)
<1>1. Init => FramingInv
  BY StreamInit
<1>2. TypeOK /\ FramingInv /\ [Next]_vars => FramingInv'
  BY StreamStep
<1>3. QED
  BY <1>1, <1>2, TypeCorrect, PTL DEF Spec

\* For every width of a length and every way the kernel cuts what is sent:
\* while no length is cut, what receive_message returns are the messages that
\* send_message was called with, whole and in order (readme.txt:29-32).
THEOREM MessagesWhole == Spec => []WholeInOrder
<1>1. FramingInv => WholeInOrder
  BY DEF FramingInv, StreamInv, ReceivedRight, WholeInOrder
<1>2. QED
  BY <1>1, Stream, PTL

LEMMA AtTheEnd ==
  ASSUME TypeOK, StreamInv, receiver = "closed", sender = "closed"
  PROVE  Len(received) = Complete
<1>1. StreamTypes
  BY Types
<1>2. stream = <<>> /\ Len(stream) = 0
  BY EmptySeq DEF StreamInv, EndSeen
<1>3. /\ InMsg \in Nat \ {0} /\ Has \in Nat /\ Current \in Nat /\ InMsg <= Current + 1
  BY <1>1 DEF StreamTypes, InMsg, Has, StreamInv, ReaderBehind
<1>4. CASE InMsg <= Current
  <2>1. ReachesWriter(InMsg, Has, 0)
    BY <1>2, <1>4 DEF StreamInv, ReaderBehind
  <2>2. Whole(InMsg) \in Nat /\ Has < Whole(InMsg)
    <3>1. InMsg \in 1..Current
      BY <1>3, <1>4
    <3>2. sent[InMsg] \in Nat \ {0} /\ Whole(InMsg) = LenBytes + sent[InMsg]
      BY <1>1, <3>1 DEF StreamTypes, Whole
    <3>3. CASE got = 0
      <4>1. Has = 0
        BY <3>3, EmptySeq DEF StreamInv, BodyRight, Has
      <4>2. QED
        BY <1>1, <3>2, <4>1 DEF StreamTypes
    <3>4. CASE got # 0
      <4>1. got = LenBytes /\ Len(body) < sent[InMsg]
        BY <3>4 DEF StreamInv, BodyRight
      <4>2. QED
        BY <1>1, <3>2, <4>1 DEF StreamTypes, Has
    <3>5. QED
      BY <3>3, <3>4
  <2>3. InMsg = Current /\ written = Has
    BY <1>3, <2>1, <2>2 DEF ReachesWriter
  <2>4. Busy
    BY <1>1, <1>3, <2>2, <2>3 DEF StreamTypes
  <2>5. QED
    BY <1>1, <2>3, <2>4 DEF Complete, InMsg, StreamTypes
<1>5. CASE InMsg = Current + 1
  <2>1. ~Busy
    BY <1>5 DEF StreamInv, ReaderBehind
  <2>2. Complete = Current
    BY <2>1 DEF Complete
  <2>3. Len(received) \in Nat
    BY <1>1 DEF StreamTypes
  <2>4. QED
    BY <1>3, <1>5, <2>2, <2>3 DEF InMsg
<1>6. QED
  BY <1>3, <1>4, <1>5

\* A sender that ends, be it in the middle of a message, has delivered every
\* message it was done with and nothing of one it was not.
THEOREM EndExact == Spec => []EndIsExact
<1>1. TypeOK /\ FramingInv => EndIsExact
  BY AtTheEnd DEF FramingInv, EndIsExact
<1>2. QED
  BY <1>1, Stream, PTL

=============================================================================
