------------------------------ MODULE Framing -------------------------------
(***************************************************************************)
(* send_message and receive_message of homework2-public (helper.cpp) over  *)
(* one direction of a TCP connection: a length, then that many bytes.      *)
(* Both loop over short writes and reads; the loops over the length step   *)
(* through memory by whole ints, so that what follows a short one goes to, *)
(* or comes from, somewhere else and the length is indeterminate.          *)
(* A byte is named by its message and its place in the frame.              *)
(***************************************************************************)
EXTENDS Integers, Sequences, FiniteSets, SequencesExt

CONSTANTS
  LenBytes,     \* sizeof(int)
  Sizes,        \* sizes of messages
  MaxSize,      \* bound: values an indeterminate length may take
  Capacity,     \* bound: bytes in flight
  MaxMessages   \* bound: messages sent in a behaviour

ASSUME FramingAssumption ==
  /\ LenBytes \in Nat \ {0}
  /\ MaxSize \in Nat
  /\ Sizes \subseteq 1..MaxSize
  /\ Capacity \in Nat \ {0}
  /\ MaxMessages \in Nat

VARIABLES
  \* The sender.
  sent,       \* sizes of the messages send_message was called with
  written,    \* bytes of the last of them given to send
  sender,     \* "open", "closed" (its end can be read) or "reset"
  stream,     \* the bytes in flight
  \* receive_message.
  receiver,   \* "open", "closed" (0 was returned) or "dead" (DIE)
  got,        \* bytes of the length read
  size,       \* the length, once it is read
  body,       \* bytes of the message read
  received,   \* messages returned (history)
  split       \* was some length written or read in pieces? (history)

vars == <<sent, written, sender, stream, receiver, got, size, body, received,
          split>>

Byte == [msg : 0..MaxMessages, pos : 1..(LenBytes + MaxSize)]

TypeOK ==
  /\ sent \in Seq(Sizes) /\ Len(sent) <= MaxMessages
  /\ written \in 0..(LenBytes + MaxSize)
  /\ sender \in {"open", "closed", "reset"}
  /\ stream \in Seq(Byte) /\ Len(stream) <= Capacity
  /\ receiver \in {"open", "closed", "dead"}
  /\ got \in 0..LenBytes
  /\ size \in 0..MaxSize
  /\ body \in Seq(Byte) /\ Len(body) <= size
  /\ received \in Seq(Seq(Byte))
  /\ split \in BOOLEAN

Init ==
  /\ sent = <<>>
  /\ written = 0
  /\ sender = "open"
  /\ stream = <<>>
  /\ receiver = "open"
  /\ got = 0
  /\ size = 0
  /\ body = <<>>
  /\ received = <<>>
  /\ split = FALSE

-----------------------------------------------------------------------------
(* send_message                                                            *)

Current == Len(sent)
Busy == sent # <<>> /\ written < LenBytes + sent[Current]

SendMessage(n) ==
  /\ sender = "open" /\ ~Busy
  /\ Current < MaxMessages
  /\ sent' = Append(sent, n)
  /\ written' = 0
  /\ UNCHANGED <<sender, stream, receiver, got, size, body, received, split>>

\* The k bytes after the first `written' of the frame; a length that is
\* resumed goes on with bytes from elsewhere.
Chunk(k) ==
  [j \in 1..k |->
     [msg |-> IF written \in 1..(LenBytes - 1) THEN 0 ELSE Current,
      pos |-> written + j]]

\* One send: it takes what fits of what the loop still has to write.
WriteAll(k) ==  \* mutant: what a short send left is not sent
  /\ sender = "open" /\ Busy
  /\ Len(stream) + k <= Capacity
  /\ k <= IF written < LenBytes THEN LenBytes - written
                                ELSE LenBytes + sent[Current] - written
  /\ stream' = stream \o Chunk(k)
  /\ written' = IF written < LenBytes THEN written + k ELSE LenBytes + sent[Current]
  /\ split' = (split \/ (written < LenBytes /\ k < LenBytes))
  /\ UNCHANGED <<sent, sender, receiver, got, size, body, received>>
Write(k) ==
  /\ sender = "open" /\ Busy
  /\ Len(stream) + k <= Capacity
  /\ k <= IF written < LenBytes THEN LenBytes - written
                                ELSE LenBytes + sent[Current] - written
  /\ stream' = stream \o Chunk(k)
  /\ written' = written + k
  /\ split' = (split \/ (written < LenBytes /\ k < LenBytes))
  /\ UNCHANGED <<sent, sender, receiver, got, size, body, received>>

\* The sending process closes the connection or ends, also inside
\* send_message.  A reset may overtake what was in flight.
Stop ==
  /\ sender = "open"
  /\ \/ sender' = "closed" /\ UNCHANGED stream
     \/ sender' = "reset" /\ \E n \in 0..Len(stream) : stream' = SubSeq(stream, 1, n)
  /\ UNCHANGED <<sent, written, receiver, got, size, body, received, split>>

-----------------------------------------------------------------------------
(* receive_message, called again and again                                 *)

Reading == receiver = "open" /\ got = LenBytes
Taken(k) == SubSeq(stream, 1, k)
Rest(k) == SubSeq(stream, k + 1, Len(stream))

IsLength(chunk) ==
  /\ Len(chunk) = LenBytes
  /\ \A j \in 1..LenBytes : chunk[j].pos = j /\ chunk[j].msg = chunk[1].msg
  /\ chunk[1].msg # 0

\* What `size' may hold after its last bytes were read.
Lengths(chunk) ==
  IF IsLength(chunk) THEN {sent[chunk[1].msg]} ELSE 0..MaxSize

\* A length that is not positive makes receive_message return 0, which its
\* callers take for the end of the connection.
ReadLength(k) ==
  /\ receiver = "open" /\ got < LenBytes
  /\ k <= Len(stream) /\ k <= LenBytes - got
  /\ stream' = Rest(k)
  /\ got' = got + k
  /\ split' = (split \/ k < LenBytes)
  /\ IF got' < LenBytes THEN UNCHANGED <<size, receiver>>
     ELSE /\ size' \in Lengths(Taken(k))
          /\ receiver' = IF size' = 0 THEN "closed" ELSE "open"
  /\ UNCHANGED <<sent, written, sender, body, received>>

\* The bytes of the message; with the last one receive_message returns and
\* is called anew.
LeftAlways == size  \* mutant: every recv asks for the whole size
Left == size - Len(body)
ReadBody(k) ==
  /\ Reading
  /\ k <= Len(stream) /\ k <= Left
  /\ stream' = Rest(k)
  /\ IF k = Left
     THEN /\ received' = Append(received, body \o Taken(k))
          /\ body' = <<>> /\ got' = 0 /\ size' = 0
     ELSE /\ body' = body \o Taken(k)
          /\ UNCHANGED <<received, got, size>>
  /\ UNCHANGED <<sent, written, sender, receiver, split>>

\* recv returns 0 or -1.  The loop over the length does not look for -1: the
\* next recv, if there is one, returns 0.  The loop over the message does.
Ended == receiver = "open" /\ stream = <<>> /\ sender # "open"
ReadEndKeeping ==  \* mutant: returns what it has
  /\ Ended
  /\ receiver' = "closed"
  /\ received' = IF Reading THEN Append(received, body) ELSE received
  /\ UNCHANGED <<sent, written, sender, stream, got, size, body, split>>
ReadEnd ==
  /\ Ended
  /\ receiver' = IF Reading /\ sender = "reset" THEN "dead" ELSE "closed"
  /\ UNCHANGED <<sent, written, sender, stream, got, size, body, received, split>>

Step == (\E k \in 1..Capacity : ReadLength(k) \/ ReadBody(k)) \/ ReadEnd
Next ==
  \/ \E n \in Sizes : SendMessage(n)
  \/ \E k \in 1..Capacity : Write(k)
  \/ Stop
  \/ Step

(* The sender's loop goes on while there is room, and the receiver reads    *)
(* what there is; nobody has to send a message or to stop.                 *)
Fairness == WF_vars(\E k \in 1..Capacity : Write(k)) /\ WF_vars(Step)

Spec == Init /\ [][Next]_vars
FairSpec == Spec /\ Fairness

-----------------------------------------------------------------------------
Body(i) == [j \in 1..sent[i] |-> [msg |-> i, pos |-> LenBytes + j]]
Complete == IF Busy THEN Current - 1 ELSE Current

\* "I wanted to be sure that I receive the correct message" (readme.txt:29-32):
\* wherever the stream was cut, what is returned are the messages that were
\* sent, whole and in order - as long as no length was cut.
WholeInOrder ==
  ~split => \A i \in DOMAIN received : i <= Current /\ received[i] = Body(i)

\* A sender that ends, even in the middle of a message, has delivered all
\* the messages before it and no part of one.
EndIsExact ==
  receiver = "closed" /\ sender = "closed" /\ ~split => Len(received) = Complete

\* A message send_message is done with is returned by receive_message.
Delivered ==
  \A i \in 1..MaxMessages :
    Complete >= i ~> Len(received) >= i \/ split \/ sender = "reset"

=============================================================================
