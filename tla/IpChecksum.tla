----------------------------- MODULE IpChecksum -----------------------------
(***************************************************************************)
(* The checksum of an IPv4 header on its way through routers that run this *)
(* code (homework1-public): checksum (lib.c), and ip_handler and           *)
(* icmp_handler (handlers.cpp), which check it and write it.  A header is  *)
(* its ten 16-bit words as ntohs gives them; links may spoil one word.     *)
(***************************************************************************)
EXTENDS Integers

CONSTANT Values  \* the words a host, or a faulty link, may put in a header

MaxWord == 65535
Word == 0..MaxWord

ASSUME ValuesAssumption == Values \subseteq Word

VARIABLES
  words,    \* the header
  place,    \* "link", or "dropped"
  reply,    \* is it one that icmp_handler wrote?
  spoiled   \* has a link changed it?

vars == <<words, place, reply, spoiled>>

\* version, ihl and tos; tot_len; id; frag_off; ttl and protocol; check; the
\* two addresses.
TTL == 5
CHECK == 6
Header == [1..10 -> Word]
ttl(h) == h[TTL] \div 256

TypeOK ==
  /\ words \in Header
  /\ place \in {"link", "dropped"}
  /\ reply \in BOOLEAN
  /\ spoiled \in BOOLEAN

-----------------------------------------------------------------------------
(* checksum: the words are added up, the carries are added twice, and the  *)
(* complement is cut to 16 bits.  Every call has an even length.           *)

IP_SIZE(h) == h[1] + h[2] + h[3] + h[4] + h[5] + h[6] + h[7] + h[8] + h[9] + h[10]
ICMP_SIZE(h) == h[1] + h[2] + h[3] + h[4]

FoldOnce(sum) == (sum \div 65536) + (sum % 65536)  \* mutant: adds the carries once
Fold(sum) ==
  LET once == (sum \div 65536) + (sum % 65536)
  IN  once + (once \div 65536)
ChecksumUncut(sum) == 65535 - Fold(sum)            \* mutant: no cast to 16 bits
checksum(sum) == 65535 - (Fold(sum) % 65536)

Verifies(h) == checksum(IP_SIZE(h)) = 0
WithCheck(h) == [h EXCEPT ![CHECK] = checksum(IP_SIZE([h EXCEPT ![CHECK] = 0]))]

-----------------------------------------------------------------------------
\* A host sends a header, with a good checksum.
Sent(length, id, protocol, source, target, hops) ==
  [[i \in 1..10 |-> 49320] EXCEPT
     ![1] = 17664, ![2] = length, ![3] = id, ![4] = 0,
     ![TTL] = 256 * hops + (protocol % 256), ![8] = source, ![10] = target]
Init ==
  /\ \E length, id, protocol, source, target \in Values, hops \in 1..3 :
       words = WithCheck(Sent(length, id, protocol, source, target, hops))
  /\ place = "link"
  /\ reply = FALSE
  /\ spoiled = FALSE

\* One word changes, to one the sum can tell from it.
SameSum(v, w) == v % 65535 = w % 65535
Spoil ==
  /\ place = "link"
  /\ ~spoiled
  /\ \E i \in 1..10, value \in Values :
       /\ ~SameSum(value, words[i])
       /\ words' = [words EXCEPT ![i] = value]
  /\ spoiled' = TRUE
  /\ UNCHANGED <<place, reply>>

\* ip_handler drops a header that does not verify ...
Drop ==
  /\ place = "link"
  /\ ~Verifies(words)
  /\ place' = "dropped"
  /\ UNCHANGED <<words, reply, spoiled>>

\* ... sends one on with a lower TTL ...
ForwardedKeepingCheck(h) == [h EXCEPT ![TTL] = @ - 256]  \* mutant
Forwarded(h) == WithCheck([h EXCEPT ![TTL] = @ - 256])
ForwardUnchecked ==         \* mutant: ip_handler without the check
  /\ place = "link"
  /\ ttl(words) > 1
  /\ words' = Forwarded(words)
  /\ UNCHANGED <<place, reply, spoiled>>
Forward ==
  /\ place = "link"
  /\ Verifies(words)
  /\ ttl(words) > 1
  /\ words' = Forwarded(words)
  /\ UNCHANGED <<place, reply, spoiled>>

\* ... or answers it: it is for the router, has no hops left or no route.
\* icmp_handler adds up ICMP_SIZE bytes of the IP header.
Blank(h) ==
  [[i \in 1..10 |-> 0] EXCEPT
     ![1] = 17664, ![2] = 28, ![3] = 256, ![TTL] = 16385,
     ![7] = h[9], ![8] = h[10], ![9] = h[7], ![10] = h[8]]
IcmpHeader(h) == [Blank(h) EXCEPT ![CHECK] = checksum(ICMP_SIZE(Blank(h)))]
Answer ==
  /\ place = "link"
  /\ Verifies(words)
  /\ words' = IcmpHeader(words)
  /\ reply' = TRUE
  /\ UNCHANGED <<place, spoiled>>

Next == Spoil \/ Drop \/ Forward \/ Answer

Spec == Init /\ [][Next]_vars

-----------------------------------------------------------------------------
\* Over any number of hops, a header no link has spoiled passes the check of
\* the next router: every router that lowers the TTL writes a checksum that
\* fits, carries included.
GoodHeadersPass ==
  place = "link" /\ ~reply /\ ~spoiled => Verifies(words)

\* A spoiled word is seen by the next router, which drops the header: none
\* writes a good checksum over it.
SpoiledHeadersFail ==
  place = "link" /\ ~reply /\ spoiled => ~Verifies(words)

\* "IPv4 checksum per RFC 791" (lib.h:58), which "if it is wrong, drop the
\* packet" (README:38) relies on: what icmp_handler writes passes as well.
RepliesPass ==
  place = "link" /\ reply /\ ~spoiled => Verifies(words)

=============================================================================
