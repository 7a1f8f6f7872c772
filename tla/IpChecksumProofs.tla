-------------------------- MODULE IpChecksumProofs --------------------------
(* The checksum of every header, not only of those the run begins with.    *)
EXTENDS IpChecksum, TLAPS

\* What ten words can add up to.
Sums == 0..(10 * MaxWord)

LEMMA MaxWordIs == MaxWord \in Nat /\ MaxWord > 65534 /\ MaxWord < 65536
BY SMT DEF MaxWord

\* Adding the carries twice is enough: a sum and its checksum come to a
\* multiple of 65535, and only such a sum has the checksum 0.
LEMMA ChecksumCompletes ==
  ASSUME NEW s \in Sums
  PROVE  /\ checksum(s) \in Word
         /\ \E k \in 1..11 : s + checksum(s) = 65535 * k
<1> DEFINE q == s \div 65536
           r == s % 65536
<1>1. /\ q \in 0..9 /\ r \in Word /\ s = 65536 * q + r
  BY MaxWordIs, SMT DEF Sums, Word
<1>2. CASE q + r < 65536
  <2>1. Fold(s) = q + r
    BY <1>1, <1>2, MaxWordIs, SMT DEF Fold, Sums, Word
  <2>2. checksum(s) = 65535 - (q + r)
    BY <1>1, <1>2, <2>1, MaxWordIs, SMT DEF checksum, Sums, Word
  <2>3. s + checksum(s) = 65535 * (q + 1)
    BY <1>1, <2>2, MaxWordIs, SMT DEF Sums, Word
  <2>4. QED
    BY <1>1, <1>2, <2>2, <2>3, MaxWordIs, SMT DEF Sums, Word
<1>3. CASE q + r >= 65536
  <2>1. (q + r) \div 65536 = 1
    BY <1>1, <1>3, MaxWordIs, SMT DEF Sums, Word
  <2>2. Fold(s) = q + r + 1
    BY <1>1, <2>1, MaxWordIs, SMT DEF Fold, Sums, Word
  <2>3. (q + r + 1) % 65536 = q + r + 1 - 65536
    BY <1>1, <1>3, MaxWordIs, SMT DEF Sums, Word
  <2>4. checksum(s) = 65535 - (q + r + 1 - 65536)
    BY <2>2, <2>3, MaxWordIs, SMT DEF checksum, Sums, Word
  <2>5. s + checksum(s) = 65535 * (q + 2)
    BY <1>1, <2>4, MaxWordIs, SMT DEF Sums, Word
  <2>6. QED
    BY <1>1, <1>3, <2>4, <2>5, MaxWordIs, SMT DEF Sums, Word
<1>4. QED
  BY <1>1, <1>2, <1>3, MaxWordIs, SMT DEF Sums, Word

LEMMA ChecksumZero ==
  ASSUME NEW s \in Sums
  PROVE  checksum(s) = 0 <=> \E k \in 1..10 : s = 65535 * k
<1>1. PICK k \in 1..11 : s + checksum(s) = 65535 * k /\ checksum(s) \in Word
  BY ChecksumCompletes, MaxWordIs, SMT DEF Sums, Word
<1>2. CASE checksum(s) = 0
  BY <1>1, <1>2, MaxWordIs, SMT DEF Sums, Word
<1>3. CASE checksum(s) # 0
  <2>1. ASSUME NEW j \in 1..10, s = 65535 * j PROVE FALSE
    <3>1. checksum(s) = 65535 /\ k = j + 1
      BY <1>1, <1>3, <2>1, MaxWordIs, SMT DEF Sums, Word
    <3>2. s \div 65536 = j - 1 /\ s % 65536 = 65536 - j
      BY <2>1, MaxWordIs, SMT DEF Sums, Word
    <3>3. Fold(s) = 65535
      BY <3>2, MaxWordIs, SMT DEF Fold, Sums, Word
    <3>4. QED
      BY <1>3, <3>3, MaxWordIs, SMT DEF checksum, Sums, Word
  <2>2. QED
    BY <1>3, <2>1, MaxWordIs, SMT DEF Sums, Word
<1>4. QED
  BY <1>2, <1>3, MaxWordIs, SMT DEF Sums, Word

\* A header as it is written passes, and with one word changed it does not.
LEMMA WrittenPasses ==
  ASSUME NEW h \in Header
  PROVE  WithCheck(h) \in Header /\ Verifies(WithCheck(h))
<1> DEFINE blank == [h EXCEPT ![CHECK] = 0]
           rest == IP_SIZE(blank)
<1>1. /\ rest = h[1] + h[2] + h[3] + h[4] + h[5] + h[7] + h[8] + h[9] + h[10]
      /\ rest \in 0..(9 * MaxWord)
  BY MaxWordIs, SMT DEF Header, Word, IP_SIZE, CHECK, Sums
<1>2. rest \in Sums
  BY <1>1, MaxWordIs, SMT DEF Sums, Word
<1> HIDE DEF rest
<1>3. /\ checksum(rest) \in Word
      /\ \E k \in 1..11 : rest + checksum(rest) = 65535 * k
  BY <1>2, ChecksumCompletes, MaxWordIs, SMT DEF Sums, Word
<1>4. IP_SIZE([h EXCEPT ![CHECK] = checksum(rest)]) = rest + checksum(rest)
  BY <1>1, <1>3, MaxWordIs, SMT DEF IP_SIZE, Header, CHECK, Sums, Word
<1>5. rest + checksum(rest) \in Sums /\ \E k \in 1..10 : rest + checksum(rest) = 65535 * k
  BY <1>1, <1>3, MaxWordIs, SMT DEF Sums, Word
<1>6. checksum(rest + checksum(rest)) = 0
  BY <1>5, ChecksumZero, MaxWordIs, SMT DEF Sums, Word
<1>7. WithCheck(h) = [h EXCEPT ![CHECK] = checksum(rest)]
  BY MaxWordIs, SMT DEF WithCheck, rest, Sums, Word
<1>8. WithCheck(h) \in Header
  BY <1>3, <1>7, MaxWordIs, SMT DEF Header, Word, CHECK, Sums
<1>9. QED
  BY <1>4, <1>6, <1>7, <1>8, MaxWordIs, SMT DEF Verifies, Sums, Word

LEMMA HeaderWith ==
  ASSUME NEW h \in Header, NEW i \in 1..10, NEW value \in Word
  PROVE  [h EXCEPT ![i] = value] \in Header
BY DEF Header

LEMMA SumOfChanged ==
  ASSUME NEW h \in Header, NEW i \in 1..10, NEW value \in Word
  PROVE  /\ IP_SIZE([h EXCEPT ![i] = value]) = IP_SIZE(h) + value - h[i]
         /\ IP_SIZE(h) \in Sums
         /\ h[i] \in Word
<1>1. \A j \in 1..10 : h[j] \in Word
  BY MaxWordIs, SMT DEF Header, Word, Sums
<1>2. value \in Word /\ DOMAIN h = 1..10
  BY MaxWordIs, SMT DEF Header, Word, Sums
<1>3. IP_SIZE(h) \in Sums /\ h[i] \in Word
  BY <1>1, MaxWordIs, SMT DEF IP_SIZE, Sums, Word
<1>4. IP_SIZE([h EXCEPT ![i] = value]) = IP_SIZE(h) + value - h[i]
  BY <1>1, <1>2, MaxWordIs, SMTT(30) DEF IP_SIZE, Sums, Word
<1>5. QED
  BY <1>3, <1>4

LEMMA ChangeFails ==
  ASSUME NEW h \in Header, Verifies(h), NEW i \in 1..10, NEW value \in Word,
         ~SameSum(value, h[i])
  PROVE  ~Verifies([h EXCEPT ![i] = value])
<1> DEFINE s == IP_SIZE(h)
           t == IP_SIZE([h EXCEPT ![i] = value])
           w == h[i]
<1>1. s \in Sums /\ t = s + value - w /\ w \in Word
  BY SumOfChanged, MaxWordIs, SMT DEF Sums, Word
<1>2. t \in Sums
  BY HeaderWith, SumOfChanged, SMT
<1>3. ~SameSum(value, w)
  OBVIOUS
<1> HIDE DEF s, t, w
<1>4. t # s /\ t - s < 65535 /\ s - t < 65535
  BY <1>1, <1>3, MaxWordIs, SMT DEF SameSum, Sums, Word
<1>5. PICK k \in 1..10 : s = 65535 * k
  BY <1>1, ChecksumZero, MaxWordIs, SMT DEF Verifies, s, Sums, Word
<1>6. ~ \E j \in 1..10 : t = 65535 * j
  BY <1>1, <1>4, <1>5, MaxWordIs, SMT DEF Sums, Word
<1>7. checksum(t) # 0
  BY <1>2, <1>6, ChecksumZero, MaxWordIs, SMT DEF Sums, Word
<1>8. QED
  BY <1>7, MaxWordIs, SMT DEF Verifies, t, Sums, Word

ChecksumInv == TypeOK /\ GoodHeadersPass /\ SpoiledHeadersFail

LEMMA SentIsHeader ==
  ASSUME NEW length \in Word, NEW id \in Word, NEW protocol \in Word,
         NEW source \in Word, NEW target \in Word, NEW hops \in 1..3
  PROVE  Sent(length, id, protocol, source, target, hops) \in Header
<1> DEFINE a == [i \in 1..10 |-> 49320]
           b == [a EXCEPT ![1] = 17664]
           c == [b EXCEPT ![2] = length]
           d == [c EXCEPT ![3] = id]
           e == [d EXCEPT ![4] = 0]
           f == [e EXCEPT ![5] = 256 * hops + (protocol % 256)]
           g == [f EXCEPT ![8] = source]
           h == [g EXCEPT ![10] = target]
<1>1. Sent(length, id, protocol, source, target, hops) = h
  BY SMT DEF Sent, TTL
<1>2. a \in Header
  BY MaxWordIs, SMT DEF Header, Word
<1> HIDE DEF a, b, c, d, e, f, g, h
<1>3. b \in Header
  BY MaxWordIs, <1>2, SMT DEF Header, Word, b
<1>4. c \in Header
  BY <1>3, SMT DEF Header, c
<1>5. d \in Header
  BY <1>4, SMT DEF Header, d
<1>6. e \in Header
  BY MaxWordIs, <1>5, SMT DEF Header, Word, e
<1>7. 256 * hops + (protocol % 256) \in Word
  BY MaxWordIs, SMT DEF Word
<1>8. f \in Header
  BY <1>6, <1>7, SMT DEF Header, f
<1>9. g \in Header
  BY <1>8, SMT DEF Header, g
<1>10. h \in Header
  BY <1>9, SMT DEF Header, h
<1>11. QED
  BY <1>1, <1>10

LEMMA ChecksumInit == Init => ChecksumInv
<1> SUFFICES ASSUME Init PROVE ChecksumInv
  OBVIOUS
<1>1. PICK length \in Values, id \in Values, protocol \in Values,
           source \in Values, target \in Values, hops \in 1..3 :
        words = WithCheck(Sent(length, id, protocol, source, target, hops))
  BY DEF Init
<1>2. Sent(length, id, protocol, source, target, hops) \in Header
  BY SentIsHeader, ValuesAssumption
<1>3. words \in Header /\ Verifies(words)
  BY <1>1, <1>2, WrittenPasses
<1>4. QED
  BY <1>3 DEF Init, ChecksumInv, TypeOK, GoodHeadersPass, SpoiledHeadersFail

LEMMA BlankIsHeader ==
  ASSUME NEW h \in Header
  PROVE  Blank(h) \in Header
<1> DEFINE a == [i \in 1..10 |-> 0]
           b == [a EXCEPT ![1] = 17664]
           c == [b EXCEPT ![2] = 28]
           d == [c EXCEPT ![3] = 256]
           e == [d EXCEPT ![5] = 16385]
           f == [e EXCEPT ![7] = h[9]]
           g == [f EXCEPT ![8] = h[10]]
           j == [g EXCEPT ![9] = h[7]]
           k == [j EXCEPT ![10] = h[8]]
<1>1. Blank(h) = k
  BY SMT DEF Blank, TTL
<1>2. a \in Header
  BY MaxWordIs, SMT DEF Header, Word
<1> HIDE DEF a, b, c, d, e, f, g, j, k
<1>3. b \in Header
  BY MaxWordIs, <1>2, SMT DEF Header, Word, b
<1>4. c \in Header
  BY MaxWordIs, <1>3, SMT DEF Header, Word, c
<1>5. d \in Header
  BY MaxWordIs, <1>4, SMT DEF Header, Word, d
<1>6. e \in Header
  BY MaxWordIs, <1>5, SMT DEF Header, Word, e
<1>7. f \in Header
  BY <1>6, SMT DEF Header, f
<1>8. g \in Header
  BY <1>7, SMT DEF Header, g
<1>9. j \in Header
  BY <1>8, SMT DEF Header, j
<1>10. k \in Header
  BY <1>9, SMT DEF Header, k
<1>11. QED
  BY <1>1, <1>10

LEMMA RepliesAreHeaders ==
  ASSUME NEW h \in Header
  PROVE  IcmpHeader(h) \in Header
<1> DEFINE k == Blank(h)
<1>1. k \in Header
  BY BlankIsHeader
<1>2. IcmpHeader(h) = [k EXCEPT ![6] = checksum(ICMP_SIZE(k))]
  BY SMT DEF IcmpHeader, CHECK
<1> HIDE DEF k
<1>3. ICMP_SIZE(k) \in Sums
  BY <1>1, MaxWordIs, SMT DEF ICMP_SIZE, Header, Word, Sums
<1>4. checksum(ICMP_SIZE(k)) \in Word
  BY <1>3, ChecksumCompletes
<1>5. QED
  BY <1>1, <1>2, <1>4, SMT DEF Header

LEMMA ChecksumStep == ChecksumInv /\ [Next]_vars => ChecksumInv'
<1> SUFFICES ASSUME ChecksumInv, [Next]_vars PROVE ChecksumInv'
  OBVIOUS
<1> USE DEF ChecksumInv
<1>0. words \in Header /\ reply \in BOOLEAN /\ spoiled \in BOOLEAN
  BY DEF TypeOK
<1>1. CASE Spoil
  <2>1. PICK i \in 1..10, value \in Values :
          /\ ~SameSum(value, words[i])
          /\ words' = [words EXCEPT ![i] = value]
    BY <1>1 DEF Spoil
  <2>2. value \in Word
    BY ValuesAssumption
  <2>3. words' \in Header
    BY <1>0, <2>1, <2>2, HeaderWith
  <2>4. reply \/ ~Verifies(words')
    BY <1>0, <1>1, <2>1, <2>2, ChangeFails DEF Spoil, GoodHeadersPass
  <2>5. QED
    BY <1>1, <2>3, <2>4 DEF Spoil, TypeOK, GoodHeadersPass, SpoiledHeadersFail
<1>2. CASE Drop
  BY <1>2 DEF Drop, TypeOK, GoodHeadersPass, SpoiledHeadersFail
<1>3. CASE Forward
  <2>1. [words EXCEPT ![TTL] = @ - 256] \in Header
    <3>1. words[TTL] \in Word
      BY <1>0, MaxWordIs, SMT DEF Header, TTL, Sums, Word
    <3>2. words[TTL] \div 256 > 1
      BY <1>3 DEF Forward, ttl
    <3>3. words[TTL] - 256 \in Word
      BY <3>1, <3>2, MaxWordIs, SMT DEF Word, Sums
    <3>4. TTL \in 1..10
      BY MaxWordIs, SMT DEF TTL, Sums, Word
    <3>5. QED
      BY <1>0, <3>3, <3>4, HeaderWith, SMT
  <2>2. words' \in Header /\ Verifies(words')
    BY <1>3, <2>1, WrittenPasses DEF Forward, Forwarded
  <2>3. reply \/ ~spoiled
    BY <1>3 DEF Forward, SpoiledHeadersFail
  <2>4. QED
    BY <1>3, <2>2, <2>3 DEF Forward, TypeOK, GoodHeadersPass, SpoiledHeadersFail
<1>4. CASE Answer
  <2>1. IcmpHeader(words) \in Header
    BY <1>0, RepliesAreHeaders
  <2>2. words' \in Header /\ reply'
    BY <1>0, <1>4, <2>1 DEF Answer
  <2>3. QED
    BY <1>4, <2>2 DEF Answer, TypeOK, GoodHeadersPass, SpoiledHeadersFail
<1>5. CASE UNCHANGED vars
  BY <1>5 DEF vars, TypeOK, GoodHeadersPass, SpoiledHeadersFail
<1>6. QED
  BY <1>1, <1>2, <1>3, <1>4, <1>5 DEF Next

LEMMA ChecksumAlways == Spec => []ChecksumInv
BY ChecksumInit, ChecksumStep, PTL DEF Spec

\* Headers stay headers: every word fits 16 bits, the checksum's cast included.
THEOREM TypeCorrect == Spec => []TypeOK
BY ChecksumAlways, PTL DEF ChecksumInv

\* For every header and any number of hops: what a router forwards, the next
\* one accepts.
THEOREM ForwardedPasses == Spec => []GoodHeadersPass
BY ChecksumAlways, PTL DEF ChecksumInv

\* For every header: no single spoiled word gets past a router.
THEOREM SpoiledNeverPasses == Spec => []SpoiledHeadersFail
BY ChecksumAlways, PTL DEF ChecksumInv

=============================================================================
