------------------------- MODULE RoutingTableProofs -------------------------
(* The binary search stays inside its table, halves it at every turn, and  *)
(* finds the longest match unless a network hides it, for addresses of any *)
(* width and tables of any length.                                         *)
EXTENDS RoutingTable, FiniteSetTheorems, FunctionTheorems, WellFoundedInduction, TLAPS

\* The middle of what is left is one of its entries.
LEMMA MiddleInside ==
  ASSUME TypeOK, Searching
  PROVE  /\ mid \in left..right
         /\ mid + 1 \in 1..Len(routing_table)
         /\ Middle \in ToSet(routing_table)
<1>1. /\ left \in Nat /\ right \in Int /\ left <= right
      /\ Len(routing_table) \in Nat /\ right <= Len(routing_table) - 1
  BY DEF TypeOK, Searching
<1>2. mid \in left..right
  BY <1>1, SMT DEF mid
<1>3. mid + 1 \in 1..Len(routing_table)
  BY <1>1, <1>2
<1>4. DOMAIN routing_table = 1..Len(routing_table)
  BY DEF TypeOK
<1>5. QED
  BY <1>2, <1>3, <1>4 DEF Middle, ToSet

\* A table of at most MaxEntries sorted entries is a sequence of entries.
LEMMA TablesAreSequences == ASSUME NEW s \in Tables PROVE s \in Seq(Entries)
<1>1. PICK n \in 0..MaxEntries : s \in [1..n -> Entries]
  BY DEF Tables
<1>2. QED
  BY <1>1, RoutingTableAssumption

LEMMA TypeStep == TypeOK /\ [Next]_vars => TypeOK'
<1> SUFFICES ASSUME TypeOK, [Next]_vars PROVE TypeOK'
  OBVIOUS
<1>1. CASE Next
  <2>1. Searching /\ UNCHANGED <<routing_table, ip_addr>>
    BY <1>1 DEF Next, Match, GoRight, GoLeft
  <2>2. /\ mid \in left..right
        /\ Middle \in ToSet(routing_table)
    BY <2>1, MiddleInside
  <2>3. left \in Nat /\ right \in Int /\ right <= Len(routing_table) - 1
    BY DEF TypeOK
  <2>4. Len(routing_table) \in Nat
    BY DEF TypeOK
  <2>5. \/ left' = mid + 1 /\ right' = right
        \/ left' = left /\ right' = mid - 1
    BY <1>1 DEF Next, Match, GoRight, GoLeft
  <2>6. entry' \in {entry, Middle}
    BY <1>1 DEF Next, Match, GoRight, GoLeft
  <2>7. left' \in 0..Len(routing_table) /\ right' \in -1..(Len(routing_table) - 1)
    BY <2>1, <2>2, <2>3, <2>4, <2>5 DEF TypeOK
  <2>8. QED
    BY <2>1, <2>2, <2>6, <2>7 DEF TypeOK
<1>2. CASE UNCHANGED vars
  BY <1>2 DEF vars, TypeOK
<1>3. QED
  BY <1>1, <1>2

LEMMA TypeStart == Init => TypeOK
<1> SUFFICES ASSUME Init PROVE TypeOK
  OBVIOUS
<1>1. routing_table \in Seq(Entries)
  BY TablesAreSequences DEF Init
<1>2. Len(routing_table) \in Nat
  BY <1>1
<1>3. QED
  BY <1>1, <1>2 DEF Init, TypeOK

\* The indices of the search never leave the table, and it answers with an
\* entry of the table or with none.
THEOREM TypeCorrect == Spec => []TypeOK
BY TypeStart, TypeStep, PTL DEF Spec

\* Every turn of the loop at least halves what is left to search.
THEOREM SearchHalves == Spec => Halves
<1>1. TypeOK /\ [Next]_vars => [2 * (right' - left' + 1) <= right - left + 1]_vars
  <2> SUFFICES ASSUME TypeOK, Next
               PROVE  2 * (right' - left' + 1) <= right - left + 1
    OBVIOUS
  <2>1. Searching
    BY DEF Next, Match, GoRight, GoLeft
  <2>2. \/ left' = mid + 1 /\ right' = right
        \/ left' = left /\ right' = mid - 1
    BY DEF Next, Match, GoRight, GoLeft
  <2>3. left \in Nat /\ right \in Int
    BY DEF TypeOK
  <2>4. 2 * mid \in (left + right - 1)..(left + right) /\ mid \in Int
    BY <2>3, SMT DEF mid
  <2>5. QED
    BY <2>2, <2>3, <2>4
<1>2. QED
  BY <1>1, TypeCorrect, PTL DEF Spec, Halves

-----------------------------------------------------------------------------
(* Masks.                                                                  *)

\* A set with one more member has twice as many subsets.
LEMMA PowerDoubles ==
  ASSUME NEW n \in Nat
  PROVE  2^n \in Nat \ {0} /\ 2^(n + 1) = 2 * 2^n
<1> DEFINE A == 1..n
           B == 1..(n + 1)
           S == SUBSET A
           T == {X \cup {n + 1} : X \in S}
           F == [X \in S |-> X \cup {n + 1}]
<1>1. IsFiniteSet(A) /\ Cardinality(A) = n
  <2>1. IsFiniteSet(A) /\ Cardinality(A) = IF 1 > n THEN 0 ELSE n - 1 + 1
    BY FS_Interval
  <2> HIDE DEF A
  <2>2. QED
    BY <2>1
<1>2. IsFiniteSet(B) /\ Cardinality(B) = n + 1
  <2>1. IsFiniteSet(B) /\ Cardinality(B) = IF 1 > n + 1 THEN 0 ELSE (n + 1) - 1 + 1
    BY FS_Interval
  <2> HIDE DEF B
  <2>2. QED
    BY <2>1
<1>3. IsFiniteSet(S) /\ Cardinality(S) = 2^n
  BY <1>1, FS_SUBSET
<1>4. IsFiniteSet(SUBSET B) /\ Cardinality(SUBSET B) = 2^(n + 1)
  BY <1>2, FS_SUBSET
<1>5. \A X \in S : n + 1 \notin X
  OBVIOUS
<1>6. IsFiniteSet(T) /\ Cardinality(T) = Cardinality(S)
  <2>1. F \in [S -> T]
    OBVIOUS
  <2>2. \A X, Y \in S : F[X] = F[Y] => X = Y
    <3>1. SUFFICES ASSUME NEW X \in S, NEW Y \in S, X \cup {n + 1} = Y \cup {n + 1} PROVE X = Y
      OBVIOUS
    <3>2. n + 1 \notin X /\ n + 1 \notin Y
      BY <1>5
    <3>3. \A x \in A : x \in X <=> x \in Y
      <4>1. \A x \in A : x # n + 1
        OBVIOUS
      <4>2. \A x : x \in X \cup {n + 1} <=> x \in Y \cup {n + 1}
        BY <3>1
      <4> HIDE DEF A
      <4>3. QED
        BY <4>1, <4>2
    <3>4. X \subseteq A /\ Y \subseteq A
      OBVIOUS
    <3> HIDE DEF A
    <3>5. QED
      BY <3>3, <3>4
  <2>3. \A y \in T : \E X \in S : F[X] = y
    OBVIOUS
  <2> HIDE DEF F, S, T
  <2>4. F \in Bijection(S, T)
    BY <2>1, <2>2, <2>3, Fun_IsBij
  <2>5. ExistsBijection(S, T)
    BY <2>4 DEF ExistsBijection
  <2>6. QED
    BY <1>3, <2>5, FS_Bijection
<1>7. SUBSET B = S \cup T
  <2>1. B = A \cup {n + 1} /\ n + 1 \notin A
    OBVIOUS
  <2>2. ASSUME NEW X \in SUBSET B PROVE X \in S \cup T
    <3>1. CASE n + 1 \in X
      <4>1. X \ {n + 1} \in S
        BY <2>1
      <4>2. X = (X \ {n + 1}) \cup {n + 1}
        BY <3>1
      <4>3. QED
        BY <4>1, <4>2
    <3>2. CASE n + 1 \notin X
      BY <2>1, <3>2
    <3>3. QED
      BY <3>1, <3>2
  <2>3. ASSUME NEW X \in S \cup T PROVE X \in SUBSET B
    BY <2>1
  <2>4. QED
    BY <2>2, <2>3
<1>8. S \cap T = {}
  BY <1>5
<1>9. Cardinality(S \cap T) = 0
  BY <1>8, FS_EmptySet
<1>10. 2^n \in Nat
  BY <1>3, FS_CardinalityType
<1>11. 2^(n + 1) = 2^n + 2^n
  <2> HIDE DEF S, T
  <2>1. Cardinality(S \cup T) = Cardinality(S) + Cardinality(T) - Cardinality(S \cap T)
    BY <1>3, <1>6, FS_Union
  <2>2. Cardinality(S \cup T) = 2^(n + 1)
    BY <1>4, <1>7
  <2>3. Cardinality(S) + Cardinality(T) - Cardinality(S \cap T) = 2^n + 2^n
    BY <1>3, <1>6, <1>9, <1>10
  <2>4. QED
    BY <2>1, <2>2, <2>3
<1>12. 2^n # 0
  <2>1. {} \in S
    OBVIOUS
  <2> HIDE DEF S
  <2>2. QED
    BY <1>3, <2>1, FS_EmptySet
<1>13. QED
  BY <1>10, <1>11, <1>12

\* Least members stand in for induction.
LEMMA Least ==
  ASSUME NEW S \in SUBSET Nat, S # {}
  PROVE  \E x \in S : \A y \in S : x <= y
<1>1. PICK x \in S : \A y \in S : ~(<<y, x>> \in OpToRel(<, Nat))
  BY NatLessThanWellFounded, WFMin
<1>2. ASSUME NEW y \in Nat, y < x PROVE <<y, x>> \in OpToRel(<, Nat)
  <2>1. <<y, x>> \in Nat \X Nat /\ <<y, x>>[1] = y /\ <<y, x>>[2] = x
    OBVIOUS
  <2>2. QED
    BY <1>2, <2>1 DEF OpToRel
<1>3. \A y \in S : ~(y < x)
  BY <1>1, <1>2
<1>4. QED
  BY <1>3

LEMMA PowersDivide ==
  ASSUME NEW p \in Nat, NEW q \in Nat, p <= q
  PROVE  \E c \in Nat \ {0} : 2^q = c * 2^p
<1> DEFINE Divides(k) == \E c \in Nat \ {0} : 2^(p + k) = c * 2^p
           S == {k \in Nat : ~Divides(k)}
<1>1. 2^p \in Nat
  BY PowerDoubles
<1>2. Divides(0)
  <2>1. p + 0 = p
    OBVIOUS
  <2>2. 2^p = 1 * 2^p /\ 1 \in Nat \ {0}
    BY <1>1
  <2>3. QED
    BY <2>1, <2>2
<1>3. ASSUME NEW k \in Nat, Divides(k) PROVE Divides(k + 1)
  <2>1. PICK c \in Nat \ {0} : 2^(p + k) = c * 2^p
    BY <1>3
  <2>2. 2^((p + k) + 1) = 2 * 2^(p + k) /\ p + k \in Nat
    <3>1. p + k \in Nat
      OBVIOUS
    <3>2. QED
      BY <3>1, PowerDoubles
  <2>3. (p + k) + 1 = p + (k + 1)
    OBVIOUS
  <2>4. 2^(p + (k + 1)) = 2 * (c * 2^p)
    BY <2>1, <2>2, <2>3
  <2> DEFINE m == 2^p
  <2>5. m \in Nat
    BY <1>1
  <2> HIDE DEF m
  <2>6. 2 * (c * m) = (2 * c) * m /\ 2 * c \in Nat \ {0}
    BY <2>1, <2>5
  <2>7. 2^(p + (k + 1)) = (2 * c) * m
    BY <2>4, <2>6 DEF m
  <2>8. QED
    BY <2>6, <2>7 DEF m
<1> HIDE DEF Divides
<1>4. S = {}
  <2>1. SUFFICES ASSUME S # {} PROVE FALSE
    OBVIOUS
  <2>2. S \in SUBSET Nat
    OBVIOUS
  <2> HIDE DEF S
  <2>3. PICK k \in S : \A y \in S : k <= y
    BY <2>1, <2>2, Least
  <2>4. k \in Nat /\ ~Divides(k)
    BY <2>3 DEF S
  <2>5. k # 0
    BY <1>2, <2>4
  <2>6. k - 1 \in Nat /\ ~(k <= k - 1) /\ (k - 1) + 1 = k
    BY <2>4, <2>5
  <2>7. Divides(k - 1)
    BY <2>3, <2>6 DEF S
  <2>8. QED
    BY <1>3, <2>4, <2>6, <2>7
<1>5. q - p \in Nat /\ p + (q - p) = q
  OBVIOUS
<1>6. Divides(q - p)
  BY <1>4, <1>5
<1>7. QED
  BY <1>5, <1>6 DEF Divides

\* Clearing the low bits leaves the largest multiple that is not above.
LEMMA LargestMultiple ==
  ASSUME NEW M \in Nat \ {0}, NEW a \in Nat
  PROVE  /\ a % M \in Nat /\ a - (a % M) \in Nat /\ a - (a % M) <= a
         /\ \E d \in Nat : a - (a % M) = M * d
         /\ \A d \in Nat : M * d <= a => M * d <= a - (a % M)
<1> DEFINE q == a \div M
           r == a % M
<1>1. q \in Int /\ r \in Int /\ 0 <= r /\ r < M /\ a = M * q + r
  OBVIOUS
<1> HIDE DEF q, r
<1>2. q \in Nat
  <2>1. SUFFICES ASSUME q <= -1 PROVE FALSE
    BY <1>1
  <2>2. M * q <= M * (-1)
    BY <1>1, <2>1
  <2>3. M * (-1) = -M /\ M * q \in Int
    BY <1>1
  <2>4. QED
    BY <1>1, <2>2, <2>3
<1>3. M * q \in Nat
  BY <1>2
<1>4. a - r = M * q /\ a - r <= a
  BY <1>1, <1>3
<1>5. ASSUME NEW d \in Nat, M * d <= a PROVE M * d <= M * q
  <2>1. SUFFICES ASSUME q + 1 <= d PROVE FALSE
    <3>1. d <= q => M * d <= M * q
      BY <1>2
    <3>2. QED
      BY <1>2, <2>1, <3>1
  <2>2. M * (q + 1) <= M * d
    BY <1>2, <2>1
  <2>3. M * (q + 1) = M * q + M
    BY <1>2
  <2>4. M * d \in Nat
    OBVIOUS
  <2>5. QED
    BY <1>1, <1>3, <1>5, <2>2, <2>3, <2>4
<1>6. r \in Nat /\ a - r \in Nat /\ a - r <= a
  BY <1>1, <1>3, <1>4
<1>7. \E d \in Nat : a - r = M * d
  BY <1>2, <1>4
<1>8. \A d \in Nat : M * d <= a => M * d <= a - r
  <2>1. SUFFICES ASSUME NEW d \in Nat, M * d <= a PROVE M * d <= a - r
    OBVIOUS
  <2>2. M * d <= M * q
    BY <1>5, <2>1
  <2>3. QED
    BY <1>4, <2>2
<1>9. QED
  BY <1>6, <1>7, <1>8 DEF r


LEMMA MaskedIs ==
  ASSUME NEW a \in Nat, NEW l \in 0..Width
  PROVE  /\ Masked(a, l) \in Nat /\ Masked(a, l) <= a
         /\ \E d \in Nat : Masked(a, l) = 2^(Width - l) * d
         /\ \A d \in Nat : 2^(Width - l) * d <= a => 2^(Width - l) * d <= Masked(a, l)
<1>1. Width - l \in Nat
  BY RoutingTableAssumption
<1> DEFINE M == 2^(Width - l)
<1>2. M \in Nat \ {0}
  BY <1>1, PowerDoubles
<1>3. Masked(a, l) = a - (a % M)
  BY DEF Masked
<1> HIDE DEF M
<1>4. QED
  BY <1>2, <1>3, LargestMultiple DEF M

\* A longer mask leaves more of an address ...
LEMMA LongerMask ==
  ASSUME NEW a \in Nat, NEW k \in 0..Width, NEW l \in 0..Width, k <= l
  PROVE  Masked(a, k) <= Masked(a, l)
<1>1. /\ Width - k \in Nat /\ Width - l \in Nat /\ Width - l <= Width - k
  BY RoutingTableAssumption
<1> DEFINE K == 2^(Width - k)
           L == 2^(Width - l)
<1>2. PICK c \in Nat \ {0} : K = c * L
  BY <1>1, PowersDivide
<1>3. L \in Nat \ {0}
  BY <1>1, PowerDoubles
<1>4. PICK d \in Nat : Masked(a, k) = K * d
  BY MaskedIs
<1>5. Masked(a, k) <= a
  BY MaskedIs
<1>6. \A n \in Nat : L * n <= a => L * n <= Masked(a, l)
  BY MaskedIs
<1> HIDE DEF K, L
<1>7. K * d = L * (c * d) /\ c * d \in Nat
  BY <1>2, <1>3
<1>8. QED
  BY <1>4, <1>5, <1>6, <1>7

\* ... and a larger address has the larger network.
LEMMA LargerNetwork ==
  ASSUME NEW a \in Nat, NEW b \in Nat, a <= b, NEW l \in 0..Width
  PROVE  Masked(a, l) <= Masked(b, l)
<1> DEFINE M == 2^(Width - l)
<1>1. PICK d \in Nat : Masked(a, l) = M * d
  BY MaskedIs
<1>2. Masked(a, l) \in Nat /\ Masked(a, l) <= a
  BY MaskedIs
<1>3. \A n \in Nat : M * n <= b => M * n <= Masked(b, l)
  BY MaskedIs
<1> HIDE DEF M
<1>4. Masked(a, l) <= b
  BY <1>2
<1>5. QED
  BY <1>1, <1>3, <1>4

-----------------------------------------------------------------------------
(* The order of the table.                                                 *)

LEMMA EntryIs ==
  ASSUME NEW e \in Entries
  PROVE  /\ e.net \in Nat /\ e.len \in 0..Width /\ Masked(e.net, e.len) = e.net
         /\ e = [net |-> e.net, len |-> e.len]
<1>1. Width \in Nat
  BY RoutingTableAssumption
<1>2. 2^Width \in Int
  BY <1>1, PowerDoubles
<1>3. e.net \in 0..(2^Width - 1)
  BY DEF Entries, Addresses
<1>4. e.net \in Nat
  BY <1>2, <1>3
<1>5. QED
  BY <1>4 DEF Entries

\* Neighbours in order make the whole table ordered.
LEMMA Sorted ==
  ASSUME NEW s \in Tables, NEW i \in 1..Len(s), NEW j \in 1..Len(s), i <= j
  PROVE  Before(s[i], s[j])
<1>1. s \in Seq(Entries) /\ \A k \in 1..(Len(s) - 1) : Before(s[k], s[k + 1])
  BY TablesAreSequences DEF Tables
<1>2. Len(s) \in Nat /\ \A k \in 1..Len(s) : s[k] \in Entries
  BY <1>1
<1>3. \A k \in 1..Len(s) : s[k].net \in Nat /\ s[k].len \in Nat
  BY <1>2, EntryIs
<1> DEFINE S == {k \in i..Len(s) : ~Before(s[i], s[k])}
<1>4. S = {}
  <2>1. SUFFICES ASSUME S # {} PROVE FALSE
    OBVIOUS
  <2>2. S \in SUBSET Nat
    OBVIOUS
  <2> HIDE DEF S
  <2>3. PICK k \in S : \A y \in S : k <= y
    BY <2>1, <2>2, Least
  <2>4. k \in i..Len(s) /\ ~Before(s[i], s[k])
    BY <2>3 DEF S
  <2>5. k # i
    <3>1. Before(s[i], s[i])
      BY <1>3 DEF Before
    <3>2. QED
      BY <2>4, <3>1
  <2>6. /\ k - 1 \in i..Len(s) /\ k - 1 \in 1..(Len(s) - 1) /\ (k - 1) + 1 = k
        /\ ~(k <= k - 1) /\ k \in 1..Len(s) /\ k - 1 \in 1..Len(s)
    BY <1>2, <2>4, <2>5
  <2>7. Before(s[i], s[k - 1])
    BY <2>3, <2>6 DEF S
  <2>8. Before(s[k - 1], s[k])
    BY <1>1, <2>6
  <2>9. Before(s[i], s[k])
    <3>1. /\ s[i].net \in Nat /\ s[i].len \in Nat
          /\ s[k].net \in Nat /\ s[k].len \in Nat
          /\ s[k - 1].net \in Nat /\ s[k - 1].len \in Nat
      BY <1>3, <2>6
    <3>2. s[i].net < s[k - 1].net \/ (s[i].net = s[k - 1].net /\ s[i].len <= s[k - 1].len)
      BY <2>7 DEF Before
    <3>3. s[k - 1].net < s[k].net \/ (s[k - 1].net = s[k].net /\ s[k - 1].len <= s[k].len)
      BY <2>6, <2>8 DEF Before
    <3> DEFINE a == s[i]  b == s[k - 1]  c == s[k]
    <3>4. /\ a.net \in Nat /\ a.len \in Nat /\ b.net \in Nat /\ b.len \in Nat
          /\ c.net \in Nat /\ c.len \in Nat
          /\ a.net < b.net \/ (a.net = b.net /\ a.len <= b.len)
          /\ b.net < c.net \/ (b.net = c.net /\ b.len <= c.len)
      BY <3>1, <3>2, <3>3
    <3> HIDE DEF a, b, c
    <3>5. a.net < c.net \/ (a.net = c.net /\ a.len <= c.len)
      BY <3>4
    <3>6. QED
      BY <3>5 DEF Before, a, c
  <2>10. QED
    BY <2>4, <2>9
<1>5. QED
  BY <1>2, <1>4

\* Of two entries that match, the later one has the longer mask.
LEMMA LaterMatch ==
  ASSUME NEW a \in Entries, NEW b \in Entries, NEW ip \in Nat, Before(a, b),
         Matches(a, ip), Matches(b, ip)
  PROVE  a.len <= b.len /\ (a = b \/ a.len < b.len)
<1>1. /\ a.net \in Nat /\ a.len \in 0..Width /\ a = [net |-> a.net, len |-> a.len]
      /\ b.net \in Nat /\ b.len \in 0..Width /\ b = [net |-> b.net, len |-> b.len]
  BY EntryIs
<1>2. Masked(ip, a.len) = a.net /\ Masked(ip, b.len) = b.net
  BY DEF Matches
<1>3. CASE a.net < b.net
  <2>1. SUFFICES ASSUME b.len <= a.len PROVE FALSE
    BY <1>1
  <2>2. Masked(ip, b.len) <= Masked(ip, a.len)
    BY <1>1, <2>1, LongerMask
  <2>3. QED
    BY <1>1, <1>2, <1>3, <2>2
<1>4. CASE a.net = b.net /\ a.len <= b.len
  <2>1. a.len = b.len => a = b
    BY <1>1, <1>4
  <2>2. QED
    BY <1>1, <1>4, <2>1
<1>5. QED
  BY <1>3, <1>4 DEF Before

\* Nothing before an entry that matches sends the search to the left ...
LEMMA NeverTooFarLeft ==
  ASSUME NEW e \in Entries, NEW b \in Entries, NEW ip \in Nat, Before(e, b),
         Matches(b, ip)
  PROVE  ~(Masked(ip, e.len) < e.net)
<1>1. /\ e.net \in Nat /\ e.len \in 0..Width /\ Masked(e.net, e.len) = e.net
      /\ b.net \in Nat /\ b.len \in 0..Width
  BY EntryIs
<1>2. b.net <= ip
  BY <1>1, MaskedIs DEF Matches
<1>3. e.net <= b.net
  BY <1>1 DEF Before
<1>4. e.net <= ip
  BY <1>1, <1>2, <1>3
<1>5. Masked(e.net, e.len) <= Masked(ip, e.len)
  BY <1>1, <1>4, LargerNetwork
<1>6. Masked(ip, e.len) \in Nat
  BY <1>1, MaskedIs
<1>7. QED
  BY <1>1, <1>5, <1>6

\* ... and only a network inside it and below the address to the right.
LEMMA OnlyBelowHides ==
  ASSUME NEW e \in Entries, NEW b \in Entries, ip_addr \in Nat, Before(b, e),
         Matches(b, ip_addr), Masked(ip_addr, e.len) > e.net
  PROVE  Below(e, b)
<1>1. /\ e.net \in Nat /\ e.len \in 0..Width
      /\ b.net \in Nat /\ b.len \in 0..Width /\ Masked(b.net, b.len) = b.net
  BY EntryIs
<1>2. Masked(ip_addr, e.len) \in Nat /\ Masked(ip_addr, e.len) <= ip_addr
  BY <1>1, MaskedIs
<1>3. e.net < ip_addr /\ ~Matches(e, ip_addr)
  BY <1>1, <1>2 DEF Matches
<1>4. b.net <= e.net
  BY <1>1 DEF Before
<1>5. Masked(ip_addr, b.len) = b.net
  BY DEF Matches
<1>6. e.len > b.len
  <2>1. SUFFICES ASSUME e.len <= b.len PROVE FALSE
    BY <1>1
  <2>2. Masked(ip_addr, e.len) <= Masked(ip_addr, b.len)
    BY <1>1, <2>1, LongerMask
  <2>3. QED
    BY <1>1, <1>2, <1>4, <1>5, <2>2
<1>7. Matches(b, e.net)
  <2>1. Masked(b.net, b.len) <= Masked(e.net, b.len)
    BY <1>1, <1>4, LargerNetwork
  <2>2. Masked(e.net, b.len) <= Masked(ip_addr, b.len)
    BY <1>1, <1>3, LargerNetwork
  <2>3. Masked(e.net, b.len) \in Nat
    BY <1>1, MaskedIs
  <2>4. QED
    BY <1>1, <1>5, <2>1, <2>2, <2>3 DEF Matches
<1>8. QED
  BY <1>3, <1>6, <1>7 DEF Below

-----------------------------------------------------------------------------
(* What the search finds.                                                  *)

Hidden(b) == \E e \in ToSet(routing_table) : Below(e, b)

\* The last match is of an entry the search has left behind.
MatchBehind ==
  entry # NoEntry => /\ Matches(entry, ip_addr)
                     /\ \E j \in 1..left : routing_table[j] = entry

\* A longest match that nothing hides is still ahead, unless one was found.
NotLost ==
  \A i \in 1..Len(routing_table) :
    routing_table[i] \in Best /\ ~Hidden(routing_table[i]) =>
      \/ left < i /\ i <= right + 1
      \/ entry \in Best /\ \E j \in 1..left : routing_table[j] = entry

SearchInv == TypeOK /\ routing_table \in Tables /\ MatchBehind /\ NotLost

\* What there is to know of the table and the address, in any state.
LEMMA TableIs ==
  ASSUME TypeOK, routing_table \in Tables
  PROVE  /\ ip_addr \in Nat /\ left \in Nat /\ left <= Len(routing_table)
         /\ right \in Int /\ right <= Len(routing_table) - 1
         /\ Len(routing_table) \in Nat
         /\ \A i \in 1..Len(routing_table) : routing_table[i] \in Entries
         /\ ToSet(routing_table) = {routing_table[i] : i \in 1..Len(routing_table)}
         /\ ToSet(routing_table) \subseteq Entries
         /\ \A i, j \in 1..Len(routing_table) :
              i <= j => Before(routing_table[i], routing_table[j])
<1>1. routing_table \in Seq(Entries)
  BY DEF TypeOK
<1>2. /\ left \in Nat /\ left <= Len(routing_table)
      /\ right \in Int /\ right <= Len(routing_table) - 1
      /\ Len(routing_table) \in Nat
  BY <1>1 DEF TypeOK
<1>3. ip_addr \in Nat
  <2>1. Width \in Nat /\ 2^Width \in Int
    BY RoutingTableAssumption, PowerDoubles
  <2>2. QED
    BY <2>1 DEF TypeOK, Addresses
<1>4. ToSet(routing_table) = {routing_table[i] : i \in 1..Len(routing_table)}
  BY <1>1 DEF ToSet
<1>5. \A i \in 1..Len(routing_table) : routing_table[i] \in Entries
  BY <1>1
<1>6. \A i, j \in 1..Len(routing_table) :
        i <= j => Before(routing_table[i], routing_table[j])
  BY Sorted
<1>7. QED
  BY <1>2, <1>3, <1>4, <1>5, <1>6

LEMMA BestExists ==
  ASSUME TypeOK, routing_table \in Tables,
         NEW e \in ToSet(routing_table), Matches(e, ip_addr)
  PROVE  Best # {}
<1> DEFINE There(f) == f \in ToSet(routing_table) /\ Matches(f, ip_addr)
           S == {n \in Nat : \E f \in ToSet(routing_table) : There(f) /\ n = Width - f.len}
<1>1. \A f \in ToSet(routing_table) :
        f.len \in Nat /\ Width - f.len \in Nat /\ Width \in Nat
  <2>1. SUFFICES ASSUME NEW f \in ToSet(routing_table)
                 PROVE  f.len \in Nat /\ Width - f.len \in Nat /\ Width \in Nat
    OBVIOUS
  <2>2. f \in Entries
    BY TableIs
  <2>3. f.len \in 0..Width /\ Width \in Nat
    BY <2>2, EntryIs, RoutingTableAssumption
  <2>4. QED
    BY <2>3
<1>2. S \in SUBSET Nat /\ S # {}
  <2>1. Width - e.len \in S
    BY <1>1
  <2>2. QED
    BY <2>1
<1> HIDE DEF S
<1>3. PICK n \in S : \A m \in S : n <= m
  BY <1>2, Least
<1>4. PICK f \in ToSet(routing_table) : There(f) /\ n = Width - f.len
  BY <1>3 DEF S
<1>5. \A g \in ToSet(routing_table) : Matches(g, ip_addr) => g.len <= f.len
  <2>1. SUFFICES ASSUME NEW g \in ToSet(routing_table), Matches(g, ip_addr)
                 PROVE  g.len <= f.len
    OBVIOUS
  <2>2. Width - g.len \in S
    BY <1>1, <2>1 DEF S
  <2>3. Width - f.len <= Width - g.len
    BY <1>3, <1>4, <2>2
  <2>4. QED
    BY <1>1, <2>3
<1>6. f \in Best
  BY <1>4, <1>5 DEF Best
<1>7. QED
  BY <1>6

\* A match after a longest one is a longest one.
LEMMA BestAfter ==
  ASSUME TypeOK, routing_table \in Tables,
         NEW i \in 1..Len(routing_table), NEW j \in 1..Len(routing_table), i <= j,
         routing_table[i] \in Best, Matches(routing_table[j], ip_addr)
  PROVE  routing_table[j] \in Best
<1> DEFINE a == routing_table[i]
           b == routing_table[j]
<1>1. /\ a \in Entries /\ b \in Entries /\ Before(a, b) /\ ip_addr \in Nat
      /\ b \in ToSet(routing_table) /\ ToSet(routing_table) \subseteq Entries
  BY TableIs
<1>2. Matches(a, ip_addr) /\ Matches(b, ip_addr)
      /\ \A f \in ToSet(routing_table) : Matches(f, ip_addr) => f.len <= a.len
  BY DEF Best
<1> HIDE DEF a, b
<1>3. a.len <= b.len
  BY <1>1, <1>2, LaterMatch
<1>4. a.len \in Nat /\ b.len \in Nat /\ \A f \in ToSet(routing_table) : f.len \in Nat
  BY <1>1, EntryIs
<1>5. \A f \in ToSet(routing_table) : Matches(f, ip_addr) => f.len <= b.len
  BY <1>2, <1>3, <1>4
<1>6. b \in Best
  BY <1>1, <1>2, <1>5 DEF Best
<1>7. QED
  BY <1>6 DEF b

\* A turn of the loop, at the entry m counted from 1.
LEMMA SearchTurn ==
  ASSUME SearchInv, Next
  PROVE  SearchInv' /\ (entry # NoEntry /\ entry' # entry => entry'.len > entry.len)
<1> DEFINE m == mid + 1
           Here == routing_table[m]
<1>1. /\ TypeOK /\ routing_table \in Tables /\ MatchBehind /\ NotLost
  BY DEF SearchInv
<1>2. /\ Searching /\ UNCHANGED <<routing_table, ip_addr>>
  BY DEF Next, Match, GoRight, GoLeft
<1>3. /\ ip_addr \in Nat /\ left \in Nat /\ right \in Int
      /\ Len(routing_table) \in Nat
      /\ \A i \in 1..Len(routing_table) : routing_table[i] \in Entries
      /\ ToSet(routing_table) = {routing_table[i] : i \in 1..Len(routing_table)}
      /\ \A i, j \in 1..Len(routing_table) :
           i <= j => Before(routing_table[i], routing_table[j])
      /\ left <= Len(routing_table)
  BY <1>1, TableIs
<1>4. /\ m \in 1..Len(routing_table) /\ left < m /\ m <= right + 1 /\ mid = m - 1
      /\ Middle = Here
  <2>1. mid \in left..right /\ mid + 1 \in 1..Len(routing_table)
    BY <1>1, <1>2, MiddleInside
  <2>2. mid \in Int
    BY <1>3, <2>1
  <2>3. Middle = Here
    BY DEF Middle
  <2>4. QED
    BY <1>3, <2>1, <2>2, <2>3
<1> HIDE DEF m
<1>5. \/ /\ Matches(Here, ip_addr) /\ entry' = Here
         /\ left' = m /\ right' = right
      \/ /\ Masked(ip_addr, Here.len) > Here.net
         /\ left' = m /\ right' = right /\ entry' = entry
      \/ /\ Masked(ip_addr, Here.len) < Here.net
         /\ left' = left /\ right' = m - 2 /\ entry' = entry
  <2>1. mid + 1 = m /\ mid - 1 = m - 2
    BY <1>3, <1>4
  <2>2. QED
    BY <1>4, <2>1 DEF Next, Match, GoRight, GoLeft
<1>6. TypeOK' /\ (routing_table \in Tables)'
  BY <1>1, <1>2, TypeStep
<1>7. ASSUME NEW i \in 1..Len(routing_table), routing_table[i] \in Best,
             ~Hidden(routing_table[i])
      PROVE  \/ left' < i /\ i <= right' + 1
             \/ entry' \in Best /\ \E j \in 1..left' : routing_table[j] = entry'
  <2>1. \/ left < i /\ i <= right + 1
        \/ entry \in Best /\ \E j \in 1..left : routing_table[j] = entry
    BY <1>1, <1>7 DEF NotLost
  <2>2. routing_table[i] \in Entries /\ Here \in Entries /\ Here \in ToSet(routing_table)
    BY <1>3, <1>4
  <2>3. Matches(routing_table[i], ip_addr)
    BY <1>7 DEF Best
  <2>4. CASE Matches(Here, ip_addr) /\ entry' = Here /\ left' = m /\ right' = right
    <3>1. m \in 1..left' /\ routing_table[m] = entry'
      BY <1>4, <2>4
    <3>2. CASE m < i /\ i <= right + 1
      BY <2>4, <3>2
    <3>3. CASE i <= m
      <4>1. Here \in Best
        BY <1>1, <1>4, <1>7, <2>4, <3>3, BestAfter
      <4>2. QED
        BY <2>4, <3>1, <4>1
    <3>4. CASE entry \in Best /\ \E j \in 1..left : routing_table[j] = entry
      <4>1. PICK j \in 1..left : routing_table[j] = entry
        BY <3>4
      <4>2. j \in 1..Len(routing_table) /\ j <= m
        BY <1>3, <1>4
      <4>3. Here \in Best
        BY <1>1, <1>4, <2>4, <3>4, <4>1, <4>2, BestAfter
      <4>4. QED
        BY <2>4, <3>1, <4>3
    <3>5. QED
      BY <1>3, <1>4, <2>1, <3>2, <3>3, <3>4
  <2>5. CASE /\ Masked(ip_addr, Here.len) > Here.net
             /\ left' = m /\ right' = right /\ entry' = entry
    <3>1. CASE m < i /\ i <= right + 1
      BY <2>5, <3>1
    <3>2. ~(i <= m)
      <4>1. SUFFICES ASSUME i <= m PROVE FALSE
        OBVIOUS
      <4>2. Before(routing_table[i], Here)
        BY <1>3, <1>4, <4>1
      <4>3. Below(Here, routing_table[i])
        BY <1>3, <2>2, <2>3, <2>5, <4>2, OnlyBelowHides
      <4>4. QED
        BY <1>7, <2>2, <4>3 DEF Hidden
    <3>3. CASE entry \in Best /\ \E j \in 1..left : routing_table[j] = entry
      <4>1. \A j \in 1..left : j \in 1..m
        BY <1>3, <1>4
      <4>2. QED
        BY <2>5, <3>3, <4>1
    <3>4. QED
      BY <1>3, <1>4, <2>1, <3>1, <3>2, <3>3
  <2>6. CASE /\ Masked(ip_addr, Here.len) < Here.net
             /\ left' = left /\ right' = m - 2 /\ entry' = entry
    <3>1. ~(m <= i)
      <4>1. SUFFICES ASSUME m <= i PROVE FALSE
        OBVIOUS
      <4>2. Before(Here, routing_table[i])
        BY <1>3, <1>4, <4>1
      <4>3. QED
        BY <1>3, <2>2, <2>3, <2>6, <4>2, NeverTooFarLeft
    <3>2. i <= right' + 1
      BY <1>3, <1>4, <2>6, <3>1
    <3>3. QED
      BY <2>1, <2>6, <3>2
  <2>7. QED
    BY <1>5, <2>4, <2>5, <2>6
<1>8. NotLost'
  BY <1>2, <1>7 DEF NotLost, Best, Hidden, Below, Matches
<1>9. entry' # NoEntry => /\ Matches(entry', ip_addr)
                          /\ \E j \in 1..left' : routing_table[j] = entry'
  <2>1. CASE entry' = Here /\ Matches(Here, ip_addr) /\ left' = m
    <3>1. m \in 1..left'
      BY <1>4, <2>1
    <3>2. QED
      BY <2>1, <3>1
  <2>2. CASE entry' = entry /\ left' \in {left, m}
    <3>1. \A j \in 1..left : j \in 1..left'
      BY <1>3, <1>4, <2>2
    <3>2. QED
      BY <1>1, <2>2, <3>1 DEF MatchBehind
  <2>3. QED
    BY <1>5, <2>1, <2>2
<1>10. MatchBehind'
  BY <1>2, <1>9 DEF MatchBehind, Matches
<1>11. ASSUME entry # NoEntry, entry' # entry PROVE entry'.len > entry.len
  <2>1. Matches(Here, ip_addr) /\ entry' = Here
    BY <1>5, <1>11
  <2>2. PICK j \in 1..left : routing_table[j] = entry
    BY <1>1, <1>11 DEF MatchBehind
  <2>3. j \in 1..Len(routing_table) /\ j <= m
    BY <1>3, <1>4
  <2>4. entry \in Entries /\ Here \in Entries /\ Before(entry, Here)
    BY <1>3, <1>4, <2>2, <2>3
  <2>5. Matches(entry, ip_addr)
    BY <1>1, <1>11 DEF MatchBehind
  <2>6. entry = Here \/ entry.len < Here.len
    BY <1>3, <2>1, <2>4, <2>5, LaterMatch
  <2>7. entry.len \in Nat /\ Here.len \in Nat
    BY <2>4, EntryIs
  <2> HIDE DEF Here
  <2>8. QED
    BY <1>11, <2>1, <2>6, <2>7
<1>12. QED
  BY <1>6, <1>8, <1>10, <1>11 DEF SearchInv

LEMMA SearchStart == Init => SearchInv
<1> SUFFICES ASSUME Init PROVE SearchInv
  OBVIOUS
<1>1. TypeOK
  BY TypeStart
<1>2. routing_table \in Tables /\ left = 0 /\ right = Len(routing_table) - 1
      /\ entry = NoEntry
  BY DEF Init
<1>3. MatchBehind
  BY <1>2 DEF MatchBehind
<1>4. Len(routing_table) \in Nat
  BY <1>1, <1>2, TableIs
<1>5. \A i \in 1..Len(routing_table) : left < i /\ i <= right + 1
  BY <1>2, <1>4
<1>6. NotLost
  BY <1>5 DEF NotLost
<1>7. QED
  BY <1>1, <1>2, <1>3, <1>6 DEF SearchInv

LEMMA SearchStep ==
  SearchInv /\ [Next]_vars =>
    /\ SearchInv'
    /\ [entry # NoEntry /\ entry' # entry => entry'.len > entry.len]_vars
<1> SUFFICES ASSUME SearchInv, [Next]_vars
             PROVE  /\ SearchInv'
                    /\ [entry # NoEntry /\ entry' # entry => entry'.len > entry.len]_vars
  OBVIOUS
<1>1. CASE Next
  BY <1>1, SearchTurn
<1>2. CASE UNCHANGED vars
  BY <1>2 DEF vars, SearchInv, TypeOK, MatchBehind, NotLost, Best, Hidden, Below, Matches
<1>3. QED
  BY <1>1, <1>2

LEMMA SearchAlways == Spec => []SearchInv
BY SearchStart, SearchStep, PTL DEF Spec

LEMMA SearchOver == SearchInv => LongestUnlessHidden
<1> SUFFICES ASSUME SearchInv, ~Searching PROVE LongestUnlessHidden
  BY DEF LongestUnlessHidden
<1>1. TypeOK /\ routing_table \in Tables /\ MatchBehind /\ NotLost
  BY DEF SearchInv
<1>2. /\ left \in Nat /\ right \in Int /\ left <= Len(routing_table)
      /\ ToSet(routing_table) = {routing_table[i] : i \in 1..Len(routing_table)}
      /\ Len(routing_table) \in Nat
  BY <1>1, TableIs
<1>3. CASE Best = {}
  <2>1. SUFFICES ASSUME entry # NoEntry PROVE FALSE
    BY <1>3 DEF LongestUnlessHidden
  <2>2. Matches(entry, ip_addr) /\ entry \in ToSet(routing_table)
    <3>1. PICK j \in 1..left : routing_table[j] = entry
      BY <1>1, <2>1 DEF MatchBehind
    <3>2. j \in 1..Len(routing_table)
      BY <1>2
    <3>3. QED
      BY <1>1, <1>2, <2>1, <3>1, <3>2 DEF MatchBehind
  <2>3. QED
    BY <1>1, <1>3, <2>2, BestExists
<1>4. CASE Best # {}
  <2>1. PICK b \in Best : TRUE
    BY <1>4
  <2>2. PICK i \in 1..Len(routing_table) : routing_table[i] = b
    BY <1>2, <2>1 DEF Best
  <2>3. ~(left < i /\ i <= right + 1)
    BY <1>2 DEF Searching
  <2>4. entry \in Best \/ Hidden(b)
    BY <1>1, <2>1, <2>2, <2>3 DEF NotLost
  <2>5. QED
    BY <1>4, <2>1, <2>4 DEF Hidden, LongestUnlessHidden
<1>5. QED
  BY <1>3, <1>4

\* However long the addresses and the table, a lookup that is over has found
\* a longest match or none when there is none, unless the table holds a
\* smaller network inside that match and entirely below the address.
THEOREM FindsLongest == Spec => []LongestUnlessHidden
BY SearchAlways, SearchOver, PTL

\* Each match of a lookup is longer than the one it replaces: what the order
\* parse_router_table gives the table is for.
THEOREM MatchesGrow == Spec => LaterIsLonger
BY SearchAlways, SearchStep, PTL DEF Spec, LaterIsLonger

=============================================================================
