--------------------------- MODULE LibraryProofs ----------------------------
(* The library client of homework3-public.  Its session, for any number of *)
(* sessions and whatever the service and the network do; what the two      *)
(* loops of receive_from_server come to for pieces of any size; and that   *)
(* the client over its connections is the client of LibraryClient.         *)
EXTENDS LibraryHttp, SequenceTheorems, WellFoundedInduction, TLAPS

\* What one exchange can do to the service's sessions.
LEMMA ExchangeSessions ==
  ASSUME TypeOK, NEW c \in Commands, NEW done \in BOOLEAN,
         NEW r \in Replies(c, done), Exchange(c, r, done)
  PROVE  /\ client' \in {"running", "exited", "crashed"}
         /\ opened' \in opened..MaxSessions
         /\ live' \subseteq 1..opened'
         /\ c = "login" /\ done =>
              opened' = opened + 1 /\ live' = live \cup {opened'}
         /\ ~(c = "login" /\ done) => live' \subseteq live
         /\ c = "logout" /\ done => live' = live \ {auth_cookie}
         /\ r.ok => done
         /\ done /\ r.value = "whole" => r.ok
<1>1. opened \in 0..MaxSessions /\ live \subseteq 1..opened /\ MaxSessions \in Nat
  BY LibraryAssumption DEF TypeOK
<1>2. r \in Reply /\ (done /\ r.value = "whole" => r.ok) /\ (r.ok => done)
  BY DEF Replies, Accepted, Refused
<1>3. CASE done
  <2>1. Serve(c)
    BY <1>3 DEF Exchange
  <2>2. CASE c = "login"
    BY <1>1, <1>2, <1>3, <2>1, <2>2 DEF Exchange, Serve, MayAccept, Numeric, Books
  <2>3. CASE c = "logout"
    BY <1>1, <1>2, <1>3, <2>1, <2>3 DEF Exchange, Serve
  <2>4. CASE c \notin {"login", "logout"}
    BY <1>1, <1>2, <1>3, <2>1, <2>4 DEF Exchange, Serve
  <2>5. QED
    BY <2>2, <2>3, <2>4
<1>4. CASE ~done
  <2>1. opened' = opened /\ live' = live
    BY <1>4 DEF Exchange
  <2>2. client' \in {"running", "exited", "crashed"}
    BY DEF Exchange
  <2>3. ~r.ok
    BY <1>4 DEF Replies, Refused
  <2>4. QED
    BY <1>1, <1>4, <2>1, <2>2, <2>3
<1>5. QED
  BY <1>3, <1>4

\* The token follows the cookie, and the cookie is all that is left open.
SessionInv ==
  /\ TypeOK
  /\ auth_cookie <= opened
  /\ auth_cookie = EMPTY => ~tokenCut
  /\ TokenOfSession
  /\ OpenIsRemembered

LEMMA SessionInit == Init => SessionInv
<1>1. Init => OpenIsRemembered
  BY DEF Init, OpenIsRemembered
<1>2. Init => /\ auth_cookie = 0 /\ auth_library_token = 0 /\ opened = 0
              /\ live = {} /\ client = "running" /\ tokenCut = FALSE
  BY DEF Init, EMPTY
<1>3. Init => cookieLost \in BOOLEAN
  BY DEF Init
<1>4. 0 \in 0..MaxSessions /\ 0 \in 0..GARBAGE /\ 0 <= 0
  BY LibraryAssumption DEF GARBAGE
<1>5. QED
  BY <1>1, <1>2, <1>3, <1>4 DEF SessionInv, TypeOK, TokenOfSession, EMPTY

LEMMA SessionStep == SessionInv /\ [Next]_vars => SessionInv'
<1> SUFFICES ASSUME SessionInv, [Next]_vars PROVE SessionInv'
  OBVIOUS
<1> USE LibraryAssumption
<1>a. /\ auth_cookie \in 0..MaxSessions /\ auth_cookie <= opened
      /\ opened \in 0..MaxSessions /\ live \subseteq 1..opened
      /\ auth_library_token \in 0..GARBAGE /\ GARBAGE = MaxSessions + 1
  BY DEF SessionInv, TypeOK, GARBAGE
<1>1. CASE Expire
  BY <1>1 DEF Expire, SessionInv, TypeOK, TokenOfSession, OpenIsRemembered
<1>2. CASE Exit
  BY <1>2 DEF Exit, SessionInv, TypeOK, TokenOfSession, OpenIsRemembered
<1>3. ASSUME NEW c \in Commands, BadInput(c) PROVE SessionInv'
  BY <1>3 DEF BadInput, Ready, SessionInv, TypeOK, TokenOfSession, OpenIsRemembered
<1>4. ASSUME NEW done \in BOOLEAN, NEW r \in Replies("login", done),
             Login(r, done)
      PROVE  SessionInv'
  <2>1. /\ auth_cookie = EMPTY /\ client = "running" /\ "login" \in Commands
        /\ cookieLost' \in BOOLEAN
    BY <1>4 DEF Login, Exchange, Ready, SessionInv, TypeOK, Commands, Typed
  <2>2. Exchange("login", r, done)
    BY <1>4 DEF Login
  <2>3. r.value \in {"whole", "none"} \/ ~r.ok
    BY DEF Replies, Accepted, Refused, Reply
  <2>4. /\ auth_cookie' \in {EMPTY, opened'}
        /\ done /\ r.value = "whole" => auth_cookie' = opened'
    BY <1>4, <2>1, <2>2, <2>3, ExchangeSessions DEF Login, Extract, SessionInv
  <2>5. 0 \notin 1..opened
    BY <1>a
  <2>6. live = {} \/ cookieLost
    BY <1>a, <2>1, <2>5 DEF SessionInv, OpenIsRemembered, EMPTY
  <2>7. OpenIsRemembered'
    BY <1>4, <2>1, <2>2, <2>4, <2>6, ExchangeSessions
       DEF Login, OpenIsRemembered, SessionInv
  <2>8. ~tokenCut /\ auth_library_token = EMPTY
    BY <2>1 DEF SessionInv, TokenOfSession
  <2>9. auth_library_token' = EMPTY /\ tokenCut' = FALSE
    BY <1>4, <2>8 DEF Login, SessionInv, TypeOK
  <2>10. 0 \in 0..GARBAGE
    BY <1>a
  <2>11. /\ client' \in {"running", "exited", "crashed"} /\ live' \subseteq 1..opened'
         /\ opened' \in 0..MaxSessions /\ auth_cookie' \in 0..MaxSessions
         /\ auth_cookie' <= opened'
    BY <1>a, <2>1, <2>2, <2>4, ExchangeSessions DEF SessionInv, EMPTY
  <2>12. QED
    BY <2>1, <2>7, <2>9, <2>10, <2>11 DEF SessionInv, TypeOK, TokenOfSession, EMPTY
<1>5. ASSUME NEW done \in BOOLEAN, NEW r \in Replies("enter_library", done),
             EnterLibrary(r, done)
      PROVE  SessionInv'
  <2>1. Exchange("enter_library", r, done) /\ "enter_library" \in Commands
    BY <1>5 DEF EnterLibrary, Commands
  <2>2. UNCHANGED <<auth_cookie, cookieLost>> /\ client = "running"
    BY <1>5 DEF EnterLibrary, Exchange, Ready
  <2>3. live' \subseteq live /\ opened' >= opened
    BY <2>1, ExchangeSessions DEF SessionInv, TypeOK
  <2>4. /\ auth_library_token' \in 0..GARBAGE /\ tokenCut' \in BOOLEAN
        /\ TokenOfSession' /\ (auth_cookie' = EMPTY => ~tokenCut')
    <3>1. CASE r.ok
      <4>1. auth_cookie # EMPTY
        <5>1. done
          BY <2>1, <3>1, ExchangeSessions DEF SessionInv
        <5>2. auth_cookie \in live
          BY <2>1, <5>1 DEF Exchange, Serve, MayAccept, Request, Numeric, Books, Posts
        <5>3. QED
          BY <1>a, <5>2 DEF EMPTY
      <4>2. r.value \in {"whole", "none", "cut"}
        BY DEF Replies, Accepted, Refused, Reply
      <4>3. /\ auth_library_token' \in Extract(r, auth_cookie)
            /\ tokenCut' = (r.value = "cut")
        BY <1>5, <3>1 DEF EnterLibrary
      <4>4. CASE r.value = "whole"
        BY <1>a, <2>2, <4>1, <4>3, <4>4 DEF Extract, TokenOfSession
      <4>5. CASE r.value = "none"
        BY <1>a, <2>2, <4>1, <4>3, <4>5 DEF Extract, TokenOfSession, EMPTY
      <4>6. CASE r.value = "cut"
        <5>1. auth_library_token' \in {EMPTY, GARBAGE} \cup 1..opened
          BY <4>3, <4>6 DEF Extract
        <5>2. auth_library_token' \in 0..GARBAGE
          BY <1>a, <5>1 DEF EMPTY
        <5>3. tokenCut' = TRUE
          BY <4>3, <4>6
        <5>4. QED
          BY <2>2, <4>1, <5>2, <5>3 DEF TokenOfSession
      <4>7. QED
        BY <4>2, <4>4, <4>5, <4>6
    <3>2. CASE ~r.ok
      BY <1>5, <1>a, <2>2, <3>2 DEF EnterLibrary, SessionInv, TypeOK, TokenOfSession
    <3>3. QED
      BY <3>1, <3>2
  <2>5. OpenIsRemembered'
    BY <2>2, <2>3 DEF SessionInv, OpenIsRemembered
  <2>6. QED
    BY <1>a, <2>1, <2>2, <2>3, <2>4, <2>5, ExchangeSessions DEF SessionInv, TypeOK
<1>6. ASSUME NEW done \in BOOLEAN, NEW r \in Replies("logout", done),
             Logout(r, done)
      PROVE  SessionInv'
  <2>1. Exchange("logout", r, done) /\ "logout" \in Commands /\ client = "running"
    BY <1>6 DEF Logout, Commands, Exchange, Ready
  <2>2. live' \subseteq live /\ opened' >= opened
    BY <2>1, ExchangeSessions DEF SessionInv, TypeOK
  <2>3. CASE r.ok
    <3>1. live' = live \ {auth_cookie}
      BY <2>1, <2>3, ExchangeSessions DEF SessionInv
    <3>2. /\ auth_cookie' = EMPTY /\ auth_library_token' = EMPTY /\ tokenCut' = FALSE
          /\ cookieLost' = cookieLost
      BY <1>6, <2>3 DEF Logout
    <3>3. OpenIsRemembered'
      BY <2>1, <3>1, <3>2 DEF SessionInv, OpenIsRemembered
    <3>4. 0 \in 0..GARBAGE /\ 0 \in 0..MaxSessions /\ 0 <= opened'
      BY <1>a, <2>2, <2>1, ExchangeSessions DEF SessionInv
    <3>5. /\ client' \in {"running", "exited", "crashed"} /\ live' \subseteq 1..opened'
          /\ opened' \in 0..MaxSessions /\ cookieLost' \in BOOLEAN
      BY <1>a, <2>1, <3>2, ExchangeSessions DEF SessionInv, TypeOK
    <3>6. QED
      BY <3>2, <3>3, <3>4, <3>5 DEF SessionInv, TypeOK, TokenOfSession, EMPTY
  <2>4. CASE ~r.ok
    BY <1>6, <1>a, <2>1, <2>2, <2>4, ExchangeSessions
       DEF Logout, SessionInv, TypeOK, TokenOfSession, OpenIsRemembered
  <2>5. QED
    BY <2>3, <2>4
<1>7. ASSUME NEW c \in Commands, NEW done \in BOOLEAN,
             NEW r \in Replies(c, done), Plain(c, r, done)
      PROVE  SessionInv'
  <2>1. Exchange(c, r, done) /\ c # "login" /\ client = "running"
    BY <1>7 DEF Plain, Exchange, Ready
  <2>2. live' \subseteq live /\ opened' >= opened
    BY <2>1, ExchangeSessions DEF SessionInv, TypeOK
  <2>3. QED
    BY <1>7, <1>a, <2>1, <2>2, ExchangeSessions
       DEF Plain, SessionInv, TypeOK, TokenOfSession, OpenIsRemembered
<1>8. ASSUME NEW done \in BOOLEAN, NEW c \in Commands,
             BreakOff(c, done)
      PROVE  SessionInv'
  <2>1. /\ UNCHANGED <<auth_cookie, auth_library_token, tokenCut>>
        /\ client' = "exited"
        /\ cookieLost' \in BOOLEAN
    BY <1>8 DEF BreakOff
  <2>2. OpenIsRemembered'
    BY <2>1 DEF OpenIsRemembered
  <2>3. CASE done /\ c = "login"
    <3>1. opened' = opened + 1 /\ opened < MaxSessions /\ live' = live \cup {opened'}
      BY <1>8, <2>3 DEF BreakOff, Serve, MayAccept, Numeric, Books
    <3>2. QED
      BY <2>1, <2>2, <3>1 DEF SessionInv, TypeOK, TokenOfSession
  <2>4. CASE ~(done /\ c = "login")
    <3>1. opened' = opened /\ live' \subseteq live
      BY <1>8, <2>4 DEF BreakOff, Serve
    <3>2. QED
      BY <2>1, <2>2, <3>1 DEF SessionInv, TypeOK, TokenOfSession
  <2>5. QED
    BY <2>3, <2>4
<1>9. CASE UNCHANGED vars
  BY <1>9 DEF vars, SessionInv, TypeOK, TokenOfSession, OpenIsRemembered
<1>10. QED
  BY <1>1, <1>2, <1>3, <1>4, <1>5, <1>6, <1>7, <1>8, <1>9 DEF Next

LEMMA SessionAlways == Spec => []SessionInv
BY SessionInit, SessionStep, PTL DEF Spec

\* Types are kept, for any number of sessions.
THEOREM TypeCorrect == Spec => []TypeOK
BY SessionAlways, PTL DEF SessionInv

\* Whatever the service refuses and the network cuts, the token the books go
\* by is of the session that is logged in, but for a token taken from a reply
\* that ends inside its name; nobody is logged out with such a token kept.
THEOREM TokenFollowsCookie ==
  Spec => [](TokenOfSession /\ (auth_cookie = EMPTY => auth_library_token = EMPTY))
<1>1. SessionInv => TokenOfSession /\ (auth_cookie = EMPTY => auth_library_token = EMPTY)
  BY DEF SessionInv, TokenOfSession
<1>2. QED
  BY <1>1, SessionAlways, PTL

\* While it runs, the client has the cookie of the session that is open, if
\* it was told one.
THEOREM OpenKept == Spec => []OpenIsRemembered
BY SessionAlways, PTL DEF SessionInv

-----------------------------------------------------------------------------
(* Searching a buffer.                                                     *)

Token ==
  {"200", "400", "nl", "cookie", "Content-Length", "{", "}", "token", ":", "value", "error",
   "text", "0", "1", "2", "3", "4", "5", "6", "7", "8", "9"}

\* The first n tokens of a text.
First(data, whole, n) ==
  /\ data \in Seq(Token) /\ Len(data) = n
  /\ \A j \in 1..n : data[j] = whole[j]

LEMMA MinIs ==
  ASSUME NEW S \in SUBSET Nat, S # {}
  PROVE  Min(S) \in S /\ \A y \in S : Min(S) <= y
<1>1. PICK x \in S : \A y \in S : ~(<<y, x>> \in OpToRel(<, Nat))
  BY NatLessThanWellFounded, WFMin
<1>2. \A y \in S : x <= y
  <2>1. ASSUME NEW y \in Nat, y < x PROVE <<y, x>> \in OpToRel(<, Nat)
    <3>1. <<y, x>> \in Nat \X Nat /\ <<y, x>>[1] = y /\ <<y, x>>[2] = x
      OBVIOUS
    <3>2. QED
      BY <2>1, <3>1 DEF OpToRel
  <2>2. \A y \in S : ~(y < x)
    BY <1>1, <2>1
  <2>3. QED
    BY <2>2
<1>3. QED
  BY <1>2 DEF Min

\* buffer_find, as far as anybody relies on it: the first place, or -1.
LEMMA FindIs ==
  ASSUME NEW data, NEW what, Len(data) \in Nat, Len(what) \in Nat
  PROVE  LET i == buffer_find(data, what)
             m == Len(what)
         IN  \/ /\ i = -1
                /\ \A j \in 0..(Len(data) - m) : SubSeq(data, j + 1, j + m) # what
             \/ /\ i \in 0..(Len(data) - m)
                /\ SubSeq(data, i + 1, i + m) = what
                /\ \A j \in 0..(Len(data) - m) : j < i => SubSeq(data, j + 1, j + m) # what
<1> DEFINE at == {i \in 0..(Len(data) - Len(what)) :
                    SubSeq(data, i + 1, i + Len(what)) = what}
<1>1. buffer_find(data, what) = IF at = {} THEN -1 ELSE Min(at)
  BY DEF buffer_find
<1>2. at # {} => Min(at) \in at /\ \A y \in at : Min(at) <= y
  <2>1. at \in SUBSET Nat
    OBVIOUS
  <2> HIDE DEF at
  <2>2. QED
    BY <2>1, MinIs
<1>3. CASE at = {}
  BY <1>1, <1>3
<1>4. CASE at # {}
  <2>1. /\ Min(at) \in 0..(Len(data) - Len(what))
        /\ SubSeq(data, Min(at) + 1, Min(at) + Len(what)) = what
    BY <1>2, <1>4
  <2>2. ASSUME NEW j \in 0..(Len(data) - Len(what)), j < Min(at)
        PROVE  SubSeq(data, j + 1, j + Len(what)) # what
    <3>1. j \notin at
      <4> HIDE DEF at
      <4>1. \A y \in at : Min(at) <= y
        BY <1>2, <1>4
      <4>2. Min(at) \in Int /\ j \in Int
        BY <2>1
      <4>3. QED
        BY <2>2, <4>1, <4>2
    <3>2. QED
      BY <3>1
  <2>3. buffer_find(data, what) = Min(at)
    BY <1>1, <1>4
  <2> HIDE DEF at
  <2>4. QED
    BY <2>1, <2>2, <2>3
<1>5. QED
  BY <1>3, <1>4

LEMMA FindToken ==
  ASSUME NEW data \in Seq(Token), NEW w \in Token
  PROVE  LET i == buffer_find(data, <<w>>)
         IN  \/ i = -1 /\ \A j \in 1..Len(data) : data[j] # w
             \/ /\ i \in 0..(Len(data) - 1) /\ data[i + 1] = w
                /\ \A j \in 1..i : data[j] # w
<1> DEFINE n == Len(data)
<1>1. n \in Nat /\ Len(<<w>>) = 1
  BY LenProperties
<1>2. \A j \in 0..(n - 1) : SubSeq(data, j + 1, j + 1) = <<w>> <=> data[j + 1] = w
  <2>1. ASSUME NEW j \in 0..(n - 1)
        PROVE  SubSeq(data, j + 1, j + 1) = <<w>> <=> data[j + 1] = w
    <3>1. j + 1 \in 1..n
      BY <1>1
    <3>2. \A i \in (j + 1)..(j + 1) : data[i] \in Token
      BY <3>1, ElementOfSeq
    <3>3. /\ SubSeq(data, j + 1, j + 1) \in Seq(Token)
          /\ Len(SubSeq(data, j + 1, j + 1)) = 1
          /\ SubSeq(data, j + 1, j + 1)[1] = data[j + 1]
      BY <3>1, <3>2, SubSeqProperties
    <3>4. <<w>> \in Seq(Token) /\ <<w>>[1] = w
      OBVIOUS
    <3> DEFINE q == SubSeq(data, j + 1, j + 1)
    <3>5. q \in Seq(Token) /\ Len(q) = 1 /\ q[1] = data[j + 1]
      BY <3>3
    <3> HIDE DEF n, q
    <3>6. q = <<w>> => data[j + 1] = w
      BY <3>4, <3>5
    <3>7. ASSUME data[j + 1] = w PROVE q = <<w>>
      <4>1. Len(q) = Len(<<w>>) /\ \A i \in 1..Len(q) : q[i] = <<w>>[i]
        BY <1>1, <3>4, <3>5, <3>7
      <4>2. QED
        BY <3>4, <3>5, <4>1, SeqEqual
    <3>8. QED
      BY <3>6, <3>7 DEF q
  <2>2. QED
    BY <2>1
<1>3. LET i == buffer_find(data, <<w>>)
      IN  \/ /\ i = -1
             /\ \A j \in 0..(n - 1) : SubSeq(data, j + 1, j + 1) # <<w>>
          \/ /\ i \in 0..(n - 1)
             /\ SubSeq(data, i + 1, i + 1) = <<w>>
             /\ \A j \in 0..(n - 1) : j < i => SubSeq(data, j + 1, j + 1) # <<w>>
  BY <1>1, FindIs
<1> DEFINE f == buffer_find(data, <<w>>)
<1>4. \/ /\ f = -1
         /\ \A j \in 0..(n - 1) : data[j + 1] # w
      \/ /\ f \in 0..(n - 1) /\ data[f + 1] = w
         /\ \A j \in 0..(n - 1) : j < f => data[j + 1] # w
  BY <1>2, <1>3
<1>5. \A j \in 1..n : j - 1 \in 0..(n - 1) /\ (j - 1) + 1 = j
  BY <1>1
<1> HIDE DEF f, n
<1>6. CASE f = -1
  <2>1. \A j \in 0..(n - 1) : data[j + 1] # w
    BY <1>4, <1>6
  <2>2. \A j \in 1..n : data[j] # w
    BY <1>5, <2>1
  <2>3. QED
    BY <1>6, <2>2 DEF f, n
<1>7. CASE f # -1
  <2>1. /\ f \in 0..(n - 1) /\ data[f + 1] = w
        /\ \A j \in 0..(n - 1) : j < f => data[j + 1] # w
    BY <1>4, <1>7
  <2>2. ASSUME NEW j \in 1..f PROVE data[j] # w
    <3>1. j - 1 \in 0..(n - 1) /\ j - 1 < f /\ (j - 1) + 1 = j
      BY <1>1, <2>1
    <3>2. QED
      BY <2>1, <3>1
  <2>3. QED
    BY <2>1, <2>2 DEF f, n
<1>8. QED
  BY <1>6, <1>7

LEMMA FindTerminator ==
  ASSUME NEW data \in Seq(Token)
  PROVE  LET i == buffer_find(data, HEADER_TERMINATOR)
         IN  \/ /\ i = -1
                /\ \A j \in 1..(Len(data) - 1) : ~(data[j] = "nl" /\ data[j + 1] = "nl")
             \/ /\ i \in 0..(Len(data) - 2) /\ data[i + 1] = "nl" /\ data[i + 2] = "nl"
                /\ \A j \in 1..i : ~(data[j] = "nl" /\ data[j + 1] = "nl")
<1> DEFINE n == Len(data)
           two == HEADER_TERMINATOR
           f == buffer_find(data, two)
<1>1. n \in Nat /\ Len(two) = 2 /\ two \in Seq(Token) /\ two[1] = "nl" /\ two[2] = "nl"
  <2>1. n \in Nat
    BY LenProperties
  <2>2. "nl" \in Token
    BY DEF Token
  <2>3. \A S : \A x \in S : <<x, x>> \in Seq(S)
    OBVIOUS
  <2>4. QED
    BY <2>1, <2>2, <2>3 DEF HEADER_TERMINATOR
<1>2. ASSUME NEW j \in 0..(n - 2)
      PROVE  SubSeq(data, j + 1, j + 2) = two <=> data[j + 1] = "nl" /\ data[j + 2] = "nl"
  <2> DEFINE q == SubSeq(data, j + 1, j + 2)
  <2>1. \A i \in (j + 1)..(j + 2) : data[i] \in Token
    <3>1. \A i \in (j + 1)..(j + 2) : i \in 1..n
      BY <1>1
    <3>2. QED
      BY <3>1, ElementOfSeq
  <2>2. /\ q \in Seq(Token)
        /\ Len(q) = IF j + 1 <= j + 2 THEN (j + 2) - (j + 1) + 1 ELSE 0
        /\ \A i \in 1..((j + 2) - (j + 1) + 1) : q[i] = data[(j + 1) + i - 1]
    BY <1>1, <2>1, SubSeqProperties
  <2>3. Len(q) = 2 /\ q[1] = data[j + 1] /\ q[2] = data[j + 2]
    <3> HIDE DEF q, n
    <3>1. /\ j + 1 <= j + 2 /\ (j + 2) - (j + 1) + 1 = 2 /\ (j + 1) + 1 - 1 = j + 1
          /\ (j + 1) + 2 - 1 = j + 2
      BY <1>1
    <3>2. QED
      BY <2>2, <3>1
  <2> HIDE DEF q, n, two
  <2>4. q = two => data[j + 1] = "nl" /\ data[j + 2] = "nl"
    BY <1>1, <2>3
  <2>5. ASSUME data[j + 1] = "nl", data[j + 2] = "nl" PROVE q = two
    <3>1. Len(q) = Len(two) /\ \A i \in 1..Len(q) : q[i] = two[i]
      BY <1>1, <2>3, <2>5
    <3>2. QED
      BY <1>1, <2>2, <3>1, SeqEqual
  <2>6. QED
    BY <2>4, <2>5 DEF q
<1>3. \/ /\ f = -1
         /\ \A j \in 0..(n - 2) : SubSeq(data, j + 1, j + 2) # two
      \/ /\ f \in 0..(n - 2)
         /\ SubSeq(data, f + 1, f + 2) = two
         /\ \A j \in 0..(n - 2) : j < f => SubSeq(data, j + 1, j + 2) # two
  <2>1. Len(data) \in Nat /\ Len(two) \in Nat
    BY <1>1
  <2> HIDE DEF two
  <2>2. LET m == Len(two)
        IN  \/ /\ f = -1
               /\ \A j \in 0..(n - m) : SubSeq(data, j + 1, j + m) # two
            \/ /\ f \in 0..(n - m)
               /\ SubSeq(data, f + 1, f + m) = two
               /\ \A j \in 0..(n - m) : j < f => SubSeq(data, j + 1, j + m) # two
    BY <2>1, FindIs, Zenon
  <2>3. Len(two) = 2
    BY <1>1
  <2> HIDE DEF f, n
  <2>4. QED
    BY <2>2, <2>3
<1> HIDE DEF n, two, f
<1>4. CASE f = -1
  <2>1. ASSUME NEW j \in 1..(n - 1) PROVE ~(data[j] = "nl" /\ data[j + 1] = "nl")
    <3>1. j - 1 \in 0..(n - 2) /\ (j - 1) + 1 = j /\ (j - 1) + 2 = j + 1
      BY <1>1
    <3>2. QED
      BY <1>2, <1>3, <1>4, <3>1
  <2>2. QED
    BY <1>4, <2>1 DEF f, n, two
<1>5. CASE f # -1
  <2>1. /\ f \in 0..(n - 2) /\ SubSeq(data, f + 1, f + 2) = two
        /\ \A j \in 0..(n - 2) : j < f => SubSeq(data, j + 1, j + 2) # two
    BY <1>3, <1>5
  <2>2. ASSUME NEW j \in 1..f PROVE ~(data[j] = "nl" /\ data[j + 1] = "nl")
    <3>1. /\ j - 1 \in 0..(n - 2) /\ (j - 1) + 1 = j /\ (j - 1) + 2 = j + 1
          /\ j - 1 < f
      BY <1>1, <2>1
    <3>2. QED
      BY <1>2, <2>1, <3>1
  <2>3. data[f + 1] = "nl" /\ data[f + 2] = "nl"
    BY <1>2, <2>1
  <2>4. QED
    BY <2>1, <2>2, <2>3 DEF f, n, two
<1>6. QED
  BY <1>4, <1>5

-----------------------------------------------------------------------------
(* The service's responses, token by token.                                *)

\* Where the field comes, and how long a header is with its terminator.
Before(r) == IF r.cookie THEN 4 ELSE 2
HeadLen(r) == Before(r) + (IF r.length THEN 4 ELSE 1)

LEMMA Joined ==
  ASSUME NEW S, NEW s \in Seq(S), NEW t \in Seq(S)
  PROVE  /\ s \o t \in Seq(S) /\ Len(s \o t) = Len(s) + Len(t)
         /\ \A i \in 1..Len(s) : (s \o t)[i] = s[i]
         /\ \A i \in 1..Len(t) : (s \o t)[Len(s) + i] = t[i]
<1> DEFINE n == Len(s)
           m == Len(t)
           u == s \o t
<1>1. n \in Nat /\ m \in Nat
  BY LenProperties
<1>2. /\ u \in Seq(S) /\ Len(u) = n + m
      /\ \A i \in 1..(n + m) : u[i] = IF i <= n THEN s[i] ELSE t[i - n]
  BY ConcatProperties
<1> HIDE DEF n, m, u
<1>3. \A i \in 1..n : i \in 1..(n + m) /\ i <= n
  BY <1>1
<1>4. \A i \in 1..m : n + i \in 1..(n + m) /\ ~(n + i <= n) /\ (n + i) - n = i
  BY <1>1
<1>5. (\A i \in 1..n : u[i] = s[i]) /\ (\A i \in 1..m : u[n + i] = t[i])
  BY <1>2, <1>3, <1>4
<1>6. QED
  BY <1>2, <1>5 DEF n, m, u

LEMMA TokensJoined ==
  \A s, t \in Seq(Token) :
    /\ s \o t \in Seq(Token) /\ Len(s \o t) = Len(s) + Len(t)
    /\ \A i \in 1..Len(s) : (s \o t)[i] = s[i]
    /\ \A i \in 1..Len(t) : (s \o t)[Len(s) + i] = t[i]
BY Joined

LEMMA ShortIs ==
  /\ \A S : \A x \in S : <<x>> \in Seq(S)
  /\ \A S : \A x, y \in S : <<x, y>> \in Seq(S)
  /\ \A S : \A x, y, z \in S : <<x, y, z>> \in Seq(S)
  /\ \A S : \A x, y, z, w \in S : <<x, y, z, w>> \in Seq(S)
  /\ \A S : \A x, y, z, w, v \in S : <<x, y, z, w, v>> \in Seq(S)
OBVIOUS

LEMMA BodyIs ==
  ASSUME NEW r \in Response
  PROVE  LET b == Bodies[r.body]
         IN  /\ b \in Seq(Token) /\ Len(b) \in 0..5
             /\ Number[Len(b) + 1] \in {"0", "1", "2", "3", "4", "5"}
             /\ \/ /\ r.body = "data" /\ Len(b) = 5
                   /\ b[1] = "{" /\ b[2] = "token" /\ b[3] = ":" /\ b[4] = "value" /\ b[5] = "}"
                \/ /\ r.body = "error" /\ Len(b) = 3
                   /\ b[1] = "{" /\ b[2] = "error" /\ b[3] = "}"
                \/ /\ r.body = "mention" /\ Len(b) = 4
                   /\ b[1] = "{" /\ b[2] = "Content-Length" /\ b[3] = "1" /\ b[4] = "}"
                \/ r.body = "empty" /\ Len(b) = 0
                \/ r.body = "page" /\ Len(b) = 1 /\ b[1] = "text"
<1>1. r.body \in {"data", "error", "mention", "empty", "page"}
  BY DEF Response, Bodies
<1>2. /\ Bodies["data"] = <<"{", "token", ":", "value", "}">>
      /\ Bodies["error"] = <<"{", "error", "}">>
      /\ Bodies["mention"] = <<"{", "Content-Length", "1", "}">>
      /\ Bodies["empty"] = <<>>
      /\ Bodies["page"] = <<"text">>
  BY DEF Bodies
<1>3. \A x \in {"{", "}", "token", ":", "value", "error", "text", "1", "Content-Length"} : x \in Token
  BY DEF Token
<1>4. \A i \in 1..6 : Number[i] \in {"0", "1", "2", "3", "4", "5"}
  <2>1. /\ Number[1] = "0" /\ Number[2] = "1" /\ Number[3] = "2" /\ Number[4] = "3"
        /\ Number[5] = "4" /\ Number[6] = "5"
    BY DEF Number
  <2>2. \A i \in 1..6 : i = 1 \/ i = 2 \/ i = 3 \/ i = 4 \/ i = 5 \/ i = 6
    OBVIOUS
  <2>3. QED
    BY <2>1, <2>2
<1> DEFINE b == Bodies[r.body]
<1>5. CASE r.body = "data"
  <2>1. b = <<"{", "token", ":", "value", "}">>
    BY <1>2, <1>5
  <2> HIDE DEF b
  <2>2. Len(b) = 5
    BY <2>1
  <2>3. b[1] = "{" /\ b[2] = "token" /\ b[3] = ":" /\ b[4] = "value" /\ b[5] = "}"
    BY <2>1
  <2>4. b \in Seq(Token)
    BY <1>3, <2>1, ShortIs
  <2>5. Number[Len(b) + 1] \in {"0", "1", "2", "3", "4", "5"} /\ Len(b) \in 0..5
    <3>1. Len(b) + 1 \in 1..6 /\ Len(b) \in 0..5
      BY <2>2
    <3>2. QED
      BY <1>4, <3>1
  <2>6. QED
    BY <1>5, <2>2, <2>3, <2>4, <2>5 DEF b
<1>6. CASE r.body = "error"
  <2>1. b = <<"{", "error", "}">>
    BY <1>2, <1>6
  <2> HIDE DEF b
  <2>2. Len(b) = 3
    BY <2>1
  <2>3. b[1] = "{" /\ b[2] = "error" /\ b[3] = "}"
    BY <2>1
  <2>4. b \in Seq(Token)
    BY <1>3, <2>1, ShortIs
  <2>5. Number[Len(b) + 1] \in {"0", "1", "2", "3", "4", "5"} /\ Len(b) \in 0..5
    <3>1. Len(b) + 1 \in 1..6 /\ Len(b) \in 0..5
      BY <2>2
    <3>2. QED
      BY <1>4, <3>1
  <2>6. QED
    BY <1>6, <2>2, <2>3, <2>4, <2>5 DEF b
<1>7. CASE r.body = "mention"
  <2>1. b = <<"{", "Content-Length", "1", "}">>
    BY <1>2, <1>7
  <2> HIDE DEF b
  <2>2. Len(b) = 4
    BY <2>1
  <2>3. b[1] = "{" /\ b[2] = "Content-Length" /\ b[3] = "1" /\ b[4] = "}"
    BY <2>1
  <2>4. b \in Seq(Token)
    BY <1>3, <2>1, ShortIs
  <2>5. Number[Len(b) + 1] \in {"0", "1", "2", "3", "4", "5"} /\ Len(b) \in 0..5
    <3>1. Len(b) + 1 \in 1..6 /\ Len(b) \in 0..5
      BY <2>2
    <3>2. QED
      BY <1>4, <3>1
  <2>6. QED
    BY <1>7, <2>2, <2>3, <2>4, <2>5 DEF b
<1>8. CASE r.body = "empty"
  <2>1. b = <<>>
    BY <1>2, <1>8
  <2> HIDE DEF b
  <2>2. Len(b) = 0
    BY <2>1, EmptySeq
  <2>3. b \in Seq(Token)
    BY <2>1, EmptySeq
  <2>4. Number[Len(b) + 1] \in {"0", "1", "2", "3", "4", "5"} /\ Len(b) \in 0..5
    <3>1. Len(b) + 1 \in 1..6 /\ Len(b) \in 0..5
      BY <2>2
    <3>2. QED
      BY <1>4, <3>1
  <2>5. QED
    BY <1>8, <2>2, <2>3, <2>4 DEF b
<1>9. CASE r.body = "page"
  <2>1. b = <<"text">>
    BY <1>2, <1>9
  <2> HIDE DEF b
  <2>2. Len(b) = 1
    BY <2>1
  <2>3. b[1] = "text"
    BY <2>1
  <2>4. b \in Seq(Token)
    BY <1>3, <2>1, ShortIs
  <2>5. Number[Len(b) + 1] \in {"0", "1", "2", "3", "4", "5"} /\ Len(b) \in 0..5
    <3>1. Len(b) + 1 \in 1..6 /\ Len(b) \in 0..5
      BY <2>2
    <3>2. QED
      BY <1>4, <3>1
  <2>6. QED
    BY <1>9, <2>2, <2>3, <2>4, <2>5 DEF b
<1>10. QED
  BY <1>1, <1>5, <1>6, <1>7, <1>8, <1>9

LEMMA TextIs ==
  ASSUME NEW r \in Response
  PROVE  LET t == Text(r)
             b == Bodies[r.body]
         IN  /\ t \in Seq(Token) /\ Len(t) = HeadLen(r) + Len(b)
             /\ t[1] = (IF r.ok THEN "200" ELSE "400") /\ t[2] = "nl"
             /\ r.cookie => t[3] = "cookie" /\ t[4] = "nl"
             /\ r.length => /\ t[Before(r) + 1] = "Content-Length"
                            /\ t[Before(r) + 2] = Number[Len(b) + 1]
                            /\ t[Before(r) + 3] = "nl"
             /\ t[HeadLen(r)] = "nl"
             /\ \A j \in 1..Len(b) : t[HeadLen(r) + j] = b[j]
<1> DEFINE b == Bodies[r.body]
           number == Number[Len(b) + 1]
           status == IF r.ok THEN "200" ELSE "400"
           first == <<status, "nl">>
           cookies == IF r.cookie THEN <<"cookie", "nl">> ELSE <<>>
           lengths == IF r.length THEN <<"Content-Length", number, "nl">> ELSE <<>>
           s1 == first \o cookies
           s2 == s1 \o lengths
           s3 == s2 \o <<"nl">>
           s4 == s3 \o b
<1>1. Text(r) = s4
  BY DEF Text
<1>2. b \in Seq(Token) /\ Len(b) \in Nat /\ number \in Token
  <2>1. /\ b \in Seq(Token) /\ Len(b) \in 0..5
        /\ number \in {"0", "1", "2", "3", "4", "5"}
    BY BodyIs, Zenon
  <2>2. \A x \in {"0", "1", "2", "3", "4", "5"} : x \in Token
    BY DEF Token
  <2>3. QED
    BY <2>1, <2>2
<1>3. \A x \in {"200", "400", "nl", "cookie", "Content-Length"} : x \in Token
  BY DEF Token
<1>4. /\ first \in Seq(Token) /\ Len(first) = 2
      /\ first[1] = status /\ first[2] = "nl"
  <2>1. status \in Token
    BY <1>3
  <2> HIDE DEF status
  <2>2. QED
    BY <1>3, <2>1, ShortIs
<1>5. /\ cookies \in Seq(Token) /\ Len(cookies) = Before(r) - 2
      /\ r.cookie => cookies[1] = "cookie" /\ cookies[2] = "nl"
  BY <1>3, ShortIs, EmptySeq DEF Before
<1> HIDE DEF number
<1>6. /\ lengths \in Seq(Token) /\ Len(lengths) = IF r.length THEN 3 ELSE 0
      /\ r.length => /\ lengths[1] = "Content-Length" /\ lengths[2] = number
                     /\ lengths[3] = "nl"
  BY <1>2, <1>3, ShortIs, EmptySeq
<1> HIDE DEF first, cookies, lengths, b, status
<1>7. Before(r) \in {2, 4}
  BY DEF Before
<1>8. /\ s1 \in Seq(Token) /\ Len(s1) = Before(r)
      /\ s1[1] = status /\ s1[2] = "nl"
      /\ r.cookie => s1[3] = "cookie" /\ s1[4] = "nl"
  <2>1. /\ s1 \in Seq(Token) /\ Len(s1) = Len(first) + Len(cookies)
        /\ \A i \in 1..Len(first) : s1[i] = first[i]
        /\ \A i \in 1..Len(cookies) : s1[Len(first) + i] = cookies[i]
    BY <1>4, <1>5, TokensJoined
  <2> HIDE DEF s1
  <2>2. r.cookie => Before(r) = 4
    BY DEF Before
  <2>3. QED
    BY <1>4, <1>5, <1>7, <2>1, <2>2
<1> HIDE DEF s1
<1>9. /\ s2 \in Seq(Token) /\ Len(s2) = HeadLen(r) - 1
      /\ \A i \in 1..Before(r) : s2[i] = s1[i]
      /\ r.length => /\ s2[Before(r) + 1] = "Content-Length"
                     /\ s2[Before(r) + 2] = number
                     /\ s2[Before(r) + 3] = "nl"
  <2>1. /\ s2 \in Seq(Token) /\ Len(s2) = Len(s1) + Len(lengths)
        /\ \A i \in 1..Len(s1) : s2[i] = s1[i]
        /\ \A i \in 1..Len(lengths) : s2[Len(s1) + i] = lengths[i]
    BY <1>6, <1>8, TokensJoined
  <2> HIDE DEF s2
  <2>2. HeadLen(r) - 1 = Before(r) + IF r.length THEN 3 ELSE 0
    BY <1>7 DEF HeadLen
  <2>3. QED
    BY <1>6, <1>7, <1>8, <2>1, <2>2
<1> HIDE DEF s2
<1>10. HeadLen(r) \in {3, 5, 6, 8} /\ Before(r) < HeadLen(r)
       /\ (r.length => HeadLen(r) = Before(r) + 4)
  BY <1>7 DEF HeadLen
<1>11. /\ s3 \in Seq(Token) /\ Len(s3) = HeadLen(r)
       /\ \A i \in 1..(HeadLen(r) - 1) : s3[i] = s2[i]
       /\ s3[HeadLen(r)] = "nl"
  <2> DEFINE last == <<"nl">>
  <2>1. last \in Seq(Token) /\ Len(last) = 1 /\ last[1] = "nl"
    BY <1>3, ShortIs
  <2> HIDE DEF last
  <2>2. /\ s2 \o last \in Seq(Token) /\ Len(s2 \o last) = Len(s2) + Len(last)
        /\ \A i \in 1..Len(s2) : (s2 \o last)[i] = s2[i]
        /\ \A i \in 1..Len(last) : (s2 \o last)[Len(s2) + i] = last[i]
    BY <1>9, <2>1, TokensJoined
  <2>3. s3 = s2 \o last
    BY DEF last
  <2> HIDE DEF s3
  <2>4. QED
    BY <1>9, <1>10, <2>1, <2>2, <2>3
<1> HIDE DEF s3
<1>12. /\ s4 \in Seq(Token) /\ Len(s4) = HeadLen(r) + Len(b)
       /\ \A i \in 1..HeadLen(r) : s4[i] = s3[i]
       /\ \A i \in 1..Len(b) : s4[HeadLen(r) + i] = b[i]
  <2>1. /\ s4 \in Seq(Token) /\ Len(s4) = Len(s3) + Len(b)
        /\ \A i \in 1..Len(s3) : s4[i] = s3[i]
        /\ \A i \in 1..Len(b) : s4[Len(s3) + i] = b[i]
    BY <1>2, <1>11, TokensJoined
  <2>2. QED
    BY <1>11, <2>1
<1> HIDE DEF s4
<1>13. \A i \in 1..(HeadLen(r) - 1) : s4[i] = s2[i]
  BY <1>10, <1>11, <1>12
<1>14. \A i \in 1..Before(r) : s4[i] = s1[i]
  BY <1>7, <1>9, <1>10, <1>13
<1>15. /\ s4[1] = status /\ s4[2] = "nl"
       /\ r.cookie => s4[3] = "cookie" /\ s4[4] = "nl"
  <2>1. r.cookie => Before(r) = 4
    BY DEF Before
  <2>2. QED
    BY <1>7, <1>8, <1>14, <2>1
<1>16. r.length => /\ s4[Before(r) + 1] = "Content-Length"
                   /\ s4[Before(r) + 2] = number /\ s4[Before(r) + 3] = "nl"
  BY <1>7, <1>9, <1>10, <1>13
<1>17. s4[HeadLen(r)] = "nl"
  BY <1>10, <1>11, <1>12
<1>18. QED
  BY <1>1, <1>12, <1>15, <1>16, <1>17 DEF b, number, status

\* What stands where in a header, and what does not.
LEMMA HeaderIs ==
  ASSUME NEW r \in Response
  PROVE  LET t == Text(r)
             h == HeadLen(r)
         IN  /\ Before(r) \in {2, 4} /\ h \in {3, 5, 6, 8} /\ Before(r) < h
             /\ r.length => h = Before(r) + 4
             /\ t[h - 1] = "nl" /\ t[h] = "nl"
             /\ \A j \in 1..(h - 2) : ~(t[j] = "nl" /\ t[j + 1] = "nl")
             /\ \A j \in 1..h :
                  /\ t[j] = "200" <=> j = 1 /\ r.ok
                  /\ t[j] = "cookie" <=> j = 3 /\ r.cookie
                  /\ t[j] = "Content-Length" <=> j = Before(r) + 1 /\ r.length
                  /\ t[j] # "token" /\ t[j] # "error"
<1> DEFINE t == Text(r)
           h == HeadLen(r)
           number == Number[Len(Bodies[r.body]) + 1]
<1>1. /\ t[1] = (IF r.ok THEN "200" ELSE "400") /\ t[2] = "nl"
      /\ r.cookie => t[3] = "cookie" /\ t[4] = "nl"
      /\ r.length => /\ t[Before(r) + 1] = "Content-Length"
                     /\ t[Before(r) + 2] = number
                     /\ t[Before(r) + 3] = "nl"
      /\ t[h] = "nl"
  BY TextIs
<1>2. number \in {"0", "1", "2", "3", "4", "5"}
  BY BodyIs
<1>3. /\ Before(r) = IF r.cookie THEN 4 ELSE 2
      /\ h = Before(r) + (IF r.length THEN 4 ELSE 1)
      /\ r.cookie \in BOOLEAN /\ r.length \in BOOLEAN /\ r.ok \in BOOLEAN
  BY DEF Before, HeadLen, Response
<1> HIDE DEF t, h, number
<1>4. CASE r.cookie /\ r.length
  <2>1. /\ Before(r) = 4 /\ h = 8 /\ t[1] \in {"200", "400"} /\ (t[1] = "200" <=> r.ok)
        /\ t[2] = "nl" /\ t[3] = "cookie" /\ t[4] = "nl" /\ t[5] = "Content-Length"
        /\ t[6] = number /\ t[7] = "nl" /\ t[8] = "nl"
    BY <1>1, <1>3, <1>4
  <2>2. \A j \in 1..8 : j = 1 \/ j = 2 \/ j = 3 \/ j = 4 \/ j = 5 \/ j = 6 \/ j = 7 \/ j = 8
    OBVIOUS
  <2>3. \A j \in 1..6 : j = 1 \/ j = 2 \/ j = 3 \/ j = 4 \/ j = 5 \/ j = 6
    OBVIOUS
  <2>4. QED
    BY <1>2, <1>4, <2>1, <2>2, <2>3 DEF t, h
<1>5. CASE r.cookie /\ ~r.length
  <2>1. /\ Before(r) = 4 /\ h = 5 /\ t[1] \in {"200", "400"} /\ (t[1] = "200" <=> r.ok)
        /\ t[2] = "nl" /\ t[3] = "cookie" /\ t[4] = "nl" /\ t[5] = "nl"
    BY <1>1, <1>3, <1>5
  <2>2. \A j \in 1..5 : j = 1 \/ j = 2 \/ j = 3 \/ j = 4 \/ j = 5
    OBVIOUS
  <2>3. \A j \in 1..3 : j = 1 \/ j = 2 \/ j = 3
    OBVIOUS
  <2>4. QED
    BY <1>5, <2>1, <2>2, <2>3 DEF t, h
<1>6. CASE ~r.cookie /\ r.length
  <2>1. /\ Before(r) = 2 /\ h = 6 /\ t[1] \in {"200", "400"} /\ (t[1] = "200" <=> r.ok)
        /\ t[2] = "nl" /\ t[3] = "Content-Length"
        /\ t[4] = number /\ t[5] = "nl" /\ t[6] = "nl"
    BY <1>1, <1>3, <1>6
  <2>2. \A j \in 1..6 : j = 1 \/ j = 2 \/ j = 3 \/ j = 4 \/ j = 5 \/ j = 6
    OBVIOUS
  <2>3. \A j \in 1..4 : j = 1 \/ j = 2 \/ j = 3 \/ j = 4
    OBVIOUS
  <2>4. QED
    BY <1>2, <1>6, <2>1, <2>2, <2>3 DEF t, h
<1>7. CASE ~r.cookie /\ ~r.length
  <2>1. /\ Before(r) = 2 /\ h = 3 /\ t[1] \in {"200", "400"} /\ (t[1] = "200" <=> r.ok)
        /\ t[2] = "nl" /\ t[3] = "nl"
    BY <1>1, <1>3, <1>7
  <2>2. \A j \in 1..3 : j = 1 \/ j = 2 \/ j = 3
    OBVIOUS
  <2>3. \A j \in 1..1 : j = 1
    OBVIOUS
  <2>4. QED
    BY <1>7, <2>1, <2>2, <2>3 DEF t, h
<1>8. QED
  BY <1>3, <1>4, <1>5, <1>6, <1>7

-----------------------------------------------------------------------------
(* What a search finds in the first n tokens of a response.                *)

LEMMA HeaderFound ==
  ASSUME NEW r \in Response, NEW n \in 0..Len(Text(r)), NEW data,
         First(data, Text(r), n)
  PROVE  buffer_find(data, HEADER_TERMINATOR) =
           IF HeadLen(r) <= n THEN HeadLen(r) - 2 ELSE -1
<1> DEFINE t == Text(r)
           h == HeadLen(r)
           f == buffer_find(data, HEADER_TERMINATOR)
<1>1. /\ h \in {3, 5, 6, 8} /\ t[h - 1] = "nl" /\ t[h] = "nl"
      /\ \A j \in 1..(h - 2) : ~(t[j] = "nl" /\ t[j + 1] = "nl")
  BY HeaderIs
<1>2. n \in Nat
  BY TextIs, LenProperties
<1>3. data \in Seq(Token) /\ Len(data) = n /\ \A j \in 1..n : data[j] = t[j]
  BY DEF First
<1>4. \/ /\ f = -1
         /\ \A j \in 1..(Len(data) - 1) : ~(data[j] = "nl" /\ data[j + 1] = "nl")
      \/ /\ f \in 0..(Len(data) - 2) /\ data[f + 1] = "nl" /\ data[f + 2] = "nl"
         /\ \A j \in 1..f : ~(data[j] = "nl" /\ data[j + 1] = "nl")
  BY <1>3, FindTerminator
<1> HIDE DEF t, h, f
<1>5. CASE f = -1
  <2>1. \A j \in 1..(n - 1) : ~(data[j] = "nl" /\ data[j + 1] = "nl")
    BY <1>3, <1>4, <1>5
  <2>2. ~(h <= n)
    <3>1. SUFFICES ASSUME h <= n PROVE FALSE
      OBVIOUS
    <3>2. h - 1 \in 1..(n - 1) /\ h - 1 \in 1..n /\ h \in 1..n /\ (h - 1) + 1 = h
      BY <1>1, <1>2, <3>1
    <3>3. data[h - 1] = "nl" /\ data[h] = "nl"
      BY <1>1, <1>3, <3>2
    <3>4. QED
      BY <2>1, <3>2, <3>3
  <2>3. QED
    BY <1>5, <2>2 DEF f, h
<1>6. CASE f # -1
  <2>1. /\ f \in 0..(n - 2) /\ data[f + 1] = "nl" /\ data[f + 2] = "nl"
        /\ \A j \in 1..f : ~(data[j] = "nl" /\ data[j + 1] = "nl")
    BY <1>3, <1>4, <1>6
  <2>2. t[f + 1] = "nl" /\ t[f + 2] = "nl"
    <3>1. f + 1 \in 1..n /\ f + 2 \in 1..n
      BY <1>2, <2>1
    <3>2. QED
      BY <1>3, <2>1, <3>1
  <2>3. ~(f < h - 2)
    <3>1. f < h - 2 => f + 1 \in 1..(h - 2) /\ (f + 1) + 1 = f + 2
      BY <1>1, <2>1
    <3>2. QED
      BY <1>1, <2>2, <3>1
  <2>4. ~(f > h - 2)
    <3>1. f > h - 2 => h - 1 \in 1..f /\ h - 1 \in 1..n /\ h \in 1..n /\ (h - 1) + 1 = h
      BY <1>1, <1>2, <2>1
    <3>2. f > h - 2 => data[h - 1] = "nl" /\ data[h] = "nl"
      BY <1>1, <1>3, <3>1
    <3>3. QED
      BY <2>1, <3>1, <3>2
  <2>5. f = h - 2 /\ h <= n
    BY <1>1, <1>2, <2>1, <2>3, <2>4
  <2>6. QED
    BY <2>5 DEF f, h
<1>7. QED
  BY <1>5, <1>6

\* A token that is at place p and nowhere before.
LEMMA FirstThere ==
  ASSUME NEW data \in Seq(Token), NEW w \in Token, NEW p \in Nat \ {0},
         \A j \in 1..Len(data) : j <= p => (data[j] = w <=> j = p)
  PROVE  buffer_find(data, <<w>>) = IF p <= Len(data) THEN p - 1 ELSE -1
<1> DEFINE f == buffer_find(data, <<w>>)
           n == Len(data)
<1>1. n \in Nat
  BY LenProperties
<1>2. \/ f = -1 /\ \A j \in 1..n : data[j] # w
      \/ f \in 0..(n - 1) /\ data[f + 1] = w /\ \A j \in 1..f : data[j] # w
  BY FindToken
<1>3. \A j \in 1..n : j <= p => (data[j] = w <=> j = p)
  OBVIOUS
<1> HIDE DEF f, n
<1>4. CASE f = -1
  <2>1. f \notin 0..(n - 1)
    BY <1>4
  <2>2. \A j \in 1..n : j # p
    BY <1>2, <1>3, <2>1
  <2>3. ~(p <= n)
    BY <1>1, <2>2
  <2>4. QED
    BY <1>4, <2>3 DEF f, n
<1>5. CASE f # -1
  <2>1. /\ f \in 0..(n - 1) /\ data[f + 1] = w /\ f + 1 \in 1..n
        /\ \A j \in 1..f : data[j] # w
    BY <1>1, <1>2, <1>5
  <2>2. f + 1 <= p => f + 1 = p
    BY <1>3, <2>1
  <2>3. ~(f + 1 > p)
    <3>1. f + 1 > p => p \in 1..f /\ p \in 1..n /\ p <= p
      BY <1>1, <2>1
    <3>2. QED
      BY <1>3, <2>1, <3>1
  <2>4. p <= n /\ f = p - 1
    BY <1>1, <2>1, <2>2, <2>3
  <2>5. QED
    BY <2>4 DEF f, n
<1>6. QED
  BY <1>4, <1>5

LEMMA Nowhere ==
  ASSUME NEW data \in Seq(Token), NEW w \in Token,
         \A j \in 1..Len(data) : data[j] # w
  PROVE  buffer_find(data, <<w>>) = -1
<1>1. LET f == buffer_find(data, <<w>>)
      IN  f = -1 \/ (f \in 0..(Len(data) - 1) /\ data[f + 1] = w)
  BY FindToken
<1>2. Len(data) \in Nat
  BY LenProperties
<1>3. \A f \in 0..(Len(data) - 1) : f + 1 \in 1..Len(data)
  BY <1>2
<1>4. QED
  BY <1>1, <1>3

\* The tokens of the body, seen from the start of the response.
LEMMA BodyTokens ==
  ASSUME NEW r \in Response, NEW j \in (HeadLen(r) + 1)..Len(Text(r))
  PROVE  LET t == Text(r)
             h == HeadLen(r)
         IN  /\ t[j] # "200" /\ t[j] # "cookie"
             /\ t[j] = "token" <=> r.body = "data" /\ j = h + 2
             /\ t[j] = "error" <=> r.body = "error" /\ j = h + 2
             /\ t[j] = "Content-Length" <=> r.body = "mention" /\ j = h + 2
             /\ t[j] = "{" <=> j = h + 1 /\ r.body # "page"
             /\ t[j] = "}" <=> j = Len(t) /\ r.body # "page"
<1> DEFINE t == Text(r)
           b == Bodies[r.body]
           h == HeadLen(r)
<1>1. /\ Len(t) = h + Len(b) /\ \A i \in 1..Len(b) : t[h + i] = b[i]
  BY TextIs
<1>2. /\ Len(b) \in 0..5
      /\ \/ /\ r.body = "data" /\ Len(b) = 5
            /\ b[1] = "{" /\ b[2] = "token" /\ b[3] = ":" /\ b[4] = "value" /\ b[5] = "}"
         \/ /\ r.body = "error" /\ Len(b) = 3
            /\ b[1] = "{" /\ b[2] = "error" /\ b[3] = "}"
         \/ /\ r.body = "mention" /\ Len(b) = 4
            /\ b[1] = "{" /\ b[2] = "Content-Length" /\ b[3] = "1" /\ b[4] = "}"
         \/ r.body = "empty" /\ Len(b) = 0
         \/ r.body = "page" /\ Len(b) = 1 /\ b[1] = "text"
  BY BodyIs
<1>3. h \in Nat
  <2>1. h \in {3, 5, 6, 8}
    BY HeaderIs
  <2> HIDE DEF h
  <2>2. QED
    BY <2>1
<1>4. j \in (h + 1)..Len(t)
  OBVIOUS
<1> DEFINE i == j - h
           l == Len(b)
<1> HIDE DEF t, b, h, l
<1>5. l \in 0..5 /\ Len(t) = h + l
  BY <1>1, <1>2 DEF l
<1>6. i \in 1..l /\ j = h + i /\ i \in 1..5
  BY <1>3, <1>4, <1>5
<1>7. t[j] = b[i]
  BY <1>1, <1>6 DEF l
<1> HIDE DEF i
<1>8. /\ j = h + 2 <=> i = 2
      /\ j = h + 1 <=> i = 1
      /\ j = Len(t) <=> i = l
  BY <1>3, <1>5, <1>6
<1>9. /\ b[i] # "200" /\ b[i] # "cookie"
      /\ b[i] = "token" <=> r.body = "data" /\ i = 2
      /\ b[i] = "error" <=> r.body = "error" /\ i = 2
      /\ b[i] = "Content-Length" <=> r.body = "mention" /\ i = 2
      /\ b[i] = "{" <=> i = 1 /\ r.body # "page"
      /\ b[i] = "}" <=> i = l /\ r.body # "page"
  <2>1. i = 1 \/ i = 2 \/ i = 3 \/ i = 4 \/ i = 5
    BY <1>6
  <2>2. (l = 3 => i # 4 /\ i # 5) /\ (l = 4 => i # 5)
    BY <1>6
  <2>3. ASSUME l = 1 PROVE i = 1
    BY <1>6, <2>3
  <2>4. l # 0
    BY <1>6
  <2>5. CASE r.body = "data" /\ l = 5 /\ b[1] = "{" /\ b[2] = "token" /\ b[3] = ":" /\ b[4] = "value" /\ b[5] = "}"
    BY <2>1, <2>5
  <2>6. CASE r.body = "error" /\ l = 3 /\ b[1] = "{" /\ b[2] = "error" /\ b[3] = "}"
    BY <2>1, <2>2, <2>6
  <2>7. CASE /\ r.body = "mention" /\ l = 4
             /\ b[1] = "{" /\ b[2] = "Content-Length" /\ b[3] = "1" /\ b[4] = "}"
    BY <2>1, <2>2, <2>7
  <2>8. CASE r.body = "page" /\ l = 1 /\ b[1] = "text"
    BY <2>3, <2>8
  <2>9. QED
    BY <1>2, <2>4, <2>5, <2>6, <2>7, <2>8 DEF l
<1>10. QED
  BY <1>7, <1>8, <1>9 DEF t, h

LEMMA TokensIn ==
  ASSUME NEW r \in Response, NEW j \in 1..Len(Text(r))
  PROVE  LET t == Text(r)
             h == HeadLen(r)
         IN  /\ t[j] = "200" <=> j = 1 /\ r.ok
             /\ t[j] = "cookie" <=> j = 3 /\ r.cookie
             /\ t[j] = "token" <=> r.body = "data" /\ j = h + 2
             /\ t[j] = "error" <=> r.body = "error" /\ j = h + 2
             /\ j <= h => (t[j] = "Content-Length" <=> j = Before(r) + 1 /\ r.length)
<1> DEFINE t == Text(r)
           h == HeadLen(r)
<1>1. h \in Nat /\ h >= 3 /\ (r.cookie => h > 3)
  BY DEF HeadLen, Before
<1>2. CASE j <= h
  <2>1. j \in 1..h
    BY <1>1, <1>2
  <2>2. /\ t[j] = "200" <=> j = 1 /\ r.ok
        /\ t[j] = "cookie" <=> j = 3 /\ r.cookie
        /\ t[j] = "Content-Length" <=> j = Before(r) + 1 /\ r.length
        /\ t[j] # "token" /\ t[j] # "error"
    BY <2>1, HeaderIs
  <2>3. j # h + 2
    BY <1>1, <2>1
  <2> HIDE DEF t, h
  <2>4. QED
    BY <2>2, <2>3 DEF t, h
<1>3. CASE ~(j <= h)
  <2>1. j \in (h + 1)..Len(t)
    BY <1>1, <1>3
  <2>2. /\ t[j] # "200" /\ t[j] # "cookie"
        /\ t[j] = "token" <=> r.body = "data" /\ j = h + 2
        /\ t[j] = "error" <=> r.body = "error" /\ j = h + 2
    BY <2>1, BodyTokens
  <2>3. j # 1 /\ j # 3
    BY <1>1, <2>1
  <2> HIDE DEF t, h
  <2>4. QED
    BY <1>3, <2>2, <2>3 DEF t, h
<1>4. QED
  BY <1>2, <1>3

LEMMA LengthFound ==
  ASSUME NEW r \in Response, NEW n \in 0..Len(Text(r)), NEW data,
         First(data, Text(r), n)
  PROVE  LET f == buffer_find(data, CONTENT_LENGTH)
         IN  /\ r.length => f = IF Before(r) < n THEN Before(r) ELSE -1
             /\ ~r.length => f = -1 \/ f \in HeadLen(r)..(n - 1)
<1> DEFINE t == Text(r)
           h == HeadLen(r)
           w == "Content-Length"
           p == Before(r) + 1
           f == buffer_find(data, <<w>>)
<1>1. /\ h \in Nat /\ p \in Nat \ {0} /\ (r.length => p < h)
      /\ w \in Token /\ n \in Nat /\ Len(t) \in Nat
  <2>1. Len(t) \in Nat
    BY TextIs, LenProperties
  <2>2. n \in Nat
    BY <2>1
  <2>3. w \in Token
    BY DEF Token
  <2>4. h \in Nat /\ p \in Nat \ {0} /\ (r.length => p < h)
    BY DEF HeadLen, Before
  <2>5. QED
    BY <2>1, <2>2, <2>3, <2>4
<1>2. data \in Seq(Token) /\ Len(data) = n /\ \A j \in 1..n : data[j] = t[j]
  BY DEF First
<1>3. \A j \in 1..n : j <= h => (data[j] = w <=> j = p /\ r.length)
  <2>1. \A j \in 1..n : j \in 1..Len(t)
    BY <1>1
  <2>2. \A j \in 1..Len(t) : j <= h => (t[j] = w <=> j = p /\ r.length)
    BY TokensIn
  <2>3. QED
    BY <1>2, <2>1, <2>2
<1>4. n \in 0..Len(t)
  OBVIOUS
<1> HIDE DEF t, h, p, w
<1>5. ASSUME r.length PROVE f = IF p <= n THEN p - 1 ELSE -1
  <2>1. \A j \in 1..Len(data) : j <= p => (data[j] = w <=> j = p)
    BY <1>1, <1>2, <1>3, <1>5
  <2>2. QED
    BY <1>1, <1>2, <2>1, FirstThere
<1>6. ASSUME ~r.length PROVE f = -1 \/ f \in h..(n - 1)
  <2>1. f = -1 \/ (f \in 0..(n - 1) /\ data[f + 1] = w)
    <3>1. \A x \in Token :
            LET i == buffer_find(data, <<x>>)
            IN  \/ i = -1 /\ \A j \in 1..Len(data) : data[j] # x
                \/ /\ i \in 0..(Len(data) - 1) /\ data[i + 1] = x
                   /\ \A j \in 1..i : data[j] # x
      BY <1>2, FindToken, Zenon
    <3>2. w \in Token
      BY <1>1
    <3>3. \/ f = -1 /\ \A j \in 1..Len(data) : data[j] # w
          \/ /\ f \in 0..(Len(data) - 1) /\ data[f + 1] = w
             /\ \A j \in 1..f : data[j] # w
      BY <3>1, <3>2, Zenon
    <3> HIDE DEF f
    <3>4. Len(data) = n
      BY <1>2
    <3>5. QED
      BY <3>3, <3>4
  <2> HIDE DEF f
  <2>2. \A j \in 1..n : data[j] = w => ~(j <= h)
    BY <1>3, <1>6
  <2>3. f \in 0..(n - 1) => f + 1 \in 1..n
    BY <1>1
  <2>4. f \in 0..(n - 1) /\ data[f + 1] = w => ~(f + 1 <= h)
    BY <2>2, <2>3
  <2>5. f \in 0..(n - 1) /\ ~(f + 1 <= h) => f \in h..(n - 1)
    BY <1>1
  <2>6. QED
    BY <2>1, <2>4, <2>5
<1>7. /\ p <= n <=> Before(r) < n
      /\ p - 1 = Before(r)
  BY <1>1 DEF p, Before
<1>8. f = buffer_find(data, CONTENT_LENGTH)
  BY DEF CONTENT_LENGTH, w
<1> HIDE DEF f
<1>9. QED
  BY <1>5, <1>6, <1>7, <1>8 DEF h

LEMMA ValuesFound ==
  ASSUME NEW r \in Response, NEW n \in 0..Len(Text(r)), NEW data,
         First(data, Text(r), n)
  PROVE  /\ buffer_find(data, <<"200">>) >= 0 <=> r.ok /\ n >= 1
         /\ buffer_find(data, <<"cookie">>) >= 0 <=> r.cookie /\ n >= 3
         /\ buffer_find(data, <<"token">>) =
              IF r.body = "data" /\ n >= HeadLen(r) + 2 THEN HeadLen(r) + 1 ELSE -1
<1> DEFINE t == Text(r)
           h == HeadLen(r)
<1>1. h \in Nat /\ n \in Nat
  BY TextIs, LenProperties DEF HeadLen, Before
<1>2. data \in Seq(Token) /\ Len(data) = n
  BY DEF First
<1>3. \A j \in 1..n :
        /\ data[j] = "200" <=> j = 1 /\ r.ok
        /\ data[j] = "cookie" <=> j = 3 /\ r.cookie
        /\ data[j] = "token" <=> r.body = "data" /\ j = h + 2
  <2>1. Len(t) \in Nat
    BY TextIs, LenProperties
  <2>2. \A j \in 1..n : j \in 1..Len(t) /\ data[j] = t[j]
    BY <1>1, <2>1 DEF First
  <2>3. \A j \in 1..Len(t) :
          /\ t[j] = "200" <=> j = 1 /\ r.ok
          /\ t[j] = "cookie" <=> j = 3 /\ r.cookie
          /\ t[j] = "token" <=> r.body = "data" /\ j = h + 2
    BY TokensIn
  <2>4. QED
    BY <2>2, <2>3
<1>4. "200" \in Token /\ "cookie" \in Token /\ "token" \in Token
  BY DEF Token
<1> HIDE DEF t, h
<1>5. \A w \in Token, p \in Nat \ {0} :
        (\A j \in 1..n : data[j] = w <=> j = p) =>
          /\ buffer_find(data, <<w>>) = IF p <= n THEN p - 1 ELSE -1
          /\ buffer_find(data, <<w>>) >= 0 <=> n >= p
  <2>1. SUFFICES ASSUME NEW w \in Token, NEW p \in Nat \ {0},
                        \A j \in 1..n : data[j] = w <=> j = p
                 PROVE  /\ buffer_find(data, <<w>>) = IF p <= n THEN p - 1 ELSE -1
                        /\ buffer_find(data, <<w>>) >= 0 <=> n >= p
    OBVIOUS
  <2>2. buffer_find(data, <<w>>) = IF p <= n THEN p - 1 ELSE -1
    BY <1>2, <2>1, FirstThere
  <2>3. QED
    BY <1>1, <2>2
<1>6. \A w \in Token :
        (\A j \in 1..n : data[j] # w) => ~(buffer_find(data, <<w>>) >= 0)
  <2>1. \A w \in Token :
          (\A j \in 1..n : data[j] # w) => buffer_find(data, <<w>>) = -1
    BY <1>2, Nowhere
  <2>2. ~(-1 >= 0)
    OBVIOUS
  <2>3. QED
    BY <2>1, <2>2
<1>7. buffer_find(data, <<"200">>) >= 0 <=> r.ok /\ n >= 1
  BY <1>3, <1>4, <1>5, <1>6
<1>8. buffer_find(data, <<"cookie">>) >= 0 <=> r.cookie /\ n >= 3
  <2>1. CASE r.cookie
    <3>1. \A j \in 1..n : data[j] = "cookie" <=> j = 3
      BY <1>3, <2>1
    <3>2. 3 \in Nat \ {0}
      OBVIOUS
    <3>3. QED
      BY <1>4, <1>5, <2>1, <3>1, <3>2
  <2>2. CASE ~r.cookie
    <3>1. \A j \in 1..n : data[j] # "cookie"
      BY <1>3, <2>2
    <3>2. QED
      BY <1>4, <1>6, <2>2, <3>1
  <2>3. QED
    BY <2>1, <2>2
<1>9. buffer_find(data, <<"token">>) =
        IF r.body = "data" /\ n >= h + 2 THEN h + 1 ELSE -1
  <2> DEFINE at == buffer_find(data, <<"token">>)
             p == h + 2
  <2>1. CASE r.body = "data"
    <3>1. p \in Nat \ {0} /\ \A j \in 1..n : data[j] = "token" <=> j = p
      BY <1>1, <1>3, <2>1
    <3> HIDE DEF p
    <3>2. at = IF p <= n THEN p - 1 ELSE -1
      BY <1>4, <1>5, <3>1
    <3> HIDE DEF at
    <3>3. at = IF n >= h + 2 THEN h + 1 ELSE -1
      BY <1>1, <3>2 DEF p
    <3>4. QED
      BY <2>1, <3>3 DEF at
  <2>2. CASE r.body # "data"
    <3>1. \A j \in 1..n : data[j] # "token"
      BY <1>3, <2>2
    <3>2. QED
      BY <1>2, <1>4, <2>2, <3>1, Nowhere
  <2>3. QED
    BY <2>1, <2>2
<1>10. QED
  BY <1>7, <1>8, <1>9 DEF h

\* What extract makes of the first n tokens.
LEMMA ValueIs ==
  ASSUME NEW r \in Response, NEW n \in 0..Len(Text(r)), NEW data,
         First(data, Text(r), n), NEW c
  PROVE  LET h == HeadLen(r)
         IN  ValueOf(c, data) =
               IF c = "login" THEN IF r.cookie /\ n >= 3 THEN "whole" ELSE "none"
               ELSE IF r.body # "data" \/ n < h + 2 \/ n = h + 3 THEN "none"
               ELSE IF n = h + 2 THEN "cut" ELSE "whole"
<1> DEFINE h == HeadLen(r)
           cookie == buffer_find(data, <<"cookie">>)
           token == buffer_find(data, <<"token">>)
<1>1. h \in Nat /\ n \in Nat /\ Len(data) = n
  BY TextIs, LenProperties DEF HeadLen, Before, First
<1>2. cookie >= 0 <=> r.cookie /\ n >= 3
  BY ValuesFound
<1>3. token = IF r.body = "data" /\ n >= h + 2 THEN h + 1 ELSE -1
  BY ValuesFound
<1>4. cookie \in Int
  <2>1. data \in Seq(Token) /\ "cookie" \in Token
    BY DEF First, Token
  <2>2. cookie = -1 \/ cookie \in 0..(Len(data) - 1)
    BY <2>1, FindToken
  <2> HIDE DEF cookie
  <2>3. QED
    BY <1>1, <2>2
<1>5. CASE c = "login"
  <2>1. ValueOf(c, data) = IF cookie < 0 THEN "none" ELSE "whole"
    BY <1>5 DEF ValueOf
  <2> HIDE DEF cookie
  <2>2. cookie < 0 <=> ~(r.cookie /\ n >= 3)
    BY <1>2, <1>4
  <2>3. QED
    BY <1>5, <2>1, <2>2
<1>6. CASE c # "login"
  <2> DEFINE after == n - (token + 1)
  <2>1. ValueOf(c, data) =
          IF token < 0 THEN "none"
          ELSE IF after >= 2 THEN "whole" ELSE IF after = 0 THEN "cut" ELSE "none"
    BY <1>1, <1>6 DEF ValueOf
  <2> HIDE DEF token, h
  <2>2. /\ token < 0 <=> r.body # "data" \/ n < h + 2
        /\ token >= 0 => after = n - (h + 2) /\ n >= h + 2
    BY <1>1, <1>3
  <2> HIDE DEF after
  <2>3. CASE token < 0
    BY <1>6, <2>1, <2>2, <2>3 DEF h
  <2>4. CASE ~(token < 0)
    <3>1. token >= 0
      BY <1>1, <1>3, <2>4
    <3>2. /\ r.body = "data" /\ ~(n < h + 2) /\ (after = 0 <=> n = h + 2)
          /\ after >= 2 <=> ~(n = h + 2) /\ ~(n = h + 3)
      BY <1>1, <2>2, <2>4, <3>1
    <3>3. n = h + 2 => ~(n = h + 3)
      BY <1>1
    <3>4. QED
      BY <1>6, <2>1, <2>4, <3>2, <3>3 DEF h
  <2>5. QED
    BY <2>3, <2>4
<1>7. QED
  BY <1>5, <1>6

\* A body is JSON as soon as the last of it is there, and not before.
LEMMA BodyFound ==
  ASSUME NEW r \in Response, NEW n \in 0..Len(Text(r)), NEW data,
         First(data, Text(r), n)
  PROVE  BodyOf(data) =
           IF n = Len(Text(r)) /\ r.body \in {"data", "mention"} THEN "data"
           ELSE IF n = Len(Text(r)) /\ r.body = "error" THEN "error" ELSE "none"
<1> DEFINE t == Text(r)
           h == HeadLen(r)
           l == Len(Bodies[r.body])
           end == buffer_find(data, HEADER_TERMINATOR)
           body == SubSeq(data, end + Len(HEADER_TERMINATOR) + 1, Len(data))
<1>1. h \in Nat /\ h >= 3 /\ n \in Nat /\ l \in Nat /\ Len(t) = h + l
  <2>1. l \in 0..5
    BY BodyIs
  <2>2. Len(t) = h + l
    BY TextIs
  <2>3. h \in Nat /\ h >= 3
    BY DEF HeadLen, Before
  <2> HIDE DEF l, h
  <2>4. QED
    BY <2>1, <2>2, <2>3
<1>2. /\ r.body \in {"data", "error", "mention", "empty", "page"}
      /\ r.body = "empty" => l = 0
      /\ r.body \in {"data", "error", "mention"} => l >= 3
  <2>1. \/ r.body = "data" /\ l = 5
        \/ r.body = "error" /\ l = 3
        \/ r.body = "mention" /\ l = 4
        \/ r.body = "empty" /\ l = 0
        \/ r.body = "page" /\ l = 1
    BY BodyIs
  <2> HIDE DEF l
  <2>2. QED
    BY <2>1
<1>3. data \in Seq(Token) /\ Len(data) = n /\ \A j \in 1..n : data[j] = t[j]
  BY DEF First
<1>4. end = IF h <= n THEN h - 2 ELSE -1
  BY HeaderFound
<1>5. BodyOf(data) =
        IF end < 0 \/ body = <<>> \/ body[1] # "{" \/ body[Len(body)] # "}" THEN "none"
        ELSE IF buffer_find(body, <<"error">>) >= 0 THEN "error" ELSE "data"
  BY DEF BodyOf
<1>6. n \in 0..Len(t)
  OBVIOUS
<1>7. \A j \in (h + 1)..Len(t) :
        /\ t[j] = "error" <=> r.body = "error" /\ j = h + 2
        /\ t[j] = "{" <=> j = h + 1 /\ r.body # "page"
        /\ t[j] = "}" <=> j = Len(t) /\ r.body # "page"
  BY BodyTokens
<1> DEFINE right == IF n = Len(t) /\ r.body \in {"data", "mention"} THEN "data"
                    ELSE IF n = Len(t) /\ r.body = "error" THEN "error" ELSE "none"
<1> SUFFICES BodyOf(data) = right
  OBVIOUS
<1>8. Len(HEADER_TERMINATOR) = 2
  BY DEF HEADER_TERMINATOR
<1> HIDE DEF t, h, l, end, body
<1>9. CASE ~(h <= n)
  <2>1. end < 0
    BY <1>4, <1>9
  <2>2. n # Len(t)
    BY <1>1, <1>9
  <2>3. QED
    BY <1>5, <2>1, <2>2
<1>10. CASE h <= n
  <2>1. end = h - 2 /\ ~(end < 0) /\ end + Len(HEADER_TERMINATOR) + 1 = h + 1
    BY <1>1, <1>4, <1>8, <1>10
  <2>2. body = SubSeq(data, h + 1, n)
    BY <1>3, <2>1 DEF body
  <2>3. \A i \in (h + 1)..n : data[i] \in Token /\ i \in 1..n
    <3>1. \A i \in (h + 1)..n : i \in 1..n
      BY <1>1
    <3>2. QED
      BY <1>3, <3>1, ElementOfSeq
  <2>4. /\ body \in Seq(Token)
        /\ Len(body) = IF h + 1 <= n THEN n - (h + 1) + 1 ELSE 0
        /\ \A i \in 1..(n - (h + 1) + 1) : body[i] = data[(h + 1) + i - 1]
    <3>1. h + 1 \in Int /\ n \in Int
      BY <1>1
    <3>2. QED
      BY <1>3, <2>2, <2>3, <3>1, SubSeqProperties
  <2>5. /\ Len(body) = n - h
        /\ \A i \in 1..(n - h) : body[i] = t[h + i] /\ h + i \in (h + 1)..Len(t)
    <3>1. /\ n - (h + 1) + 1 = n - h /\ (h + 1 <= n \/ n - h = 0)
      BY <1>1, <1>10
    <3>2. \A i \in 1..(n - h) : /\ (h + 1) + i - 1 = h + i /\ h + i \in 1..n
                                /\ h + i \in (h + 1)..Len(t)
      BY <1>1, <1>6
    <3>3. QED
      BY <1>3, <2>4, <3>1, <3>2
  <2>6. CASE n = h
    <3>1. body = <<>>
      BY <1>1, <2>4, <2>5, <2>6, EmptySeq
    <3>2. n = Len(t) => ~(l >= 3)
      BY <1>1, <2>6
    <3>3. QED
      BY <1>2, <1>5, <3>1, <3>2
  <2>7. CASE n # h
    <3>1. 1 \in 1..(n - h) /\ n - h \in 1..(n - h) /\ h + (n - h) = n
      BY <1>1, <1>10, <2>7
    <3>2. body # <<>>
      BY <2>5, <3>1, EmptySeq
    <3>3. body[1] = "{" <=> r.body # "page"
      BY <1>7, <2>5, <3>1
    <3>4. body[Len(body)] = "}" <=> n = Len(t) /\ r.body # "page"
      BY <1>7, <2>5, <3>1
    <3>5. r.body # "empty"
      <4>1. l # 0
        BY <1>1, <1>6, <1>10, <2>7
      <4>2. QED
        BY <1>2, <4>1
    <3>6. CASE n = Len(t) /\ r.body # "page"
      <4>1. r.body \in {"data", "error", "mention"} /\ n - h >= 3
        BY <1>1, <1>2, <3>5, <3>6
      <4>2. "error" \in Token /\ 2 \in Nat \ {0}
        BY DEF Token
      <4>3. \A i \in 1..(n - h) : body[i] = "error" <=> r.body = "error" /\ i = 2
        <5>1. SUFFICES ASSUME NEW i \in 1..(n - h)
                       PROVE  body[i] = "error" <=> r.body = "error" /\ i = 2
          OBVIOUS
        <5>2. h + i = h + 2 <=> i = 2
          BY <1>1
        <5>3. body[i] = t[h + i] /\ h + i \in (h + 1)..Len(t)
          BY <2>5
        <5>4. t[h + i] = "error" <=> r.body = "error" /\ h + i = h + 2
          BY <1>7, <5>3
        <5>5. QED
          BY <5>2, <5>3, <5>4
      <4>4. CASE r.body = "error"
        <5>1. \A i \in 1..Len(body) : i <= 2 => (body[i] = "error" <=> i = 2)
          BY <2>5, <4>3, <4>4
        <5>2. buffer_find(body, <<"error">>) = IF 2 <= Len(body) THEN 2 - 1 ELSE -1
          BY <2>4, <4>2, <5>1, FirstThere
        <5>3. buffer_find(body, <<"error">>) >= 0
          BY <1>1, <2>5, <4>1, <5>2
        <5>4. QED
          BY <1>5, <2>1, <3>2, <3>3, <3>4, <3>6, <4>4, <5>3
      <4>5. CASE r.body # "error"
        <5>1. \A i \in 1..Len(body) : body[i] # "error"
          BY <2>5, <4>3, <4>5
        <5>2. buffer_find(body, <<"error">>) = -1
          BY <2>4, <4>2, <5>1, Nowhere
        <5>3. ~(buffer_find(body, <<"error">>) >= 0)
          BY <5>2
        <5>4. QED
          BY <1>5, <2>1, <3>2, <3>3, <3>4, <3>6, <4>1, <4>5, <5>3
      <4>6. QED
        BY <4>4, <4>5
    <3>7. CASE ~(n = Len(t) /\ r.body # "page")
      BY <1>5, <3>4, <3>7
    <3>8. QED
      BY <3>6, <3>7
  <2>8. QED
    BY <2>6, <2>7
<1>11. QED
  BY <1>9, <1>10

-----------------------------------------------------------------------------
(* Whatever part of a response is there when the client goes on, it is one *)
(* of the replies its specification allows for.                            *)

LEMMA ReplyAllowed ==
  ASSUME NEW c \in Commands, NEW accepted \in BOOLEAN,
         NEW r \in Responses(c, accepted), NEW n \in 0..Len(Text(r)), NEW data,
         First(data, Text(r), n)
  PROVE  ReplyIn(c, data) \in Replies(c, accepted)
<1> DEFINE t == Text(r)
           h == HeadLen(r)
           reply == ReplyIn(c, data)
<1>1. /\ r \in Response /\ r.ok = accepted
      /\ r.cookie = (accepted /\ c = "login")
      /\ ~accepted => r.body \in {"error", "empty", "page"}
      /\ accepted /\ c = "enter_library" => r.body = "data"
      /\ accepted => r.body # "error"
  BY DEF Responses, Books
<1>2. /\ h \in Nat /\ h >= 3 /\ n \in Nat /\ (r.cookie => h > 3)
      /\ Len(t) \in Nat /\ h <= Len(t)
      /\ n = Len(t) /\ r.body \in {"data", "mention", "error"} => n >= h + 2
      /\ n = Len(t) /\ r.body = "data" => n = h + 5
  <2>1. Len(Bodies[r.body]) \in 0..5 /\ Len(t) = h + Len(Bodies[r.body])
    BY <1>1, BodyIs, TextIs
  <2>2. h \in Nat /\ h >= 3 /\ (r.cookie => h > 3)
    BY DEF HeadLen, Before
  <2> DEFINE l == Len(Bodies[r.body])
  <2>3. (r.body \in {"data", "mention", "error"} => l >= 3) /\ (r.body = "data" => l = 5)
    <3>1. \/ r.body = "data" /\ l = 5
          \/ r.body = "error" /\ l = 3
          \/ r.body = "mention" /\ l = 4
          \/ r.body \in {"empty", "page"}
      BY <1>1, BodyIs
    <3> HIDE DEF l
    <3>2. QED
      BY <3>1
  <2>4. n \in 0..Len(t)
    OBVIOUS
  <2>5. l \in 0..5 /\ Len(t) = h + l
    BY <2>1
  <2> HIDE DEF l, t, h
  <2>6. n \in Nat /\ Len(t) \in Nat /\ h <= Len(t)
    BY <2>2, <2>4, <2>5
  <2>7. n = Len(t) /\ l >= 3 => n >= h + 2
    BY <2>2, <2>5, <2>6
  <2>8. n = Len(t) /\ l = 5 => n = h + 5
    BY <2>5
  <2>9. QED
    BY <2>2, <2>3, <2>6, <2>7, <2>8
<1>3. /\ buffer_find(data, <<"200">>) >= 0 <=> r.ok /\ n >= 1
      /\ ValueOf(c, data) =
           IF c = "login" THEN IF r.cookie /\ n >= 3 THEN "whole" ELSE "none"
           ELSE IF r.body # "data" \/ n < h + 2 \/ n = h + 3 THEN "none"
           ELSE IF n = h + 2 THEN "cut" ELSE "whole"
  BY <1>1, ValuesFound, ValueIs
<1>4. buffer_find(data, HEADER_TERMINATOR) >= 0 <=> n >= h
  <2>1. buffer_find(data, HEADER_TERMINATOR) = IF h <= n THEN h - 2 ELSE -1
    BY <1>1, HeaderFound
  <2> HIDE DEF h
  <2>2. QED
    BY <1>2, <2>1
<1>5. BodyOf(data) =
        IF n = Len(t) /\ r.body \in {"data", "mention"} THEN "data"
        ELSE IF n = Len(t) /\ r.body = "error" THEN "error" ELSE "none"
  BY <1>1, BodyFound
<1>6. /\ reply.ok <=> r.ok /\ n >= 1
      /\ reply.header <=> n >= h
      /\ reply.body = BodyOf(data)
      /\ reply.value = ValueOf(c, data)
  BY <1>3, <1>4 DEF ReplyIn
<1>7. reply \in Reply
  <2>1. BodyOf(data) \in {"data", "error", "none"}
    BY <1>5
  <2>2. ValueOf(c, data) \in {"whole", "none", "cut"}
    BY <1>3
  <2>3. QED
    BY <2>1, <2>2 DEF ReplyIn, Reply
<1> HIDE DEF t, h, reply
<1>8. CASE accepted
  <2>1. r.ok /\ (r.cookie <=> c = "login") /\ r.body # "error"
    BY <1>1, <1>8
  <2>2. reply.body # "error"
    BY <1>5, <1>6, <2>1
  <2>3. reply.body = "data" => reply.header
    BY <1>2, <1>5, <1>6
  <2>4. reply.header \/ reply.value # "none" => reply.ok
    <3>1. reply.value # "none" => n >= 1
      BY <1>2, <1>3, <1>6
    <3>2. reply.header => n >= 1
      BY <1>2, <1>6
    <3>3. QED
      BY <1>6, <2>1, <3>1, <3>2
  <2>5. reply.value = "cut" => c # "login" /\ reply.body = "none"
    <3>1. reply.value = "cut" => c # "login" /\ r.body = "data" /\ n = h + 2
      BY <1>3, <1>6
    <3>2. n = h + 2 /\ r.body = "data" => n # Len(t)
      BY <1>2
    <3>3. QED
      BY <1>5, <1>6, <3>1, <3>2
  <2>6. c = "login" /\ reply.header => reply.value = "whole"
    <3>1. reply.header => n >= 3
      BY <1>2, <1>6
    <3>2. QED
      BY <1>3, <1>6, <2>1, <3>1
  <2>7. c = "enter_library" =>
          /\ reply.body = "data" => reply.value = "whole"
          /\ reply.value # "none" => reply.header
    <3>1. ASSUME c = "enter_library", reply.body = "data" PROVE reply.value = "whole"
      <4>1. n = Len(t) /\ r.body = "data"
        BY <1>1, <1>5, <1>6, <1>8, <3>1
      <4>2. ~(n < h + 2) /\ ~(n = h + 3) /\ ~(n = h + 2)
        BY <1>2, <4>1
      <4>3. QED
        BY <1>3, <1>6, <3>1, <4>1, <4>2
    <3>2. ASSUME c = "enter_library", reply.value # "none" PROVE reply.header
      <4>1. ~(n < h + 2)
        BY <1>3, <1>6, <3>2
      <4>2. QED
        BY <1>2, <1>6, <4>1
    <3>3. QED
      BY <3>1, <3>2
  <2>8. reply \in Accepted(c)
    BY <1>7, <2>2, <2>3, <2>4, <2>5, <2>6, <2>7 DEF Accepted
  <2>9. QED
    BY <1>8, <2>8 DEF Replies, reply
<1>9. CASE ~accepted
  <2>1. ~r.ok /\ r.body \in {"error", "empty", "page"}
    BY <1>1, <1>9
  <2>2. ~reply.ok
    BY <1>6, <2>1
  <2>3. reply.body # "data"
    BY <1>5, <1>6, <2>1
  <2>4. reply.body = "error" => reply.header
    BY <1>2, <1>5, <1>6
  <2>5. reply \in Refused
    BY <1>7, <2>2, <2>3, <2>4 DEF Refused
  <2>6. QED
    BY <1>9, <2>5 DEF Replies, reply
<1>10. QED
  BY <1>8, <1>9

-----------------------------------------------------------------------------
(* Over the connections.                                                   *)

\* Where receive_from_server stands, n tokens into the response r.
ReadSoFar(r) ==
  LET n == Len(buffer)
      h == HeadLen(r)
      looked == header_end = IF h <= n THEN h ELSE -1
  IN  /\ stage = "header" => looked \/ (n = 0 /\ header_end = 0)
      /\ stage \in {"body", "returned"} =>
           \/ n = sent /\ (n = 0 \/ looked)
           \/ r.length /\ header_end = h /\ content_length = Len(Bodies[r.body])
           \/ ~r.length /\ buffer_find(text, CONTENT_LENGTH) # -1
      /\ stage = "returned" => n = sent \/ ~Missing

\* What is read is the beginning of a response to the command under way.
Receiving ==
  /\ command \in Commands /\ served \in BOOLEAN
  /\ sent \in 0..Len(text) /\ Len(buffer) <= sent
  /\ First(buffer, text, Len(buffer))
  /\ \E r \in Responses(command, served) : text = Text(r) /\ ReadSoFar(r)

HttpInv ==
  /\ stage \in {"idle", "header", "body", "returned"}
  /\ stage = "idle" => text = <<>> /\ sent = 0 /\ buffer = <<>> /\ header_end = 0
  /\ stage # "idle" => Receiving

LEMMA FirstIs ==
  ASSUME NEW s \in Seq(Token), NEW n \in 0..Len(s)
  PROVE  First(SubSeq(s, 1, n), s, n)
<1>1. Len(s) \in Nat /\ n \in Nat /\ 1 \in Int
  BY LenProperties
<1>2. \A i \in 1..n : i \in 1..Len(s)
  BY <1>1
<1>3. \A i \in 1..n : s[i] \in Token
  BY <1>2, ElementOfSeq
<1>4. /\ SubSeq(s, 1, n) \in Seq(Token)
      /\ Len(SubSeq(s, 1, n)) = IF 1 <= n THEN n - 1 + 1 ELSE 0
      /\ \A i \in 1..(n - 1 + 1) : SubSeq(s, 1, n)[i] = s[1 + i - 1]
  BY <1>1, <1>3, SubSeqProperties
<1>5. /\ (IF 1 <= n THEN n - 1 + 1 ELSE 0) = n /\ n - 1 + 1 = n
      /\ \A i \in 1..n : 1 + i - 1 = i
  BY <1>1
<1>6. QED
  BY <1>4, <1>5 DEF First

\* The length in a header is the body's.
LEMMA LengthRead ==
  ASSUME NEW r \in Response, r.length, NEW n \in 0..Len(Text(r)), HeadLen(r) <= n,
         NEW data, First(data, Text(r), n), NEW m \in strtol(data, Before(r) + 1)
  PROVE  m = Len(Bodies[r.body])
<1> DEFINE l == Len(Bodies[r.body])
           i == Before(r) + 1
           read == {k \in 0..MaxLength : k = 0 \/ Number[k + 1] = data[i + 1]}
<1>1. l \in 0..5
  BY BodyIs
<1>2. /\ i \in Nat /\ i + 1 \in Nat /\ i + 1 < HeadLen(r) /\ i + 1 = Before(r) + 2 /\ i + 1 >= 1
  BY DEF Before, HeadLen
<1>3. Len(Text(r)) \in Nat /\ Len(data) = n /\ HeadLen(r) \in Nat
  BY TextIs, LenProperties DEF First, HeadLen, Before
<1>4. Text(r)[Before(r) + 2] = Number[l + 1]
  BY TextIs
<1> HIDE DEF i, l
<1>5. i + 1 \in 1..n /\ i # Len(data)
  BY <1>2, <1>3
<1>6. data[i + 1] = Number[l + 1]
  BY <1>2, <1>4, <1>5 DEF First
<1>7. m = Max(read)
  <2>1. strtol(data, i) = {Max(read)}
    BY <1>5 DEF strtol
  <2> HIDE DEF read
  <2>2. QED
    BY <2>1 DEF i
<1>8. \A j, k \in 1..10 : Number[j] = Number[k] => j = k
  BY DEF Number
<1>9. \A k \in 0..MaxLength : Number[k + 1] = Number[l + 1] => k = l
  <2>1. \A k \in 0..MaxLength : k + 1 \in 1..10
    BY DEF MaxLength
  <2>2. l + 1 \in 1..10 /\ l \in Nat
    BY <1>1
  <2>3. \A k \in 0..MaxLength : Number[k + 1] = Number[l + 1] => k + 1 = l + 1
    BY <1>8, <2>1, <2>2
  <2>4. QED
    BY <2>2, <2>3
<1>10. read = {0, l}
  BY <1>1, <1>6, <1>9 DEF MaxLength
<1> HIDE DEF read
<1>11. Max(read) = l
  <2>1. Max({0, l}) = CHOOSE x \in {0, l} : \A y \in {0, l} : x >= y
    BY DEF Max
  <2>2. \A x \in {0, l} : (\A y \in {0, l} : x >= y) <=> x = l
    BY <1>1
  <2>3. QED
    BY <1>10, <2>1, <2>2
<1>12. QED
  BY <1>7, <1>11 DEF l

LEMMA HttpStart == LibraryHttpInit => HttpInv
BY DEF LibraryHttpInit, HttpInit, HttpInv

\* A read, in the first loop or the second, goes on in the response.
LEMMA ReadGoesOn ==
  ASSUME Receiving, Read, text' = text, sent' = sent,
         NEW r \in Responses(command, served), text = Text(r)
  PROVE  /\ Len(buffer') \in 0..Len(text) /\ Len(buffer') <= sent
         /\ First(buffer', text, Len(buffer'))
         /\ Len(buffer) < sent
<1>1. PICK k \in 1..BUFLEN :
        Len(buffer) + k <= sent /\ buffer' = SubSeq(text, 1, Len(buffer) + k)
  BY DEF Read
<1>2. text \in Seq(Token)
  BY TextIs DEF Responses
<1>3. Len(text) \in Nat /\ Len(buffer) \in Nat /\ sent \in 0..Len(text)
  BY <1>2, LenProperties DEF Receiving, First
<1>4. Len(buffer) + k \in 0..Len(text) /\ Len(buffer) < sent
  BY <1>1, <1>3
<1>5. First(buffer', text, Len(buffer) + k)
  BY <1>1, <1>2, <1>4, FirstIs
<1>6. Len(buffer') = Len(buffer) + k
  BY <1>5 DEF First
<1>7. QED
  BY <1>1, <1>4, <1>5, <1>6

LEMMA ReadHeaderStep ==
  ASSUME Receiving, stage = "header", ReadHeader, UNCHANGED <<command, served>>
  PROVE  Receiving' /\ stage' \in {"header", "body"}
<1> DEFINE n == Len(buffer')
           terminator == buffer_find(buffer', HEADER_TERMINATOR)
           start == buffer_find(buffer', CONTENT_LENGTH)
<1>1. PICK r \in Responses(command, served) : text = Text(r) /\ ReadSoFar(r)
  BY DEF Receiving
<1>2. r \in Response
  BY DEF Responses
<1>3. /\ Read /\ UNCHANGED <<text, sent, closed>>
      /\ header_end' = IF terminator < 0 THEN -1 ELSE terminator + Len(HEADER_TERMINATOR)
      /\ terminator < 0 \/ start < 0 => UNCHANGED <<stage, content_length>>
      /\ ~(terminator < 0 \/ start < 0) =>
           /\ content_length' \in strtol(buffer', start + Len(CONTENT_LENGTH))
           /\ stage' = "body"
  BY DEF ReadHeader
<1>4. n \in 0..Len(text) /\ n <= sent /\ First(buffer', text, n)
  BY <1>1, <1>3, ReadGoesOn
<1>5. HeadLen(r) \in Nat /\ HeadLen(r) >= 3 /\ n \in Nat /\ Before(r) \in Nat
  <2>1. n \in Nat
    BY <1>4, LenProperties DEF First
  <2>2. HeadLen(r) \in Nat /\ HeadLen(r) >= 3 /\ Before(r) \in Nat
    BY DEF HeadLen, Before
  <2>3. QED
    BY <2>1, <2>2
<1>6. terminator = IF HeadLen(r) <= n THEN HeadLen(r) - 2 ELSE -1
  BY <1>1, <1>2, <1>4, HeaderFound
<1>7. /\ r.length => start = IF Before(r) < n THEN Before(r) ELSE -1
      /\ ~r.length => start = -1 \/ start \in HeadLen(r)..(n - 1)
  BY <1>1, <1>2, <1>4, LengthFound
<1>8. Len(HEADER_TERMINATOR) = 2 /\ Len(CONTENT_LENGTH) = 1
  BY DEF HEADER_TERMINATOR, CONTENT_LENGTH
<1>9. header_end' = IF HeadLen(r) <= n THEN HeadLen(r) ELSE -1
  <2> DEFINE h == HeadLen(r)
  <2>1. terminator = (IF h <= n THEN h - 2 ELSE -1) /\ h \in Nat /\ h >= 3
    BY <1>5, <1>6
  <2>2. header_end' = IF terminator < 0 THEN -1 ELSE terminator + 2
    BY <1>3, <1>8
  <2> HIDE DEF n, h, terminator
  <2>3. QED
    BY <1>5, <2>1, <2>2 DEF h
<1>10. CASE terminator < 0 \/ start < 0
  <2>1. stage' = "header"
    BY <1>3, <1>10
  <2>2. ReadSoFar(r)'
    BY <1>9, <2>1 DEF ReadSoFar
  <2>3. QED
    BY <1>1, <1>3, <1>4, <2>1, <2>2 DEF Receiving
<1>11. CASE ~(terminator < 0 \/ start < 0)
  <2>1. /\ stage' = "body"
        /\ content_length' \in strtol(buffer', start + 1)
    BY <1>3, <1>8, <1>11
  <2>2. HeadLen(r) <= n /\ start # -1
    <3>1. ~(terminator < 0) /\ ~(start < 0)
      BY <1>11
    <3> HIDE DEF terminator, start, n
    <3>2. QED
      BY <1>6, <3>1
  <2>3. header_end' = HeadLen(r)
    BY <1>9, <2>2
  <2>4. ASSUME r.length PROVE content_length' = Len(Bodies[r.body])
    <3>1. start = Before(r)
      BY <1>7, <2>2, <2>4
    <3>2. content_length' \in strtol(buffer', Before(r) + 1)
      BY <2>1, <3>1
    <3>3. First(buffer', Text(r), n) /\ n \in 0..Len(Text(r))
      BY <1>1, <1>4
    <3>4. QED
      BY <1>2, <2>2, <2>4, <3>2, <3>3, LengthRead
  <2>5. buffer_find(text, CONTENT_LENGTH) # -1
    <3>1. SUFFICES ASSUME buffer_find(text, CONTENT_LENGTH) = -1 PROVE FALSE
      OBVIOUS
    <3>2. text \in Seq(Token) /\ buffer' \in Seq(Token)
      BY <1>1, <1>2, <1>4, TextIs DEF First
    <3> DEFINE w == "Content-Length"
    <3>3. w \in Token
      BY DEF Token
    <3>4. <<w>> = CONTENT_LENGTH
      BY DEF CONTENT_LENGTH
    <3> HIDE DEF w
    <3>5. LET i == buffer_find(text, <<w>>)
          IN  \/ i = -1 /\ \A j \in 1..Len(text) : text[j] # w
              \/ /\ i \in 0..(Len(text) - 1) /\ text[i + 1] = w
                 /\ \A j \in 1..i : text[j] # w
      BY <3>2, <3>3, FindToken
    <3>6. buffer_find(text, <<w>>) = -1
      BY <3>1, <3>4
    <3>7. -1 \notin 0..(Len(text) - 1)
      OBVIOUS
    <3>8. \A j \in 1..Len(text) : text[j] # w
      BY <3>5, <3>6, <3>7
    <3>9. \A j \in 1..Len(buffer') : buffer'[j] # w
      <4>1. \A j \in 1..n : j \in 1..Len(text) /\ buffer'[j] = text[j]
        <5>1. Len(text) \in Nat /\ n <= Len(text)
          BY <1>4, <3>2, LenProperties
        <5>2. \A j \in 1..n : buffer'[j] = text[j]
          BY <1>4 DEF First
        <5> HIDE DEF n
        <5>3. QED
          BY <1>5, <5>1, <5>2
      <4>2. QED
        BY <3>8, <4>1
    <3>10. start = -1
      BY <3>2, <3>3, <3>4, <3>9, Nowhere
    <3>11. QED
      BY <2>2, <3>10
  <2>6. ReadSoFar(r)'
    <3>1. buffer_find(text, CONTENT_LENGTH)' # -1
      BY <1>3, <2>5
    <3>2. r.length \/ ~r.length
      OBVIOUS
    <3>3. QED
      BY <2>1, <2>3, <2>4, <3>1, <3>2 DEF ReadSoFar
  <2>7. QED
    BY <1>1, <1>3, <1>4, <2>1, <2>6 DEF Receiving
<1>12. QED
  BY <1>10, <1>11

LEMMA ReceiveStep ==
  ASSUME Receiving, stage # "idle", Receive \/ Close, UNCHANGED <<command, served>>
  PROVE  Receiving' /\ stage' \in {"header", "body", "returned"}
<1>1. PICK r \in Responses(command, served) : text = Text(r) /\ ReadSoFar(r)
  BY DEF Receiving
<1>2. CASE ReadHeader
  BY <1>2, ReadHeaderStep DEF ReadHeader
<1>3. CASE ReadHeaderEnd
  <2>1. /\ stage = "header" /\ stage' = "body" /\ Len(buffer) = sent
        /\ UNCHANGED <<text, sent, buffer, header_end, content_length>>
    BY <1>3 DEF ReadHeaderEnd, AtEnd
  <2>2. ReadSoFar(r)'
    BY <1>1, <2>1 DEF ReadSoFar
  <2>3. QED
    BY <1>1, <2>1, <2>2 DEF Receiving, First
<1>4. CASE ReadBody
  <2>1. /\ stage = "body" /\ stage' = "body" /\ Read
        /\ UNCHANGED <<text, sent, header_end, content_length>>
    BY <1>4 DEF ReadBody
  <2>2. /\ Len(buffer') <= sent /\ First(buffer', text, Len(buffer'))
        /\ Len(buffer) < sent
    BY <1>1, <2>1, ReadGoesOn
  <2>3. Len(buffer) # sent
    <3>1. Len(buffer) \in Nat
      BY LenProperties DEF Receiving, First
    <3>2. QED
      BY <2>2, <3>1
  <2>4. \/ r.length /\ header_end = HeadLen(r) /\ content_length = Len(Bodies[r.body])
        \/ ~r.length /\ buffer_find(text, CONTENT_LENGTH) # -1
    BY <1>1, <2>1, <2>3 DEF ReadSoFar
  <2>5. ReadSoFar(r)'
    BY <2>1, <2>4 DEF ReadSoFar
  <2>6. QED
    BY <1>1, <2>1, <2>2, <2>5 DEF Receiving, First
<1>5. CASE Return
  <2>1. /\ stage = "body" /\ stage' = "returned" /\ (~Missing \/ Len(buffer) = sent)
        /\ UNCHANGED <<text, sent, buffer, header_end, content_length>>
    BY <1>5 DEF Return, AtEnd
  <2>2. ReadSoFar(r)'
    BY <1>1, <2>1 DEF ReadSoFar, Missing
  <2>3. QED
    BY <1>1, <2>1, <2>2 DEF Receiving, First
<1>6. CASE Close
  <2>1. /\ stage \in {"header", "body"}
        /\ UNCHANGED <<stage, text, sent, buffer, header_end, content_length>>
    BY <1>6 DEF Close
  <2>2. ReadSoFar(r)'
    BY <1>1, <2>1 DEF ReadSoFar, Missing
  <2>3. QED
    BY <1>1, <2>1, <2>2 DEF Receiving, First
<1>7. QED
  BY <1>2, <1>3, <1>4, <1>5, <1>6 DEF Receive

LEMMA AskStep ==
  ASSUME HttpInv, NEW c \in Commands, NEW accepted \in BOOLEAN, Ask(c, accepted)
  PROVE  HttpInv'
<1>1. PICK r \in Responses(c, accepted) : Respond(r)
  BY DEF Ask
<1>2. /\ stage = "idle" /\ stage' = "header" /\ text' = Text(r)
      /\ sent' \in 0..Len(text') /\ UNCHANGED <<buffer, header_end>>
      /\ command' = c /\ served' = accepted
  BY <1>1 DEF Ask, Respond
<1>3. buffer' = <<>> /\ header_end' = 0
  BY <1>2 DEF HttpInv
<1>4. Len(buffer') = 0 /\ First(buffer', text', 0)
  <2>1. <<>> \in Seq(Token) /\ Len(<<>>) = 0
    BY EmptySeq
  <2>2. QED
    BY <1>3, <2>1 DEF First
<1>5. Len(buffer') <= sent'
  <2>1. Len(Text(r)) \in Nat
    BY TextIs, LenProperties DEF Responses
  <2>2. sent' \in 0..Len(Text(r))
    BY <1>2
  <2>3. QED
    BY <1>4, <2>1, <2>2
<1>6. ReadSoFar(r)'
  BY <1>2, <1>3, <1>4 DEF ReadSoFar
<1>7. Receiving'
  BY <1>2, <1>4, <1>5, <1>6 DEF Receiving
<1>8. QED
  BY <1>2, <1>7 DEF HttpInv

LEMMA HttpStep == HttpInv /\ [LibraryHttpNext]_libraryHttpVars => HttpInv'
<1> SUFFICES ASSUME HttpInv, [LibraryHttpNext]_libraryHttpVars PROVE HttpInv'
  OBVIOUS
<1>1. ASSUME UNCHANGED <<httpVars, command, served>> PROVE HttpInv'
  BY <1>1 DEF httpVars, HttpInv, Receiving, ReadSoFar, First, Missing
<1>2. CASE AtPrompt
  BY <1>1, <1>2 DEF AtPrompt
<1>3. ASSUME NEW c \in Commands, NEW accepted \in BOOLEAN, Ask(c, accepted)
      PROVE  HttpInv'
  BY <1>3, AskStep
<1>4. CASE (Receive \/ Close) /\ UNCHANGED <<vars, command, served>>
  <2>1. stage # "idle"
    BY <1>4 DEF Receive, ReadHeader, ReadHeaderEnd, ReadBody, Return, Close
  <2>2. Receiving' /\ stage' \in {"header", "body", "returned"}
    BY <1>4, <2>1, ReceiveStep DEF HttpInv
  <2>3. QED
    BY <2>2 DEF HttpInv
<1>5. CASE GoOn \/ Break
  BY <1>5 DEF GoOn, Break, Reset, HttpInv
<1>6. CASE UNCHANGED libraryHttpVars
  BY <1>1, <1>6 DEF libraryHttpVars
<1>7. QED
  BY <1>2, <1>3, <1>4, <1>5, <1>6 DEF LibraryHttpNext

LEMMA HttpAlways == LibraryHttpSpec => []HttpInv
BY HttpStart, HttpStep, PTL DEF LibraryHttpSpec

-----------------------------------------------------------------------------
(* What the loops come to.                                                 *)

LEMMA TextFound ==
  ASSUME NEW r \in Response, text = Text(r)
  PROVE  /\ text \in Seq(Token) /\ Len(text) \in Nat /\ First(text, text, Len(text))
         /\ Len(text) = HeadLen(r) + Len(Bodies[r.body])
         /\ Len(Bodies[r.body]) \in Nat /\ HeadLen(r) \in Nat /\ HeadLen(r) >= 3
         /\ HeaderLength = HeadLen(r) - 2
         /\ LengthIsClear /\ ~r.length => buffer_find(text, CONTENT_LENGTH) = -1
<1> DEFINE h == HeadLen(r)
           l == Len(Bodies[r.body])
           n == Len(text)
           f == buffer_find(text, CONTENT_LENGTH)
<1>1. text \in Seq(Token) /\ n \in Nat /\ n = h + l
  BY TextIs, LenProperties
<1>2. l \in Nat
  <2>1. l \in 0..5
    BY BodyIs
  <2> HIDE DEF l
  <2>2. QED
    BY <2>1
<1>3. h \in Nat /\ h >= 3
  BY DEF HeadLen, Before
<1>4. First(text, Text(r), n) /\ n \in 0..Len(Text(r))
  BY <1>1 DEF First
<1>5. HeaderLength = IF h <= n THEN h - 2 ELSE -1
  BY <1>4, HeaderFound DEF HeaderLength
<1>6. ~r.length => f = -1 \/ f \in h..(n - 1)
  BY <1>4, LengthFound
<1> HIDE DEF h, l, n, f
<1>7. HeaderLength = h - 2
  BY <1>1, <1>2, <1>3, <1>5
<1>8. LengthIsClear => f \in 0..(h - 2) \/ f = -1
  BY <1>7 DEF LengthIsClear, LengthInHeader, f
<1>9. LengthIsClear /\ ~r.length => f = -1
  BY <1>1, <1>3, <1>6, <1>8
<1>10. QED
  BY <1>1, <1>2, <1>3, <1>4, <1>7, <1>9 DEF h, l, n, f

LEMMA WholeRead == HttpInv => WholeResponse
<1> SUFFICES ASSUME HttpInv, stage = "returned", sent = Len(text), LengthIsClear
             PROVE  buffer = text /\ header_end = HeaderLength + Len(HEADER_TERMINATOR)
  BY DEF WholeResponse
<1>1. Receiving
  BY DEF HttpInv
<1>2. PICK r \in Responses(command, served) : text = Text(r) /\ ReadSoFar(r)
  BY <1>1 DEF Receiving
<1> DEFINE n == Len(buffer)
           h == HeadLen(r)
           l == Len(Bodies[r.body])
<1>3. /\ text \in Seq(Token) /\ Len(text) \in Nat /\ Len(text) = h + l
      /\ l \in Nat /\ h \in Nat /\ h >= 3 /\ HeaderLength = h - 2
      /\ ~r.length => buffer_find(text, CONTENT_LENGTH) = -1
  BY <1>2, TextFound DEF Responses
<1>4. /\ buffer \in Seq(Token) /\ n \in Nat /\ n <= Len(text)
      /\ \A j \in 1..n : buffer[j] = text[j]
  BY <1>1, LenProperties DEF Receiving, First
<1>5. \/ n = sent /\ (n = 0 \/ header_end = IF h <= n THEN h ELSE -1)
      \/ header_end = h /\ content_length = l
  BY <1>2, <1>3 DEF ReadSoFar
<1>6. n = sent \/ (~(header_end < 0) /\ ~(n < content_length + header_end))
  BY <1>2 DEF ReadSoFar, Missing
<1> HIDE DEF n, h, l
<1>7. n = Len(text) /\ header_end = h
  BY <1>3, <1>4, <1>5, <1>6
<1>8. buffer = text
  BY <1>3, <1>4, <1>7, SeqEqual DEF n
<1>9. Len(HEADER_TERMINATOR) = 2
  BY DEF HEADER_TERMINATOR
<1>10. QED
  BY <1>3, <1>7, <1>8, <1>9

\* Whatever pieces a response comes in, and wherever its field of the length
\* stands or does not stand, receive_from_server returns it whole, unless it
\* was cut short or its body was taken for the header.
THEOREM ReadsWhole == LibraryHttpSpec => []WholeResponse
BY HttpAlways, WholeRead, PTL

-----------------------------------------------------------------------------
(* The client over its connections is the client of LibraryClient.         *)

LEMMA ClientStep == HttpInv /\ [LibraryHttpNext]_libraryHttpVars => [Next]_vars
<1> SUFFICES ASSUME HttpInv, [LibraryHttpNext]_libraryHttpVars PROVE [Next]_vars
  OBVIOUS
<1>1. CASE AtPrompt
  BY <1>1 DEF AtPrompt, Next
<1>2. ASSUME NEW c \in Commands, NEW accepted \in BOOLEAN, Ask(c, accepted)
      PROVE  [Next]_vars
  BY <1>2 DEF Ask
<1>3. CASE (Receive \/ Close) /\ UNCHANGED <<vars, command, served>>
  BY <1>3
<1>4. CASE GoOn
  <2>1. stage = "returned"
    BY <1>4 DEF GoOn
  <2>2. Receiving
    BY <2>1 DEF HttpInv
  <2>3. PICK r \in Responses(command, served) : text = Text(r)
    BY <2>2 DEF Receiving
  <2> DEFINE reply == ReplyIn(command, buffer)
  <2>4. /\ command \in Commands /\ served \in BOOLEAN
        /\ First(buffer, Text(r), Len(buffer)) /\ Len(buffer) \in 0..Len(Text(r))
    <3>1. buffer \in Seq(Token) /\ First(buffer, text, Len(buffer))
      BY <2>2 DEF Receiving, First
    <3>2. text \in Seq(Token)
      BY <2>3, TextIs DEF Responses
    <3>3. Len(buffer) \in 0..Len(text)
      BY <2>2, <3>1, <3>2, LenProperties DEF Receiving
    <3>4. QED
      BY <2>2, <2>3, <3>1, <3>3 DEF Receiving
  <2>5. reply \in Replies(command, served)
    BY <2>4, ReplyAllowed
  <2>6. \/ command = "login" /\ Login(reply, served)
        \/ command = "enter_library" /\ EnterLibrary(reply, served)
        \/ command = "logout" /\ Logout(reply, served)
        \/ Plain(command, reply, served)
    BY <1>4 DEF GoOn
  <2> HIDE DEF reply
  <2>7. QED
    BY <2>4, <2>5, <2>6 DEF Next
<1>5. CASE Break
  <2>1. CASE stage = "idle" /\ \E c \in Commands : BreakOff(c, FALSE)
    BY <2>1 DEF Next
  <2>2. CASE stage \in {"header", "body"} /\ BreakOff(command, served)
    <3>1. command \in Commands /\ served \in BOOLEAN
      BY <2>2 DEF HttpInv, Receiving
    <3>2. QED
      BY <2>2, <3>1 DEF Next
  <2>3. QED
    BY <1>5, <2>1, <2>2 DEF Break
<1>6. CASE UNCHANGED libraryHttpVars
  BY <1>6 DEF libraryHttpVars
<1>7. QED
  BY <1>1, <1>2, <1>3, <1>4, <1>5, <1>6 DEF LibraryHttpNext

\* However a response is cut into pieces or cut off, what the client does
\* with it is what LibraryClient says: the searches of the buffer never find
\* a cookie or a body that the service did not send, nor a token, but where
\* the response ends inside the name of the token and the client reads on.
THEOREM ClientImplemented == LibraryHttpSpec => ImplementsLibraryClient
<1>1. LibraryHttpInit => Init
  BY DEF LibraryHttpInit
<1>2. HttpInv /\ [LibraryHttpNext]_libraryHttpVars => [Next]_vars
  BY ClientStep
<1>3. QED
  BY <1>1, <1>2, HttpAlways, PTL DEF LibraryHttpSpec, ImplementsLibraryClient, Spec

\* So the session's invariants hold over any connections, with the exceptions
\* they make.
THEOREM SessionKept ==
  LibraryHttpSpec => [](TypeOK /\ TokenOfSession /\ OpenIsRemembered)
<1>1. LibraryHttpSpec => Spec
  BY ClientImplemented DEF ImplementsLibraryClient
<1>2. QED
  BY <1>1, SessionAlways, PTL DEF SessionInv

-----------------------------------------------------------------------------
(* What is printed.                                                        *)

\* A whole response with a JSON body says what the service did.
LEMMA WholeReplyIs ==
  ASSUME NEW c \in Commands, NEW accepted \in BOOLEAN,
         NEW r \in Responses(c, accepted), text = Text(r), BodyOf(text) # "none"
  PROVE  LET reply == ReplyIn(c, text)
         IN  /\ Says(c, reply) = IF accepted THEN "success" ELSE "error"
             /\ reply.ok = accepted
             /\ c = "login" /\ accepted => reply.value = "whole"
<1> DEFINE n == Len(text)
           h == HeadLen(r)
           reply == ReplyIn(c, text)
<1>1. /\ r \in Response /\ r.ok = accepted
      /\ r.cookie = (accepted /\ c = "login")
      /\ ~accepted => r.body \in {"error", "empty", "page"}
      /\ accepted => r.body # "error"
  BY DEF Responses, Books
<1>2. /\ n \in Nat /\ h \in Nat /\ h >= 3 /\ n >= h
      /\ First(text, Text(r), n) /\ n \in 0..Len(Text(r))
  <2> DEFINE l == Len(Bodies[r.body])
  <2>1. /\ n \in Nat /\ n = h + l /\ l \in Nat /\ h \in Nat /\ h >= 3
        /\ First(text, text, n)
    BY <1>1, TextFound
  <2> HIDE DEF n, h, l
  <2>2. n >= h /\ n \in 0..n
    BY <2>1
  <2>3. QED
    BY <2>1, <2>2 DEF n
<1>3. buffer_find(text, HEADER_TERMINATOR) >= 0
  <2>1. buffer_find(text, HEADER_TERMINATOR) = IF h <= n THEN h - 2 ELSE -1
    BY <1>1, <1>2, HeaderFound
  <2> HIDE DEF n, h
  <2>2. QED
    BY <1>2, <2>1
<1>4. /\ buffer_find(text, <<"200">>) >= 0 <=> r.ok /\ n >= 1
      /\ c = "login" => ValueOf(c, text) = IF r.cookie /\ n >= 3 THEN "whole" ELSE "none"
  BY <1>1, <1>2, ValuesFound, ValueIs
<1>5. n >= 1 /\ n >= 3
  <2> HIDE DEF n, h
  <2>1. QED
    BY <1>2
<1>6. BodyOf(text) = IF r.body \in {"data", "mention"} THEN "data"
                     ELSE IF r.body = "error" THEN "error" ELSE "none"
  <2>1. n = Len(Text(r))
    OBVIOUS
  <2>2. BodyOf(text) =
          IF n = Len(Text(r)) /\ r.body \in {"data", "mention"} THEN "data"
          ELSE IF n = Len(Text(r)) /\ r.body = "error" THEN "error" ELSE "none"
    BY <1>1, <1>2, BodyFound
  <2> HIDE DEF n
  <2>3. QED
    BY <2>1, <2>2
<1>7. BodyOf(text) = IF accepted THEN "data" ELSE "error"
  BY <1>1, <1>6
<1>8. /\ reply.ok = (buffer_find(text, <<"200">>) >= 0)
      /\ reply.header = (buffer_find(text, HEADER_TERMINATOR) >= 0)
      /\ reply.body = BodyOf(text)
      /\ reply.value = ValueOf(c, text)
  BY DEF ReplyIn
<1> HIDE DEF n, h, reply
<1>9. reply.header /\ reply.body = IF accepted THEN "data" ELSE "error"
  BY <1>3, <1>7, <1>8
<1>10. Says(c, reply) = IF accepted THEN "success" ELSE "error"
  BY <1>9 DEF Says
<1>11. reply.ok = accepted
  BY <1>1, <1>4, <1>5, <1>8
<1>12. c = "login" /\ accepted => reply.value = "whole"
  BY <1>1, <1>4, <1>5, <1>8
<1>13. QED
  BY <1>10, <1>11, <1>12 DEF reply

LEMMA TruthStep ==
  HttpInv /\ TypeOK /\ [LibraryHttpNext]_libraryHttpVars
    => [TellsTheTruth]_libraryHttpVars
<1> SUFFICES ASSUME HttpInv, TypeOK, [LibraryHttpNext]_libraryHttpVars,
                    stage = "returned", stage' = "idle", sent = Len(text),
                    LengthIsClear, BodyOf(text) # "none"
             PROVE  LET told == Says(command, ReplyIn(command, buffer))
                    IN  /\ told = "success" <=> served
                        /\ command = "login" => (told = "success" <=> auth_cookie' # EMPTY)
                        /\ command = "logout" /\ told = "success" => auth_cookie' = EMPTY
  BY DEF TellsTheTruth
<1> DEFINE reply == ReplyIn(command, buffer)
<1>1. GoOn
  BY DEF LibraryHttpNext, AtPrompt, Ask, Respond, Receive, ReadHeader, ReadHeaderEnd,
         ReadBody, Return, Close, Break, libraryHttpVars, httpVars
<1>2. Receiving /\ buffer = text
  BY WholeRead DEF HttpInv, WholeResponse
<1>3. command \in Commands /\ served \in BOOLEAN
  BY <1>2 DEF Receiving
<1>4. PICK r \in Responses(command, served) : text = Text(r)
  BY <1>2 DEF Receiving
<1>5. /\ Says(command, reply) = IF served THEN "success" ELSE "error"
      /\ reply.ok = served
      /\ command = "login" /\ served => reply.value = "whole"
  BY <1>2, <1>3, <1>4, WholeReplyIs
<1>6. /\ command = "login" => Login(reply, served)
      /\ command = "logout" => Logout(reply, served)
  BY <1>1 DEF GoOn, Plain
<1> HIDE DEF reply
<1>7. Says(command, reply) = "success" <=> served
  BY <1>3, <1>5
<1>8. ASSUME command = "login" PROVE served <=> auth_cookie' # EMPTY
  <2>1. Ready("login") /\ (served => opened' = opened + 1)
    BY <1>6, <1>8 DEF Login, Exchange, Serve
  <2>2. auth_cookie = EMPTY
    BY <2>1 DEF Ready
  <2>3. opened \in Nat
    BY LibraryAssumption DEF TypeOK
  <2>4. CASE served
    <3>1. auth_cookie' = opened'
      BY <1>5, <1>6, <1>8, <2>4 DEF Login, Extract
    <3>2. QED
      BY <2>1, <2>3, <2>4, <3>1 DEF EMPTY
  <2>5. CASE ~served
    <3>1. auth_cookie' = auth_cookie
      BY <1>3, <1>5, <1>6, <1>8, <2>5 DEF Login
    <3>2. QED
      BY <2>2, <2>5, <3>1
  <2>6. QED
    BY <2>4, <2>5
<1>9. ASSUME command = "logout", served PROVE auth_cookie' = EMPTY
  BY <1>5, <1>6, <1>9 DEF Logout
<1>10. QED
  BY <1>7, <1>8, <1>9 DEF reply

\* What is printed of a whole response with a JSON body and a clear length is
\* what the service did, and what the client remembers of the session agrees.
THEOREM PrintedIsTrue == LibraryHttpSpec => ToldTheTruth
BY HttpAlways, SessionKept, TruthStep, PTL DEF LibraryHttpSpec, ToldTheTruth

=============================================================================
