--------------------------- MODULE LibraryClient ----------------------------
(***************************************************************************)
(* The command-line client of homework3-public (client.cpp): one request   *)
(* and one reply per command, and what it remembers between them.  The     *)
(* remote service is the environment: it opens and ends sessions, may end  *)
(* one on its own, refuses what it likes, and its replies may be cut short *)
(* or not be JSON.  A cookie, and a token, is named by the session it was  *)
(* issued in.                                                              *)
(***************************************************************************)
EXTENDS Integers

CONSTANTS MaxSessions  \* bound: sessions the service opens in a behaviour

ASSUME LibraryAssumption == MaxSessions \in Nat

EMPTY == 0
GARBAGE == MaxSessions + 1  \* a string that no session's token is
Books == {"get_books", "get_book"}
\* Commands that read a number, and commands that read anything.
Numeric == {"get_book", "add_book", "delete_book"}
Typed == Numeric \cup {"register", "login"}
Commands == Typed \cup Books \cup {"enter_library", "logout"}

\* A reply, as far as the client looks at it: does "HTTP/1.1 200 OK" occur in
\* it, is the header whole, what is its body, and is the cookie (of the
\* header) or the token (of the body) whole, or missing; a reply may also be
\* cut between the name of the token and its value.
Reply == [ok : BOOLEAN, header : BOOLEAN, body : {"data", "error", "none"},
          value : {"whole", "none", "cut"}]

VARIABLES
  client,              \* "running", "exited" or "crashed"
  auth_cookie, auth_library_token,
  live,                \* the sessions the service knows
  opened,              \* sessions opened so far
  cookieLost,          \* the reply to an accepted login was cut or never
                       \* came (history)
  tokenCut             \* the token is from a reply cut at its name (history)

vars == <<client, auth_cookie, auth_library_token, live, opened, cookieLost, tokenCut>>

TypeOK ==
  /\ client \in {"running", "exited", "crashed"}
  /\ auth_cookie \in 0..MaxSessions
  /\ auth_library_token \in 0..GARBAGE
  /\ opened \in 0..MaxSessions
  /\ live \subseteq 1..opened
  /\ cookieLost \in BOOLEAN
  /\ tokenCut \in BOOLEAN

Init ==
  /\ client = "running"
  /\ auth_cookie = EMPTY
  /\ auth_library_token = EMPTY
  /\ live = {}
  /\ opened = 0
  /\ cookieLost = FALSE
  /\ tokenCut = FALSE

-----------------------------------------------------------------------------
(* The service.  It goes by what a request carries: the cookie for the     *)
(* session, the token for the books.                                       *)

\* compute_post_request is given the cookie and leaves it out; the rest of
\* the line is what main passes to the three of them.
Posts == {"register", "login", "add_book"}
Request(command) ==
  [cookie |-> IF command \in Posts THEN EMPTY ELSE auth_cookie,
   token |-> IF command \in Numeric \cup Books THEN auth_library_token ELSE EMPTY]

MayAccept(command) ==
  \/ command = "register"
  \/ command = "login" /\ opened < MaxSessions
  \/ command \in {"enter_library", "logout"} /\ Request(command).cookie \in live
  \/ command \in Numeric \cup Books /\ Request(command).token \in 1..opened

\* What may arrive of the reply to a request that was served: the cookie is
\* in the header, the token in the body ...
Accepted(command) ==
  {r \in Reply :
     /\ r.body # "error"
     /\ r.body = "data" => r.header
     /\ r.header \/ r.value # "none" => r.ok
     /\ r.value = "cut" => command # "login" /\ r.body = "none"
     /\ command = "login" /\ r.header => r.value = "whole"
     /\ command = "enter_library" =>
          /\ r.body = "data" => r.value = "whole"
          /\ r.value # "none" => r.header}
\* ... and to one that was not.
Refused ==
  {r \in Reply : ~r.ok /\ r.body # "data" /\ (r.body = "error" => r.header)}
Replies(command, served) == IF served THEN Accepted(command) ELSE Refused

Serve(command) ==
  /\ MayAccept(command)
  /\ opened' = IF command = "login" THEN opened + 1 ELSE opened
  /\ live' = CASE command = "login" -> live \cup {opened + 1}
               [] command = "logout" -> live \ {auth_cookie}
               [] command \notin {"login", "logout"} -> live

\* A session times out, or the service restarts.
Expire ==
  /\ \E s \in live : live' = live \ {s}
  /\ UNCHANGED <<client, auth_cookie, auth_library_token, opened, cookieLost, tokenCut>>

-----------------------------------------------------------------------------
(* The client.                                                             *)

\* parse_response.
SaysSuccess(command, r) ==  \* mutant: does not look for an error
  IF ~r.header THEN "invalid" ELSE "success"
Says(command, r) ==
  IF ~r.header THEN "invalid" ELSE IF r.body = "error" THEN "error" ELSE "success"

\* write_success_command parses the books once more, and takes their fields:
\* nobody catches that they are not JSON, or JSON of another shape.
Fatal(command, r) == Says(command, r) = "success" /\ command \in Books /\ r.body = "none"
MayThrow(command, r) == Says(command, r) = "success" /\ command \in Books

\* A command gets as far as its request: login asks for a logout first.
ReadyAgain(command) == client = "running"  \* mutant: does not look
Ready(command) == client = "running" /\ (command = "login" => auth_cookie = EMPTY)

\* Sends the request and waits for the reply r.
Exchange(command, r, served) ==
  /\ Ready(command)
  /\ IF served THEN Serve(command) ELSE UNCHANGED <<opened, live>>
  /\ client' \in (IF Fatal(command, r) THEN {} ELSE {"running"})
                  \cup (IF MayThrow(command, r) THEN {"crashed"} ELSE {})

\* extract, on a reply that says OK: the value, or EMPTY.  From a name at the
\* end it steps on to where the value should be, past what was received, and
\* takes whatever lies there, an older token perhaps.
ExtractUnchecked(r, value) ==  \* mutant: NULL
  IF r.value = "none" THEN {-1} ELSE {value}
Extract(r, value) ==
  CASE r.value = "whole" -> {value}
    [] r.value = "none"  -> {EMPTY}
    [] r.value = "cut"   -> {EMPTY, GARBAGE} \cup 1..opened

Login(r, served) ==
  /\ Exchange("login", r, served)
  /\ auth_cookie' \in IF r.ok THEN Extract(r, opened') ELSE {auth_cookie}
  /\ cookieLost' = (cookieLost \/ (served /\ r.value # "whole"))
  /\ UNCHANGED <<auth_library_token, tokenCut>>

EnterLibrary(r, served) ==
  /\ Exchange("enter_library", r, served)
  /\ auth_library_token' \in
       IF r.ok THEN Extract(r, auth_cookie) ELSE {auth_library_token}
  /\ tokenCut' = IF r.ok THEN r.value = "cut" ELSE tokenCut
  /\ UNCHANGED <<auth_cookie, cookieLost>>

LogoutKeepingToken(r, served) ==  \* mutant: clears the cookie only
  /\ Exchange("logout", r, served)
  /\ auth_cookie' = IF r.ok THEN EMPTY ELSE auth_cookie
  /\ UNCHANGED <<auth_library_token, cookieLost, tokenCut>>
Logout(r, served) ==
  /\ Exchange("logout", r, served)
  /\ IF r.ok THEN auth_cookie' = EMPTY /\ auth_library_token' = EMPTY /\ tokenCut' = FALSE
             ELSE UNCHANGED <<auth_cookie, auth_library_token, tokenCut>>
  /\ UNCHANGED cookieLost

\* register and the commands on books remember nothing.
Plain(command, r, served) ==
  /\ command \notin {"login", "enter_library", "logout"}
  /\ Exchange(command, r, served)
  /\ UNCHANGED <<auth_cookie, auth_library_token, cookieLost, tokenCut>>

\* verify_json refuses what was typed, but get_book goes on with the NULL it
\* gets for it; and nobody catches that a number is out of range for stoi, or
\* text not UTF-8 for dump.
BadInput(command) ==
  /\ Ready(command)
  /\ command \in Typed
  /\ client' \in IF command = "get_book" THEN {"crashed"} ELSE {"running", "crashed"}
  /\ UNCHANGED <<auth_cookie, auth_library_token, live, opened, cookieLost, tokenCut>>

\* error: the connection is not made or breaks, maybe when the request was
\* served already, and the program exits.
BreakOff(command, served) ==
  /\ Ready(command)
  /\ IF served THEN Serve(command) ELSE UNCHANGED <<opened, live>>
  /\ client' = "exited"
  /\ cookieLost' = (cookieLost \/ (served /\ command = "login"))
  /\ UNCHANGED <<auth_cookie, auth_library_token, tokenCut>>

Exit ==
  /\ client = "running"
  /\ client' = "exited"
  /\ UNCHANGED <<auth_cookie, auth_library_token, live, opened, cookieLost, tokenCut>>

Next ==
  \/ Expire \/ Exit
  \/ \E command \in Commands :
       BadInput(command) \/ \E served \in BOOLEAN : BreakOff(command, served)
  \/ \E command \in Commands, served \in BOOLEAN :
       \E r \in Replies(command, served) :
         \/ command = "login" /\ Login(r, served)
         \/ command = "enter_library" /\ EnterLibrary(r, served)
         \/ command = "logout" /\ Logout(r, served)
         \/ Plain(command, r, served)

Spec == Init /\ [][Next]_vars

-----------------------------------------------------------------------------
\* add_book sends the token and no cookie, so it is the token that decides
\* whose library a book goes to.  Over any logins and logouts, failed ones
\* included, it is the token of the session the cookie names, unless extract
\* took it from a reply cut between the name "token" and the value, where it
\* looks past the end; the next logout or enter_library puts that right.
TokenOfSession == auth_library_token \in {EMPTY, auth_cookie} \/ tokenCut

\* As long as the client runs, the sessions open are the one whose cookie it
\* has: a login needs a logout first, and a refused logout keeps the cookie.
\* Only a login whose reply was cut opens one more.  A client that exits,
\* loses its connection or crashes leaves its session to the service.
OpenIsRemembered == client = "running" => live \subseteq {auth_cookie} \/ cookieLost

=============================================================================
