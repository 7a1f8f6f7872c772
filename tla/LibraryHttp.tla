---------------------------- MODULE LibraryHttp ----------------------------
(***************************************************************************)
(* The library client over its connections: a command sends a request, the *)
(* response is read piece by piece (HttpReceive), and what the client does *)
(* next (LibraryClient) follows from what came to stand in the buffer.     *)
(* The service acts between the request and the response, when nobody      *)
(* looks: the model shows it when the client goes on.                      *)
(***************************************************************************)
EXTENDS LibraryClient, HttpReceive

VARIABLES
  command,  \* the command under way, or "" at the prompt
  served    \* did the service do what it was asked?

libraryHttpVars == <<vars, httpVars, command, served>>

LibraryHttpInit == Init /\ HttpInit /\ command = "" /\ served = FALSE

\* The service's responses.  It sets a cookie at login; the token and errors
\* are JSON, other bodies may be missing, or a page.
Responses(c, accepted) ==
  {r \in Response :
     /\ r.ok = accepted
     /\ r.cookie = (accepted /\ c = "login")
     /\ r.body \in IF ~accepted THEN {"error", "empty", "page"}
                   ELSE CASE c = "enter_library" -> {"data"}
                          [] c \in Books -> {"data", "mention"}
                          [] OTHER -> {"data", "empty", "page"}}

Ask(c, accepted) ==
  /\ Ready(c)
  /\ accepted => MayAccept(c)
  /\ \E r \in Responses(c, accepted) : Respond(r)
  /\ command' = c
  /\ served' = accepted
  /\ UNCHANGED vars

\* The response as parse_response, strstr and extract find it in the buffer.
BodyOf(data) ==
  LET end == buffer_find(data, HEADER_TERMINATOR)
      body == SubSeq(data, end + Len(HEADER_TERMINATOR) + 1, Len(data))
  IN  IF end < 0 \/ body = <<>> \/ body[1] # "{" \/ body[Len(body)] # "}" THEN "none"
      ELSE IF buffer_find(body, <<"error">>) >= 0 THEN "error" ELSE "data"
\* extract finds a name and reads on: over the ":" of a token, to the end of
\* its value.
ValueOf(c, data) ==
  LET name == buffer_find(data, <<IF c = "login" THEN "cookie" ELSE "token">>)
      after == Len(data) - (name + 1)
  IN  IF name < 0 THEN "none"
      ELSE IF c = "login" \/ after >= 2 THEN "whole"
      ELSE IF after = 0 THEN "cut" ELSE "none"
ReplyAnyStatus(c, data) ==  \* mutant: does not look for 200 OK
  [ok |-> data # <<>>,
   header |-> buffer_find(data, HEADER_TERMINATOR) >= 0,
   body |-> BodyOf(data),
   value |-> ValueOf(c, data)]
ReplyIn(c, data) ==
  [ok |-> buffer_find(data, <<"200">>) >= 0,
   header |-> buffer_find(data, HEADER_TERMINATOR) >= 0,
   body |-> BodyOf(data),
   value |-> ValueOf(c, data)]

GoOn ==
  LET r == ReplyIn(command, buffer)
  IN  /\ stage = "returned"
      /\ \/ command = "login" /\ Login(r, served)
         \/ command = "enter_library" /\ EnterLibrary(r, served)
         \/ command = "logout" /\ Logout(r, served)
         \/ Plain(command, r, served)
      /\ Reset
      /\ command' = ""
      /\ served' = FALSE

\* The connection is not made, or breaks at any time before it is read out.
Break ==
  /\ \/ stage = "idle" /\ \E c \in Commands : BreakOff(c, FALSE)
     \/ stage \in {"header", "body"} /\ BreakOff(command, served)
  /\ Reset
  /\ command' = ""
  /\ served' = FALSE

AtPrompt ==
  /\ stage = "idle"
  /\ Expire \/ Exit \/ \E c \in Commands : BadInput(c)
  /\ UNCHANGED <<httpVars, command, served>>

LibraryHttpNext ==
  \/ AtPrompt
  \/ \E c \in Commands, accepted \in BOOLEAN : Ask(c, accepted)
  \/ (Receive \/ Close) /\ UNCHANGED <<vars, command, served>>
  \/ GoOn
  \/ Break

\* The client reads what is there; nothing is asked of the service.
LibraryHttpFairness ==
  /\ WF_libraryHttpVars(Receive /\ UNCHANGED <<vars, command, served>>)
  /\ WF_libraryHttpVars(GoOn)

LibraryHttpSpec ==
  LibraryHttpInit /\ [][LibraryHttpNext]_libraryHttpVars /\ LibraryHttpFairness

-----------------------------------------------------------------------------
\* What is printed is true, of the service and of what the client remembers,
\* if the response was not cut, its length is clear and it has a JSON body.
TellsTheTruth ==
  LET told == Says(command, ReplyIn(command, buffer))
  IN  stage = "returned" /\ stage' = "idle"
      /\ sent = Len(text) /\ LengthIsClear /\ BodyOf(text) # "none" =>
        /\ told = "success" <=> served
        /\ command = "login" => (told = "success" <=> auth_cookie' # EMPTY)
        /\ command = "logout" /\ told = "success" => auth_cookie' = EMPTY
ToldTheTruth == [][TellsTheTruth]_libraryHttpVars

\* Every response, read in whatever pieces, is one the client's specification
\* allows for: seen without the connection this is LibraryClient.
ImplementsLibraryClient == Spec

=============================================================================
