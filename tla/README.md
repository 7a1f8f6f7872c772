# A verification of the PCom homeworks

The repository holds three programs of a communication-protocols course:

* **homework1** - the data plane of an IPv4 router: forwarding, ARP, ICMP, longest prefix match;
* **homework2** - a publish/subscribe system: an epoll server that takes datagrams from UDP
  publishers and passes them to TCP subscribers, storing them for those who asked for that;
* **homework3** - a command-line client of a library's REST service, over hand-made HTTP.

They share no code. homework2 has the concurrency and the protocol, so it comes first here and has
most of the proofs; homework1's data plane and homework3's session follow.

## 1. Inventory

### homework2: the publish/subscribe system

| Component | State | Operations | Interacts through |
|---|---|---|---|
| Server (`server.cpp`, `server.h`, `helper.h`) | map `subscribers`: identifier -> first descriptor, `is_connected`, `topics`, queue of notifications; the epoll set | `tcp_handler` (accept + blocking read of the identifier), `udp_handler`, `tcp_message_handler` (exit, subscribe, unsubscribe, end of file), `stdin_handler`, destructor | one TCP connection per client, one UDP socket, stdin |
| Subscriber (`tcp_client.cpp`, `helper.h`) | one socket | connect and register, typed commands, print a notification, leave | its TCP connection, stdin, stdout |
| Framing (`helper.cpp`) | none; loops over `send`/`recv` | `send_message`, `receive_message` | the byte stream |
| Connections | what TCP holds in each direction, and lines in the buffer of `std::cin` | blocking `send`, `recv`, `>>` | both event loops |
| UDP publisher (`pcom_hw2_udp_client/`) | none | sends a datagram | UDP |
| Checker (`test.py`) | - | starts, stops and restarts clients one at a time | both programs' stdio |

What is hard about it: the server is one thread, but half of a registration happens inside a
blocking read; the kernel's descriptor numbers are reused; a client leaves in two separate events
(its "exit" message and the end of its stream); clients die without a word; a `send` can end the
server in the middle of a loop; and the descriptor stored as part of the map's *key* is never
refreshed. And every `send` blocks when the other side does not read: the server on a subscriber
that is busy with its keyboard, a subscriber on the server, or the two on each other.

What makes it correct: a subscriber gets exactly what was published on its topics while it was
connected, and what was stored while it was away, once and in order, and nothing else; an
identifier has one session at a time and can log in again after leaving; registration and commands
are never confused; everybody who connects is answered; when the server goes, the clients go.

### homework1: the router

| Component | State | Operations | Interacts through |
|---|---|---|---|
| Forwarding path (`router.cpp`, `lib/handlers.cpp`) | `arp_table`, `packet_queue` | `ip_handler`, `arp_handler` (request, reply), `arp_request`, `icmp_handler` | frames on the links |
| Routing table (`lib/utils.cpp`) | `routing_table`, sorted once | `parse_router_table`, `get_next_hop` | called by `ip_handler` |
| Link layer, checksum (`lib/lib.c`) | raw sockets | send, receive, `checksum` | the kernel |

What is hard about it: a packet in the queue is handled *again from the first check* on every ARP
reply, and pushed again when its hop is still unknown; learning an address from a request does not
look at the queue; requests are never repeated; the binary search keeps its last match and relies
on the order of nested and equal networks; the checksum must come out right after any number of
rewrites, and wrong after any fault.

What makes it correct: each packet meets exactly one fate, after one hop's worth of TTL (not so when it
has to wait, see section 10); packets for a hop keep their order; nothing waits for ever when the hop
answers and the answer can be read; the route is the longest match.

### homework3: the library client

| Component | State | Operations | Interacts through |
|---|---|---|---|
| Client (`client.cpp`, `requests.cpp`) | `auth_cookie`, `auth_library_token` | nine commands, one request each | HTTP to a remote server |
| HTTP receive path (`helpers.cpp`, `buffer.cpp`) | the buffer, `header_end`, `content_length` | `receive_from_server`, `buffer_find` | a TCP stream |
| JSON library (`json.hpp`) | - | vendored | called by the client |

What is hard about it: the client's idea of its session and the server's may part; a response may
be cut short, lack a length or not be JSON; an invalid identifier is noticed but used all the same.

What makes it correct: the token sent with the books is of the session the cookie names; while the
client runs it has the cookie of the session that is open; what is printed is what happened.

## 2. Plan

1. **Broker** (done): both programs of homework2 and the TCP connections between them, in one
   module because every interesting hazard is between them.
2. **Mailboxes** (done): what the service promises, with no processes, sockets or descriptors;
   **BrokerRefinement** maps Broker to it. **BrokerKeyboard** (done): commands that are read word by
   word, and what must happen in the end.
3. **BrokerProofs, MailboxesProofs** (done): types, what holds for any users, why a login is
   refused, and, for users who take turns, that the broker implements Mailboxes.
4. **Router, RouterProofs** (done): the queue of homework1 turn by turn, all its invariants proved.
   **RouterLinks** (done): the order in which the links are read, and that waiting ends.
   **RoutingTable, RoutingTableProofs** (done): the search, and what it finds.
5. **Framing, FramingProofs** (done): `send_message`/`receive_message` over a stream that splits anywhere, the
   length included; it justifies Broker's whole messages.
6. **LibraryClient, LibraryProofs** (done): the session of homework3's client against the remote
   server's.
7. **HttpReceive, LibraryHttp** (done): the receive loop of homework3, and the client on top of it,
   proved to implement LibraryClient (in LibraryProofs).
8. **IpChecksum, IpChecksumProofs** (done): the checksum on its way through routers.
9. **Fanout, Backpressure, BackpressureProofs** (done): the two event loops of homework2 over
   connections that hold only so much.
10. Every safety property the runs check is proved, and both refinements of homework2. What is left
    to the model checker is liveness.

Abstract specifications: Mailboxes and Fanout for homework2; LibraryClient for LibraryHttp; the
definition of the longest match (`Best`) for the routing table; the sequence of messages sent for
Framing.

## 3. Broker

### State and actions

A member of `Clients` is one *run* of the subscriber program; `IdOf` gives the identifier on its
command line, so that a restart is another member with the same identifier.

| TLA+ | code |
|---|---|
| `known`, `socketfd`, `is_connected`, `topics`, `notifications` | the map `subscribers`: `socketfd` is in the key, written when the entry is made and never after |
| `accepting` | the client whose identifier `tcp_handler`'s `receive_message` is blocked on |
| `backlog`, `fdOf`, `up`, `down` | the kernel: pending connections, the server's descriptor of each, messages in flight each way |
| `proc`, `typed` | the client processes |
| `server` | running, ended by `exit`, or dead through `DIE`/SIGPIPE |
| `printed`, `datagrams` | history: what each run printed, and to whom each datagram was addressed |

| action | code |
|---|---|
| `Accept` | `tcp_handler` up to the blocking read (`accept` may fail: its length argument is uninitialised) |
| `RegisterClient` | the rest of it: `Reject`, `Wake`, or `AddSubscriber`; an end of file registers the empty identifier, because the result of the read is ignored |
| `Publish` | `udp_handler`, with the case that a `send` ends the server after serving some |
| `HandleMessage` | `tcp_message_handler` on exit, subscribe, unsubscribe |
| `CloseConnection` | `tcp_message_handler` on an end of file: only the descriptor is closed |
| `ServerExit` | `exit` typed at the server |
| `Launch`, `SendRegister`, `Subscribe`, `Unsubscribe`, `Exit`, `ReceiveNotification`, `ServerClosed` | the client program |
| `Crash` | the process is killed |
| `BeginCommand` (BrokerKeyboard) | epoll reports the keyboard, and `std::cin >>` (`tcp_client.cpp:70`, `:84`, `:91`) waits for the rest of a command |

A command typed at once is one step of Broker (`TypeCommand`). Typed in parts it blocks the client
before and between its words, and until the last of them the client reads nothing from the server:
BrokerKeyboard extends Broker with the set `typing` of clients that are there. `Reading`, what a
client does with its socket, is not possible meanwhile; `Driven`, what its user does, ends it. The
command takes effect in one step when it is complete, because nothing is sent before. A step of
BrokerKeyboard is a step of Broker or changes `typing` only.

`Accept` and `RegisterClient` are two actions because clients move while the server blocks; every
other handler runs to its end between two returns of `epoll_wait` and is one action. Descriptors
are numbers from `FirstFd` on, and `accept` returns the lowest free one, as POSIX says: this is
what makes the stale descriptor right in some histories and wrong in others.

A `send` to a stored number goes to whichever connection now has it (`Holders`). If none has it,
`send` fails and `DIE` ends the server (`MustDie`); if the process behind it is gone, the write may
be lost or end the server (`MayDie`).

### Assumptions about the environment

`MayCrash` says whether client processes may be killed. `Orderly` says whether users take turns,
as the repository's own checker does (`test.py` starts a client and waits until the server has
reported it; stops one and waits; and restarts the one that is away before any other leaves or
joins), and type whole lines, as the checker writes them. Properties that need neither are checked with `Orderly = FALSE` and `MayCrash = TRUE`.

### What is abstracted

Messages are whole (Framing says when they are), buffers unbounded and a fan-out one step
(Backpressure shows what becomes of both when connections are full). A
notification is its datagram's number; topics and identifiers are model values; a payload's
formatting is left out. A lost datagram is one that never arrives. An end of file and a reset
connection are read the same way here: a failed `recv` in the loop over the length leaves that loop
(`-1` compared with a `size_t` is large) and the next one gives 0. Inside a message the two differ,
and Framing has both.
The listen backlog (5) is larger than the number of clients. The destructor runs twice, when
every descriptor is already closed, so no client can tell.

### Runs

| run | environment | shows |
|---|---|---|
| `BrokerAnyUsers` | any users, crashes | types; queues only for absent subscribers; identifiers and commands never confused; the nameless entry harmless; one live session per identifier; a login refused only for another open connection, or after a kill |
| `BrokerMailboxes` | users who take turns, fair | stored descriptors are right after every return; nothing misdelivered, doubled or reordered; queues are emptied whole into their owner's connection, and printed by the run that comes back; Broker implements Mailboxes |
| `BrokerLiveness` | any users, crashes, fair | everyone who connects is answered; when the server has ended so do all clients whose users have not left a command half typed |
| `BrokerMisdelivery` | any users, no crash | **violated**: see findings |

`BrokerAnyUsers` runs BrokerKilled: Broker with the history `killed`, the runs that ended without an
"exit" while the server still had them. The server never learns of it, which is why
`RejectedOnlyIfConnected` has to except them.

Bounds: two identifiers, one of them with two runs (a restart needs two; a swap of descriptors or a
second login needs another connection); one topic (topics never interact: each datagram has one);
one command per run besides exit, two datagrams where order is the question. The runs of one
identifier are interchangeable, hence the symmetry set in the safety runs; the runs with liveness
have none. `BrokerLiveness` has one run for each of two identifiers. `CHECK_DEADLOCK FALSE` because the system really
stops: every run of the client ends and there are finitely many.

Fairness (`BrokerKeyboard!Fairness`): the server goes back to `epoll_wait` and reacts to something that is
readable, and so does a client that is not at its keyboard; a client that has connected goes on to
send its identifier. That is one weakly fair action,
`Reaction`: whichever handlers are enabled, some of them runs. It says nothing of the order, and the
properties hold all the same, because every reaction uses something up. Level-triggered epoll
reports a readable descriptor until it is read, so this much the code gives. Nothing is assumed of
users, publishers or crashes: the rest of a command need never come. So `AllClientsLeave` excepts a
client in the middle of one: it blocks at its keyboard and does not notice that the server is gone.
`EveryoneAnswered` needs no exception, because a client has sent its identifier before it looks at the
keyboard; `StoredIsPrinted` is checked for users who type whole lines.

### Implementation of Mailboxes

`BrokerRefinement` maps an identifier's mailbox to the queue the server keeps while it is away, and
to the messages on their way to its process otherwise; its state to *unknown*, *present*, *leaving*
(the client has gone, the server has not noticed) or *away*. Under `Orderly` without crashes every
step of the programs is a step of Mailboxes or a stutter (`ImplementsMailboxes`). Without `Orderly`
it is false: `BrokerMisdelivery` shows why.

### Proofs

For every finite set of clients and identifiers, any topics and bounds, any users, with or without
crashes (`BrokerAssumption`):

* `BrokerProofs!TypeCorrect`: `Spec => []TypeOK`.
* `StoredOnlyWhenAway` and `NamelessIsHarmless` are proved together from `Storing`, their
  conjunction: it is inductive with `TypeOK`, since the nameless entry is never disconnected
  (no message carries the empty identifier) and so never gets anything stored.
* `QueuesInOrder`: `StoredInOrder` is inductive with `TypeOK`; the history `datagrams` only grows at
  its end (`DatagramsGrow`) and a queue only by the newest number (`PublishInOrder`).
* `OneSessionPerIdentifier` and `IdentifiersReadFirst` need the strengthening
  `SessionInv`. Neither is inductive alone: a session goes on after the process has exited, while
  its "exit" is in flight, and the check against a second login reads `is_connected`, which says
  nothing of connections. `ClientInv` ties the three together: where in the life of a connection its
  identifier and its exit message can be, and that a client with a `Session` (its process runs, or
  its exit is still to be handled) has a connected entry. `SessionStep` has one lemma per handler.
* `RefusedOnlyIfConnected`, of BrokerKilled: `HeldInv` says that whoever is connected in the map is held by
  a client that has a `Session` or was killed, and that a client that is gone before the server has
  looked at it was killed or has its "exit" on the way. A refused login is then held by another client.
* `MailboxesProofs!MailInOrder`: the abstract service delivers in order and at most once.

For the same constants and `Orderly` users without crashes, which is all these theorems assume besides
(`BrokerIsMailboxes` also that there is a topic):

* `StoredNumberIsRight`: the stored descriptor is right although nothing refreshes it. This comes from
  outside the server: the kernel gives out the lowest free number (`FdInv`: below the number just
  accepted all are taken), the stored numbers are those from `FirstFd` on without a gap (`Numbered`), and at
  most one identifier is away. So a subscriber who comes back finds just its old number free
  (`SameNumberAgain`), and a newcomer gets the next one (`NextNumber`). `OrderInv` adds what taking turns means
  for the programs, who only see messages and connections: while one leaves nobody arrives (`LeavesAlone`),
  and whoever arrives does so alone (`ArrivesAlone`).
* `PrintsItsOwn`, `PrintedOnce`, `StoredReach` are about the *story* of a run: what it printed and then
  what is on its way to it. `StoryInv` says that it increases, was addressed to the run's identifier, is
  older than what is stored for that, and shares nothing with the story of another run. A datagram
  appends to the stories of just those it is sent to (`ForwardedIs`, `StoryGrows`), and a return begins a
  story with the queue (`WakeSends`).
* `BrokerIsMailboxes`: with these invariants every step is a step of Mailboxes or a stutter.
  `MapFacts` says the mapping case by case; `MoveSeen`, `ReadSeen`, `SubscribeSeen`, `StopSeen` and `ServedSeen`
  give the service's steps in terms of it, and there is one lemma per handler. Two of them are not
  obvious: a registration never ends the server (`WakeLives`), and whoever's "subscribe" is handled is
  still present (`HandleSeen`), because of `LeavesAlone`.

`KeyboardsOnlyDelay` says that BrokerKeyboard implements Broker, so all this holds with half-typed
commands too.

TLC checked `FdInv`, `OrderInv`, `StoryInv` on the instance of `BrokerMailboxes` before they were proved.

Only model-checked: `StoredIsPrinted`, `EveryoneAnswered` and `AllClientsLeave`, which are liveness and
out of the prover's reach.

## 4. Router

`packet_queue`, `arp_table` are the program's. `sent` and `arrived`, `replies` and `introduced` are
history; `asking` and `unanswered` are the network: requests that may still be answered, and hops
some request to which was lost. `ip_handler` is a function of a packet and the cache (`Fate`,
`Decremented`, `Waits`). `HandleIp` is its effect on a queue: the packet leaves, or it is pushed and its
next hop asked for.

| action | code |
|---|---|
| `ReceiveIp` | `ip_handler` on a frame that was read |
| `ReceiveArpRequest` | `arp_handler`: learns and answers, and does not look at the queue |
| `ReceiveArpReply` | `arp_handler`: learns, and counts the turns its loop is to make (`turns`, the code's `size - i`) |
| `HandleNext` | one turn of the loop: the packet in front is handled again; it may be pushed anew and asked for again |
| `Lose` | the network |

Nothing is read while the loop runs (`turns > 0`), so a turn is a step of its own only to state, and
prove, what holds in the middle of a round.

MAC addresses, the bytes of ICMP messages (the original packet is not quoted, the TTL is reset to
64) and the interface numbers are left out. Hosts send no ARP replies nobody asked for.

RouterLinks adds the order of the links. `recv_from_any_link` looks at the links from 0 on and reads
one frame of the first that has any (`lib/lib.c:81-104`), so frames that never cease on low links keep
the higher ones from being read. `reach` is the highest link that is still read; `Flood` lowers it, at
any time and for good, and `Heard` is whether a hop's link is read.

Run `Router`: three packets, two next hops on links of their own, a destination without a route, our own
address, TTLs 0, 2 and 4: 2 leaves with 1 if the address is known and is *refused* after one wait, 4
survives one. The ARP traffic nobody asked for is requests of the hops' own.

* `TtlNeverWraps`: a packet is decremented anew every time it is handled, in a `uint8_t`. It is never
  decremented at zero, and one that saw no ARP reply since it came pays one hop exactly. What a packet
  that waits *should* pay is not in question: it is one hop, and the code takes more. The checker's
  `ttl` test (`checker/tests.py:315`) demands 63 of a packet that came with 64: after other tests have
  filled the cache it gets that; alone, on a cold cache (`tests.py:275-276`), the packet waits, and is
  sent with 62.
* `WaitingIsAsked`: whenever a packet waits, a request for its hop is on its way, or one was lost. It
  does not say how many: the code sends one for every packet that waits, and the checker allows one
  (`tests.py:369`).
* `NoOvertaking` holds but for hops learned from a request of their own while packets waited for them:
  then newer packets pass the older, which wait for a reply.
* `WaitingEnds`: the waiting ends if requests are answered and the answer's link is read.

Fairness (`RouterLinks!Fairness`): a request that is not lost is answered, the answer is read while its
link is (`ReadReply`), and the loop over the queue goes on. Between two frames of a link that is read
the lower ones are silent now and then, which is what `reach` says. The deadlock check is on: ARP
requests of hosts are always possible. There are 560,040 states.

Proved in RouterProofs, for any destinations, routes, TTLs of a byte and any number of packets
(`RouterAssumption`):

* `TypeCorrect`.
* `PacketsOnce`. `EachPacketOnce` is not inductive: that a packet pushed anew is still the one that
  arrived needs `QueueKnown`, and its place in the round needs `QueueRotates`: the packets pushed anew by the loop,
  then those whose turn is still to come, are in the order in which they arrived.
  `PacketInv` is the conjunction.
* `OrderKept`, from `PacketInv` and `PushedUnknown` (what this loop pushed has a next hop that is
  unknown still): when a packet leaves, an older one of its hop has left, or its hop introduced itself.
* `TtlKept`: what a packet has paid is known exactly, one hop when it was pushed and one at each reply since
  (`WaitingPays`, `LeavingPays`); the turn of a packet moves it from one side of `turns` to the other just
  when it pays. Both bounds of `TtlNeverWraps` follow (`PaidIsYounger`).
* `WaitingAsked`: `WakeStep`, with `PacketInv` for the packets the loop has still to come to.
* `LinksOnlyDelay`: RouterLinks implements Router, so all this holds whatever order the links are read in.

`WaitingEnds` is liveness and stays with TLC.

## 5. RoutingTable

A behaviour is one `get_next_hop`, a step one turn of its loop, over every table the sort can leave
(`Tables`). Run `RoutingTable` takes all sorted tables of up to four entries on 3-bit addresses and
every address. `LongestUnlessHidden` compares the result with the definition of a longest match
(`Best`) and says when the search may miss it: only if the table has a network inside the longest
match, not containing the address and below it. Then the search may compare with that one, turn
right and pass the outer entry by. The two shipped tables nest networks so that this does not
happen to the addresses sampled; nothing in the code ensures it. `LaterIsLonger` is what the order
of the sort is for, `Halves` that the search takes logarithmically many turns. That is the search alone:
`get_next_hop` is given the table by value (`lib/utils.cpp:77`), so every lookup copies all of it first.
The comparison of the sort also answers true for equal entries, which `std::sort` does not allow;
the model takes any order of duplicates, and nothing beyond that.
`CHECK_DEADLOCK FALSE` because a lookup ends.

Proved in RoutingTableProofs, for addresses of any width and tables of any length:

* `TypeCorrect` (`left` and `right` never leave the table and `entry` is one of its entries) and
  `SearchHalves`. Both rest on `MiddleInside`: while the loop runs, `mid` lies between `left` and `right`.
* `FindsLongest`, the whole of `LongestUnlessHidden`, and `MatchesGrow`. The invariant is `SearchInv`: the
  last match is behind `left` (`MatchBehind`), and a longest match that nothing hides is between `left`
  and `right` unless one was found (`NotLost`). A turn keeps it because an entry that sends the search
  left is never before a match (`NeverTooFarLeft`), and one that sends it right from behind a match
  hides it (`OnlyBelowHides`). Both rest on what masks do to the order of addresses (`LongerMask`,
  `LargerNetwork`), and this on powers of two, which come from the number of subsets of a set
  (`PowerDoubles`): the provers know nothing of `^`. The order of neighbours gives that of the
  table (`Sorted`) by a least counterexample, in place of an induction.

## 6. Framing

One direction of one connection: the sender is in `send_message` or between two calls, the receiver
calls `receive_message` again and again, as both programs do. Every `send` and `recv` is an action
(`Write`, `ReadLength`, `ReadBody`, `ReadEnd`) that takes any number of bytes from one to what the
loop still asks for. A byte is named by its message and its place, so that a byte out of place shows.

The loops over the length write and read at `&size + bytes`: a step of whole ints, so after a short
one the rest of the length goes elsewhere (`helper.cpp:8`, `:29`). The model says so: what
`send_message` resumes with is not the length (`Chunk`), and a length read in pieces is
indeterminate (`Lengths`). A length that is not positive makes `receive_message` return 0, which its
callers take for the end. The history `split` records that a length was cut.

`Stop` ends the sender, inside a message too, in order (`closed`) or by a reset that may overtake
bytes in flight. An end of file is a 0 anywhere; a failed read ends the receiving *process* inside
a message (`dead`) and looks like an end before it.

`WholeInOrder`, `EndIsExact` and `Delivered` hold *while no length was cut*; with a length cut in
two all three fail. `readme.txt:29-32` claims the correct message without a condition; four bytes
are rarely cut in practice, so this is recorded here and not as a finding of a run. `Delivered` also
excepts a reset.

Run `Framing`: lengths of 4 bytes, messages of 1 and 3 bytes, three of them, 6 bytes in flight. So a
frame may be larger than what fits (7) or share the stream with the next one (5), and every cut of
every frame occurs. Values of an indeterminate length stop at 3: a larger one would only read
further. Fairness: `Write` and `Step` are weakly fair, as a blocking `send` with room and a `recv`
with data return; nobody has to start a message or to stop. `CHECK_DEADLOCK FALSE` because
connections end.

Proved in FramingProofs, for any width of a length, sizes, capacity and number of messages:
`TypeCorrect`, `MessagesWhole` and `EndExact`. The invariant, `StreamInv` while no length is cut, says
that the stream is exactly what lies between the reader's place and the writer's. Said with
sums of lengths this would take an induction over the messages, so it is said of pairs: `Leads` places
each byte of the stream against each earlier one as far as the two frames tell, and against the
reader (`FromReader`), and `ReachesWriter` places the writer against each byte. Writing appends one run
of a frame and reading takes one away, and either shifts every pair alike. `Delivered` is liveness.

## 7. LibraryClient, HttpReceive, LibraryHttp

### The client

| TLA+ | code |
|---|---|
| `auth_cookie`, `auth_library_token` | the two strings of `main`, named by the session they were issued in; `EMPTY` is none, `GARBAGE` a token nobody issued |
| `client` | running, exited, or ended by an exception or a NULL |
| `live`, `opened` | the service: sessions it knows, and how many there were |
| `cookieLost` | history: was the reply to an accepted login lost |
| `tokenCut` | history: was the token taken from a reply that ends in its name |

| action | code |
|---|---|
| `Login`, `EnterLibrary`, `Logout` | the cases that change what is remembered, by `strstr(response, RESPONSE_OK)` and `extract` |
| `Plain` | the five other requests; `get_books` and `get_book` may end the client, nobody catches that a body is not JSON (`Fatal`) or JSON of another shape (`MayThrow`, `client.cpp:245-261`) |
| `BadInput` | `verify_json` refuses (`get_book` goes on with NULL), or `stoi`/`dump` throw something nobody catches |
| `BreakOff` | `error`: no connection, or it breaks after the service served the request |
| `Exit`, `Expire` | the `exit` command; a session ends at the service |

`Request` says what a request carries: `compute_post_request` is given the cookie and leaves it out
(`requests.cpp:74`), so `add_book` goes by the token alone. The service (`MayAccept`, `Accepted`,
`Refused`, `Serve`) is external: it accepts a login at any time, what else it accepts depends on the
cookie or token the request carries, and it may refuse anything. In LibraryClient a command is one
step with any reply the service and the network can produce.

`Extract` is a set because of one case: on a response that ends inside `token":"`, `extract` finds the
name, steps on to where the value should be and reads past what was received (`requests.cpp:141`). What
it takes there is nothing, an older token or `GARBAGE`, and it stays until the next logout or
`enter_library`.

### The response, read by read

HttpReceive is `receive_from_server` with its buffer, composed like the client's other half. A
response is a sequence of tokens: status line, cookie, length, blank line, body. `ReadHeader` is a
turn of the first loop (read, search for the blank line, search for the field), `ReadBody` of the
second, and `Read` takes any number of tokens up to `BUFLEN`. `Missing` is the condition of the second
loop: without a blank line `header_end` is -1, SIZE_MAX as a `size_t`, and only the end of the stream
ends the loop. The service may break off anywhere, and may leave the connection open.

LibraryHttp puts it under the client: `Ask` sends the request, `Receive` and `Close` move the
response, `GoOn` does what LibraryClient's command does with the reply that `ReplyIn` finds in the
buffer as `strstr`, `parse_response` and `extract` would. That it implements LibraryClient
(`ImplementsLibraryClient`) is what makes the atomic exchange there, and what is proved of it, good for
the program: its `Accepted` and `Refused` are then all the replies that reading in pieces gives.

Run `LibraryHttp`: two sessions, enough to log in again after the first is lost; responses of up to
thirteen tokens in reads of at most four, so every header is cut in every place and the body may come in the
same read as the blank line or not.

* `WholeResponse`, `Answered`: the response is read whole and in finite time, though the service
  keeps the connection open if there is a Content-Length. The exception is real: the field is looked
  for in all that has arrived, so a body that mentions it stands in for a header that does not.
* `TokenOfSession` matters because the token alone says whose library a book goes to. It excepts the
  token of a response cut in its name (`tokenCut`), which occurs in the run.
* `OpenIsRemembered` is why login asks for a logout and a refused logout keeps the cookie: while the
  client runs, the session it has the cookie of is the only one open. It says nothing of a client that
  has ended: `exit` (`client.cpp:536`), a connection that breaks and a body that cannot be parsed
  all leave the session open at the service.
* `ToldTheTruth` compares what is printed with what the service did and what the client now believes,
  for a response that arrived whole, whose length is clear and whose body is JSON. The cases left out
  are not right in the code: a refusal that is not JSON is printed as a success (`client.cpp:303`), and a
  body that mentions `Content-Length: ` may be cut off (`helpers.cpp:98`).

Fairness: `Receive` and `GoOn` are weakly fair, a `read` with data or at the end returns; the service
never has to answer or close. `CHECK_DEADLOCK FALSE` because the client exits.

Proved in LibraryProofs, for any number of sessions and reads of any size:

* Of LibraryClient: `TypeCorrect`, `TokenFollowsCookie`, `OpenKept`. The invariant is `SessionInv`: types,
  `auth_cookie <= opened`, that no cookie means no token of a cut response, `TokenOfSession` and
  `OpenIsRemembered`, inductive together: a logout removes just the session the cookie names, and a
  login finds no cookie, hence no token and nothing open. `ExchangeSessions` says once what an exchange can do to the sessions; each command's step cites it.
* `ReadsWhole`. The invariant is `HttpInv`: the buffer is the beginning of a response to the command under
  way, and `ReadSoFar` says what the two loops know of it: whether the blank line was found where it is,
  and, once the first loop is left, that all was read, or the length is the body's, or there is no length in
  the header and the body stands in for it. What `buffer_find` finds in the beginning of a
  response is worked out once (`HeaderFound`, `LengthFound`, `ValuesFound`, `BodyFound`) from the order
  of its tokens.
* `ClientImplemented`: with `HttpInv`, every step is a step of LibraryClient or a stutter
  (`ClientStep`); that the reply found in the buffer, cut anywhere, is one of `Replies` is `ReplyAllowed`.
  `ValueIs` says where such a reply may have been cut. `SessionKept` carries the invariants over, with
  their exceptions.
* `PrintedIsTrue`, from `ReadsWhole` and `WholeReplyIs`.

The bodies and headers are those of `Responses`, as in the run; `Answered` is liveness.

## 8. IpChecksum

A behaviour is one IPv4 header, ten 16-bit words, on its way through any number of routers that run
this code. `checksum` adds the carries twice and cuts the complement to 16 bits, as `lib.c:194-196`
does on an `unsigned long`. Every call has an even length, so the odd byte does not occur.

| action | code |
|---|---|
| `Spoil` | external: a link changes one word, once, to one that differs modulo 65535 (no sum can tell 0 from 65535) |
| `Drop` | `ip_handler` refuses the header |
| `Forward` | lowers the TTL, clears the field, writes the checksum anew |
| `Answer` | `icmp_handler` overwrites the header: addresses swapped, TTL 64, and a checksum over `ICMP_SIZE`, 8 of the 20 bytes |

Run `IpChecksum`: length, id, protocol and the addresses' halves from five words at the edges (0, 255,
14511, 32768, 65535), TTLs of 1 to 3, any of the ten words spoiled. 14511 makes sums that need the
second carry. `GoodHeadersPass` is the induction over hops: a checksum written by one router verifies
at the next; `SpoiledHeadersFail` says that checking before rewriting is what keeps a router from
putting a good checksum over a spoiled header. Neither is true of what `icmp_handler` writes: run
`IcmpChecksum`.

Proved in IpChecksumProofs for every word a host or link may use: `TypeCorrect`, `ForwardedPasses`,
`SpoiledNeverPasses`. The two are one argument: `ChecksumCompletes` (the sum of ten words and the
checksum is 65535 modulo 65535, carries included), `WrittenPasses` from it, and `ChangeFails` (one word changed
to one not congruent moves the sum off it).

## 9. Backpressure and Fanout

Broker gives every connection an endless buffer and makes a fan-out one step. Backpressure takes both
away, for clients that are logged in and stay, and one topic. A connection holds `Capacity`
messages each way. `Publish` is `udp_handler` up to its first `send`, each `Send` the return of one and
the way to the next; until the last has returned the server is away from its loop (`todo`, `target`). A
client is in its loop, reading the rest of a command from the keyboard (`FinishLine` is the user), or
in the `send` of it. `std::cin` takes all that was typed into its buffer (`ahead`) and hands out one
command; epoll sees only what the process has not read (`keys`).

Fanout is what a user may believe: commands carried out in order, a notification to all its
subscribers in one step, no limits. `ImplementsFanout` maps what is still to be sent to the queue of whom it
will be sent to. It holds because nobody else is served while the server is in the middle.

* `ServerReturns`: the server gets back to its loop again and again, unless from some time on the client
  it is sending to has half a line typed, or the two are in sends to each other with both buffers
  full (`Crossed`). Both happen; the property says that nothing else can hold everybody up.
* `CatchesUp`: a client that goes back to its loop has read everything once a line is typed alone.
  The condition is real: lines typed together are left in the buffer, one behind for each, until the
  user types again.

Run `Backpressure`: two clients (one to be served, one to wait), one message per direction, two
datagrams (the second finds the buffer full), three commands in all: two to cross with a full buffer, one
behind. Fairness is per handler and client: `epoll_wait` returns every readable descriptor in turn, a
`send` with room returns. Users and publishers owe nothing.

Proved in BackpressureProofs for any set of clients, any capacity and bounds: `TypeCorrect`, and
`FanoutImplemented`, that every step is a step of Fanout or a stutter. The invariant it needs
is `BackpressureInv`: types (the target is one of those still to be served), and that a client in its
loop has no command in hand.

## 10. Findings and known divergences

With a run:

* `BrokerMisdelivery` - a returning subscriber's descriptor is not refreshed (`server.h:124`), so
  a's mail is printed by b: a leaves, b joins and is given a's number, and a comes back under another.
* `RoutingTableLpm` - binary search over prefixes misses the longest match in some tables
  (`lib/utils.cpp:86`).
* `IcmpChecksum` - the IP header of an ICMP answer gets a checksum over 8 of its 20 bytes
  (`lib/handlers.cpp:51`), so whoever checks it, this router included, drops it.

Met while modelling, without a run of their own:

* homework2: a killed client's identifier stays connected for ever and is refused (`server.h:147`
  against `readme.txt:53-58`); a returning subscriber's queue is sent to its old descriptor
  (`server.h:86`); one unsubscribe after two subscriptions leaves one (`helper.h:154` against
  `readme.txt:81-85`); an end of file during registration makes an entry under the empty identifier
  (`server.h:73`); a length cut by TCP is put together wrongly (`helper.cpp:29` against
  `readme.txt:29-32`); a subscriber that does not read holds up everybody (`helper.cpp:15`); commands
  that arrive together (piped input) stay in the buffer of `std::cin` until more is typed
  (`tcp_client.cpp:70`); a client with half a command typed does not notice that the server has
  ended (`tcp_client.cpp:84`, in BrokerKeyboard); a FLOAT with an exponent above 18 overflows (`tcp_client.cpp:26`).
* homework1: a second packet for an unknown hop sends a second ARP request (`lib/handlers.cpp:114`),
  where the checker expects at most one (`checker/tests.py:369`); the TTL of a packet that waits is
  decremented once more at every ARP reply (`lib/handlers.cpp:179`), so on a cold cache, with which the
  checker runs a single test (`tests.py:275-276`), a packet is sent with 62 where `tests.py:315`
  demands 63; whatever is addressed to the router is
  answered with an echo reply (`lib/handlers.cpp:79` against `README:39`); one frame is read per
  `select`, always of the lowest interface that has one, so the others may starve (`lib/lib.c:88`, in
  RouterLinks); the routing table is copied for every lookup (`lib/utils.cpp:77`), where `README:28`
  claims less than O(n).
* homework3: a refusal that is not JSON is printed as a success (`client.cpp:303`); `get_book` crashes
  on an identifier that is not a number (`client.cpp:429` against `README:41`); a session the service
  has ended refuses both a logout and, in the client, a login, so only a restart logs in again
  (`client.cpp:323`, `:526`); a body that mentions `Content-Length: ` may be cut off
  (`helpers.cpp:98`); a response that ends inside `token":"` is read past its end and what
  lies there is kept as the token (`requests.cpp:141`, in LibraryClient); a book list of an unexpected
  shape ends the client (`client.cpp:245-261`); `exit` leaves the session open (`client.cpp:536`).

## 11. Not modelled

* `json.hpp` is vendored: 24,674 of the repository's 27,449 lines. What the client asks of it is in
  `LibraryHttp!BodyOf`. The map covers most of the code the project owns, and can cover
  no large share of all the lines.
* Raw sockets, `ioctl`s and the parsers of the routing table and of MAC addresses (`lib/lib.c`): input
  and output of the router, nothing of it has a state the router's behaviour depends on.
* The text of notifications, requests and books: no property is about it.
* The checkers and the topology script: test drivers, read for what they expect.

## 12. Mutants

Next to the operators of a module stand variants named after a plausible mistake and marked
`mutant`; no specification uses them. Each is put in the place of its original to see that the
property listed with it in `PROJECT.json` notices: a property no mistake in the code can break would
say nothing.

## 13. Running

    tlc -config BrokerAnyUsers.cfg MCBrokerKilled
    tlc -config BrokerMailboxes.cfg MCBroker      # and BrokerLiveness, BrokerMisdelivery
    tlc -config Backpressure.cfg Backpressure
    tlc -config Router.cfg MCRouter
    tlc -config RoutingTable.cfg RoutingTable     # and RoutingTableLpm
    tlc -config IpChecksum.cfg IpChecksum         # and IcmpChecksum
    tlc -config Framing.cfg Framing
    tlc -config LibraryHttp.cfg LibraryHttp
    tlapm BrokerProofs.tla                        # likewise the other *Proofs.tla

The twelve runs take about seven minutes together on two workers, the longest one under three; the
proofs of BrokerProofs take about nine from nothing, the other modules less.
Liveness is model-checked only; there is no RECURSIVE operator in the project.
