---------------------------- MODULE RoutingTable ----------------------------
(***************************************************************************)
(* Longest prefix match in homework1-public: parse_router_table sorts the  *)
(* entries and get_next_hop looks one address up by binary search          *)
(* (lib/utils.cpp).  Addresses have Width bits; an entry is a network and  *)
(* the length of its mask.  One behaviour is one lookup, one step one turn *)
(* of the search loop.                                                     *)
(***************************************************************************)
EXTENDS Integers, Sequences, FiniteSets, SequencesExt

CONSTANTS
  Width,       \* bits of an address (32 in the program)
  MaxEntries,  \* bound: entries of a routing table
  NoEntry      \* the initial entry, with interface -1

ASSUME RoutingTableAssumption == Width \in Nat \ {0} /\ MaxEntries \in Nat

VARIABLES
  routing_table,  \* the sorted entries; the code counts from 0
  ip_addr,        \* the address looked up
  left, right,    \* what is left to search
  entry           \* the last match

vars == <<routing_table, ip_addr, left, right, entry>>

Addresses == 0..(2^Width - 1)
\* a & mask, for a mask of len leading ones.
Masked(a, len) == a - (a % 2^(Width - len))
\* prefix & mask of an entry, and its mask.
Entries == {e \in [net : Addresses, len : 0..Width] : Masked(e.net, e.len) = e.net}

\* The order of the sort: by network, shorter masks first.  Its comparison
\* also answers true for equal entries, so duplicates end up in any order.
LongerFirst(a, b) ==  \* mutant: the comparison the other way round
  a.net < b.net \/ (a.net = b.net /\ a.len >= b.len)
Before(a, b) == a.net < b.net \/ (a.net = b.net /\ a.len <= b.len)

Tables ==
  {s \in UNION {[1..n -> Entries] : n \in 0..MaxEntries} :
     \A i \in 1..(Len(s) - 1) : Before(s[i], s[i + 1])}

Matches(e, ip) == Masked(ip, e.len) = e.net

TypeOK ==
  /\ routing_table \in Seq(Entries)
  /\ ip_addr \in Addresses
  /\ left \in 0..Len(routing_table)
  /\ right \in -1..(Len(routing_table) - 1)
  /\ entry \in ToSet(routing_table) \cup {NoEntry}

InitOnePastEnd ==  \* mutant: the length instead of the last index
  /\ routing_table \in Tables
  /\ ip_addr \in Addresses
  /\ left = 0
  /\ right = Len(routing_table)
  /\ entry = NoEntry
Init ==
  /\ routing_table \in Tables
  /\ ip_addr \in Addresses
  /\ left = 0
  /\ right = Len(routing_table) - 1
  /\ entry = NoEntry

mid == (left + right) \div 2
Middle == routing_table[mid + 1]
Searching == left <= right

\* A match: there may be a longer one further right.
StopAtMatch ==  \* mutant: the first match ends the search
  /\ Searching
  /\ Matches(Middle, ip_addr)
  /\ entry' = Middle
  /\ left' = right + 1
  /\ UNCHANGED <<routing_table, ip_addr, right>>
Match ==
  /\ Searching
  /\ Matches(Middle, ip_addr)
  /\ entry' = Middle
  /\ left' = mid + 1
  /\ UNCHANGED <<routing_table, ip_addr, right>>

GoRight ==
  /\ Searching
  /\ Masked(ip_addr, Middle.len) > Middle.net
  /\ left' = mid + 1
  /\ UNCHANGED <<routing_table, ip_addr, right, entry>>

GoLeftNotFar ==  \* mutant: keeps the middle
  /\ Searching
  /\ Masked(ip_addr, Middle.len) < Middle.net
  /\ right' = mid
  /\ UNCHANGED <<routing_table, ip_addr, left, entry>>
GoLeft ==
  /\ Searching
  /\ Masked(ip_addr, Middle.len) < Middle.net
  /\ right' = mid - 1
  /\ UNCHANGED <<routing_table, ip_addr, left, entry>>

Next == Match \/ GoRight \/ GoLeft
Spec == Init /\ [][Next]_vars /\ WF_vars(Next)

-----------------------------------------------------------------------------
\* The reference: the matching entries with the longest mask.
Best == {e \in ToSet(routing_table) :
           /\ Matches(e, ip_addr)
           /\ \A f \in ToSet(routing_table) : Matches(f, ip_addr) => f.len <= e.len}

\* A lookup that is over has found the longest match, unless the table holds
\* a smaller network inside that one and entirely below the address: then
\* the search, which only sees a smaller network that does not match, may
\* turn right of the match and pass it by.
Below(e, f) == Matches(f, e.net) /\ e.len > f.len /\ ~Matches(e, ip_addr)
                                 /\ e.net < ip_addr
LongestUnlessHidden ==
  ~Searching =>
    IF Best = {} THEN entry = NoEntry
    ELSE \/ entry \in Best
         \/ \E b \in Best, e \in ToSet(routing_table) : Below(e, b)

\* Within one lookup every later match is at least as long as the one before
\* it: that is what the order of the table is for.
LaterIsLonger ==
  [][entry # NoEntry /\ entry' # entry => entry'.len > entry.len]_vars

\* "in an efficient way (less than O(n))" (README:28): every turn at least
\* halves what is left, so the search ends.
Halves == [][2 * (right' - left' + 1) <= right - left + 1]_vars

-----------------------------------------------------------------------------
\* "I can use binary search to find the longest prefix match" (README:50).
LongestPrefixMatch == ~Searching => entry \in Best \/ Best = {}

=============================================================================
