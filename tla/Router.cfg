CONSTANTS
  h1 = h1
  h2 = h2
  d1 = d1
  d2 = d2
  dx = dx
  Hops = {h1, h2}
  Dests = {d1, d2, dx}
  Me = Me
  NoRoute = NoRoute
  RouteOf <- Routes
  Ttls = {0, 2, 4}
  MaxPackets = 3
  LastLink = 1
  LinkOf <- HopLinks
SPECIFICATION LinksSpec
INVARIANTS
  EachPacketOnce
  TtlNeverWraps
  WaitingIsAsked
  NoOvertaking
PROPERTY WaitingEnds
