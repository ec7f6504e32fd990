SPECIFICATION FairSpec
CONSTANTS
  edge = edge  server = server  a1 = a1  a2 = a2  a3 = a3
  Node = {edge, server}
  Address = {a1, a2, a3}
  Home <- Homes
  Listed = {edge}
  Keyed = {}
  Movable = {edge}
  NoPeer = NoPeer
  OnlineTtl = 1
  MaxMishaps = 2
  MaxFrames = 1
INVARIANTS TypeOK OnlineWasHeard
PROPERTIES ObservedStays MeetAgain
