CONSTANTS
  Conn = {k1, k2}
  Client = {c1, c2}
  Address = {remote}
  Token = {t1, t2, t3}
  User = {guest}
  NoConn = NoConn
  NoClient = NoClient
  NoToken = NoToken
  NoAddress = NoAddress
  Guest = guest
  Loopback = {}
  Capacity = 1
  Headroom = 1
  MultiClientLimit = 1
SPECIFICATION FairSpec
PROPERTIES
  LifecycleLiveness
  HandshakeEnds
  LostClientResolves
