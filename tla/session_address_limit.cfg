CONSTANTS
  Conn = {k1, k2}
  Client = {c1, c2}
  Address = {home, away, local}
  Token = {t1, t2, t3}
  User = {guest, member}
  NoConn = NoConn
  NoClient = NoClient
  NoToken = NoToken
  NoAddress = NoAddress
  Guest = guest
  Loopback = {local}
  Capacity = 2
  Headroom = 1
  MultiClientLimit = 1
SPECIFICATION Spec
SYMMETRY Symmetry
INVARIANT AddressLimit
