CONSTANTS
  Conn = {k1, k2, k3}
  Client = {c1, c2, c3}
  Address = {remote, local}
  Token = {t1, t2, t3}
  User = {guest, member}
  NoConn = NoConn
  NoClient = NoClient
  NoToken = NoToken
  NoAddress = NoAddress
  Guest = guest
  Loopback = {local}
  Capacity = 2
  Headroom = 1
  MultiClientLimit = 1
SPECIFICATION Spec
SYMMETRY Symmetry
INVARIANTS
  TypeOK
  OneDriver
  Attended
  OneTokenEach
  CountWithinCapacity
PROPERTY LifecycleSafety
