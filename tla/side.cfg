CONSTANTS
  MaxStatements = 2
  MaxLength = 4
  Clients = {c1, c2}
  Accounts = {u1, u2}
  Guest = guest
  Nobody = nobody
  BanDurations <- MCBanDurations
  PermanentBan = 3
  MaxBans = 2
  MaxClock = 2
  Captions = {"modify_users"}
  Commands <- MCCommands
  Words = {"setperms", "removeperms", "reload", "again", "rank"}
  RoleNames = {"mod", "MOD", "SUPER", "NONE"}
  Upper <- MCUpper
  NoRole = norole
  RoleFiles <- MCRoleFiles
  ExtensionFiles <- MCExtensionFiles
  SuperUserIds = {{}, {u1}}
  Areas = {hall, court}
  Persons = {w1}
  Backgrounds = {b1}
  Sides = {jud}
  Tracks = {anthem}
  Sounds = {wind}
  AmbienceOf <- MCAmbienceOf
  Penalties <- MCPenalties
  None = None
  NoPacket = nopacket
SPECIFICATION SideSpec
SYMMETRY MCSymmetry
INVARIANTS
  SideTypeOK
  CurrentInRange RecordsAtTheEnd
  BannedStayOut RoleAsRecorded
  ScreensShowTheArea
PROPERTIES OnlyInsertionDisplacesTitle RightsChangeByRecord
