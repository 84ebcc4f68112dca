CONSTANTS
  Client = {mod, p1, p2}
  Area = {lobby, court}
  Character = {}
  NoCharacter = NoCharacter
  DefaultArea = lobby
  Protected = {}
  Permissions <- MCPermissions
  Moderator = mod
  Powers = {"CM", "UNCM", "KICK"}
  TargetsExpired = FALSE
SPECIFICATION Spec
SYMMETRY Symmetry
INVARIANTS
  RightsAreLive
  OwnersInvited
PROPERTY LastOwnerUnlocks
