CONSTANTS
  Client = {mod, p1}
  Area = {lobby, court}
  Character = {phoenix, edgeworth}
  NoCharacter = NoCharacter
  DefaultArea = lobby
  Protected = {lobby, court}
  Permissions <- MCPermissions
  Moderator = mod
  Powers = {"CM", "KICK", "MUTE", "FORCE_CHARSELECT"}
  TargetsExpired = FALSE
SPECIFICATION Spec
SYMMETRY Symmetry
INVARIANTS
  TypeOK
  MembersAreCounted
  CharactersExclusive
  CurseHolds
