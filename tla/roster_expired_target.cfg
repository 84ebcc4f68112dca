CONSTANTS
  Client = {mod, p1}
  Area = {lobby, court}
  Character = {phoenix}
  NoCharacter = NoCharacter
  DefaultArea = lobby
  Protected = {lobby, court}
  Permissions <- MCPermissions
  Moderator = mod
  Powers = {"CM"}
  TargetsExpired = TRUE
SPECIFICATION Spec
INVARIANT CountIsOccupants
