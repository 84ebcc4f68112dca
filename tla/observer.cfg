CONSTANTS
  Client = {p1, p2}
  Area = {lobby, court}
  Item = {e1, e2}
  NoInventory = NoInventory
  DefaultArea = lobby
  InventorySize = 1
  PersonalSize = 1
SPECIFICATION ObserverSpec
SYMMETRY Symmetry
INVARIANTS
  TypeOK
  UnmanagedAreEmpty
  DisabledAreEmpty
  NothingOrphaned
  CapacityHolds
  CacheIsVisible
  PictureIsTruth
  HiddenStaysHidden
