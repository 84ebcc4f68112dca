CONSTANTS
  Players = {p1}
  Words <- MCWords
  Files <- MCFiles
  RootLists <- MCRootLists
  Cdns = {"cdn"}
  Categories = {"cat"}
  MaxTracks = 1
  MaxLists = 2
  Viewers = {v1, v2}
  Durations = {0, 1, 3}
  Speakers = {s1}
  SpeechAreas = {"hall", "court"}
  AreaGuard = 2
  GlobalGuard = 1
  MaxFlags = 2
  Users = {u1, u2}
  Staff = {u1}
  HardLimit = 3
  AfkTime = 1
  SplashTime = 1
  MaxDeviations = 1
SPECIFICATION StageSpec
INVARIANTS StageTypeOK TimerRunsWithQueue TimerTruth MessagesAreSpaced PunishmentsHold
PROPERTIES OnlyReloadConfuses MutedTypeInVain EveryTimerFires
