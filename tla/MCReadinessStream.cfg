SPECIFICATION StreamSpec
CONSTANTS
  MaxEpoch = 1
  MaxIncarnation = 2
  MaxEvents = 3
  Capacity = 2
  Handlers = {h1, h2}
  Watched = {"preview"}
  Reports <- MCReports
INVARIANTS
  PrerequisitesHold
  NothingAnnouncedIsLost
PROPERTIES
  VersionsNeverRewind
  LostReadinessChangesVersion
  StreamNeverRewinds
  AnnouncementsArrive
