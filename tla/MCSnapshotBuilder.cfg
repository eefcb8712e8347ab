SPECIFICATION BuilderSpec
CONSTANTS
  c1 = c1
  c2 = c2
  c3 = c3
  Paths = {1, 2}
  Contents = {c1, c2, c3}
  Size <- MCSize
  Asked = {1}
  Start = {c1, c3, Missing}
  Missing = Missing
  MaxEdits = 2
  MaxTicks = 1
PROPERTIES DiffsConnectSnapshots SnapshotsAreFresh SourcesMatchTheirHash SnapshotsCatchUp
