SPECIFICATION FairSpec
CONSTANTS
  Clients <- TwoClients
  Readings = 3
  MaxClients = 2
  PipeCapacity = 3
  UnusualReadings <- FirstIsUnusual
  DiskMayFail = TRUE
  ParentMayDie = TRUE
INVARIANTS
  FilesArePrefixes
  ReturnsAfterDrain
  LogsAgree
  PipeFraming
PROPERTIES
  DisconnectedIsRecorded
  TimeoutMeansIdle
  EverybodyEnds
