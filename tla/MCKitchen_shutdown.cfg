SPECIFICATION ShutdownSpec
CONSTANTS
  BufferSize = 1
  MayRefuse <- OneForkRefused
  SigintTargets <- ParentInterrupted
INVARIANTS
  NoOrphans
PROPERTIES
  ShutdownCompletes
