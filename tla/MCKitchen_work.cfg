SPECIFICATION Spec
CONSTANTS
  BufferSize = 2
  MayRefuse = {}
  SigintTargets <- EaterInterrupted
INVARIANTS
  DishExclusion
  TokenConservation
  VeganMealStored
  StallHasOneCause
PROPERTIES
  ImplementsDish
