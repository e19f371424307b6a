SPECIFICATION FairSpec
CONSTANTS
  BufferSize = 1
  MayRefuse = {}
  SigintTargets <- NobodySignalled
PROPERTIES
  NonVeganMealTaken
