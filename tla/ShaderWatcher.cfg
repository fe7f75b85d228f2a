CONSTANTS
  h1 = h1
  h2 = h2
  None = None
  Shader <- MCShader
  Sessions <- MCSessions
SPECIFICATION FairSpec
CHECK_DEADLOCK FALSE
INVARIANTS
  UpdatesAddUp
  NoChangeGoesUnnoticed
  MetadataNeverFlatters
PROPERTIES
  LiveShadersConverge
  PresentNeverHangs
