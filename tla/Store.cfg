CONSTANTS
  Contents = {c1, c2}
  Ids = {i1, i2}
  Apps = {}
  NoApp = NoApp
  NoClip = NoClip
  NoId = NoId
  Tokens <- MCTokens
  BodyTokens <- MCBodyTokens
  PreviewTokens <- MCPreviewTokens
  AppTokens <- MCAppTokens
  MaxRowid = 3
SPECIFICATION Spec
SYMMETRY Symmetry
INVARIANTS OneRowPerContent RowOutlivesEntry SearchSoundIfKept IndexReversible SearchComplete NoResidueIfKept
PROPERTY ImplementsHistory
