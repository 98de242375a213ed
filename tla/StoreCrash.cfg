CONSTANTS
  Contents = {c1, c2}
  Ids = {i1, i2}
  Apps = {}
  NoApp = NoApp
  NoClip = NoClip
  NoId = NoId
  Tokens <- MCTokens
  BodyTokens <- MCBodyTokens
  PreviewTokens <- MCPreviewTokens
  AppTokens <- MCAppTokens
  MaxRowid = 2
SPECIFICATION Spec
PROPERTY CapturedIsFound
