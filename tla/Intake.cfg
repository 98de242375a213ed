CONSTANTS
  Texts <- MCTexts
  Caps = {1, 3}
  PreviewMax = 2
  MaxForeign = 1
SPECIFICATION Spec
INVARIANTS TypeOK CategoryAsDocumented CategorizedAgain CopyOfClipIsTheClip
