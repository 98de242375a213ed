CONSTANTS
  Texts = {t1, t2}
  Secrets = {}
  NoText = NoText
  Clients = {u1}
  PausedInFile = FALSE
SPECIFICATION FairSpec
PROPERTY CopiedIsStored
