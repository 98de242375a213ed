CONSTANTS
  Texts = {t1, t2, s1}
  Secrets = {s1}
  NoText = NoText
  Clients = {u1}
  PausedInFile = FALSE
SPECIFICATION FairSpec
INVARIANTS TypeOK NoResurrection AtMostOneAfterPause
PROPERTIES SkippedOnlyWhenStored EventuallyStored ShutdownEnds
