CONSTANTS
  Procs = {p1, p2}
  Keys = {k1, k2}
  Rules = {s, u}
  Seeds = {s}
  Edits = {e}
SPECIFICATION Spec
INVARIANTS OneKey FailsOnlyIfUpset RulesAreTheUsers
PROPERTIES EditsLostOnlyToRacers StartSucceeds
