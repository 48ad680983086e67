SPECIFICATION FairSpec
CONSTANTS
  Proc = {p1, p2}
  Gap = {g1, g2}
  DefaultGap = g1
  Season = {s1}
  DefaultSeason = s1
  Prompt = {i1}
  NoPrompt = NoPrompt
  NoSnapshot = NoSnapshot
  Field = {"pollingEnabled", "applyInProgress", "pollingInterval", "recoveryPrompt"}
CONSTRAINT DefaultSnapshot
INVARIANTS TypeOK LockExact
PROPERTIES NoLostUpdate FlagFrozen LockReleased
