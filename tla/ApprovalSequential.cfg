CONSTANTS
  s1 = s1  s2 = s2  c1 = c1  c2 = c2  t1 = t1  a1 = a1  a2 = a2
  o1 = o1  o2 = o2  w1 = w1  w2 = w2
  Tools = {t1}
  ToolOf <- MCToolOf
  Sessions = {s1}
  Calls = {c1, c2}
  ApprovalIds = {a1, a2}
  OverlayIds = {o1}
  Ttl = 1
  Workers = {w1}
  HeaderSessions = {s1}
  ParticipantIds = {}
  VerdictLists <- MCBodies
  MaxClock = 2
  MaxRuns = 1
SPECIFICATION Spec
INVARIANTS OnlyCutShortDenialsPermit OneVerdictPerScope StatusTalliesVerdicts
PROPERTIES KeepsPromise TerminalIsFinal
CHECK_DEADLOCK FALSE
