CONSTANTS
  s1 = s1  s2 = s2  c1 = c1  c2 = c2  t1 = t1  a1 = a1  a2 = a2
  o1 = o1  o2 = o2  w1 = w1  w2 = w2
  Tools = {t1}
  ToolOf <- MCToolOf
  Sessions = {s1}
  Calls = {c1}
  ApprovalIds = {a1}
  OverlayIds = {o1, o2}
  Ttl = 1
  Workers = {w1, w2}
  HeaderSessions = {}
  ParticipantIds = {}
  VerdictLists <- MCOverlappingBodies
  MaxClock = 2
  MaxRuns = 1
SPECIFICATION FairSpec
INVARIANTS RunsWereAllowed AllowsTraced
PROPERTIES AllowIsAnnounced
CHECK_DEADLOCK FALSE
