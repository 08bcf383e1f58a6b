SPECIFICATION Spec
CONSTANTS
  s1 = s1
  s2 = s2
  Sessions = {s1, s2}
  OverlayIds = {o1, o2}
  shown = shown
  extra = extra
  quota = quota
  Tools <- MCTools
  Limits <- MCLimits
  Levels <- MCLevels
  Base <- MCBase
  ChangeSets <- MCChangeSets
  ApprovalSet <- MCApprovalSet
  Ttls = {0, 1}
  Unregistered = {s2}
  Workers = {w1}
  MaxClock = 2
  MaxLog <- MCMaxLog
INVARIANTS LogReplays IndexAgrees LastWordWins
PROPERTIES KeepsStack
CHECK_DEADLOCK FALSE
SYMMETRY MCSymmetry
