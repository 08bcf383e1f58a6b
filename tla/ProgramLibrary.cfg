SPECIFICATION Spec
CONSTANTS
  count = count
  freq = freq
  send = send
  host = host
  p1 = p1
  bal = bal
  strict = strict
  Tools <- MCTools
  Workflows <- MCWorkflows
  TopN = freq
  MaxSteps = 2
  MaxTopN = 2
  ProgramIds <- MCProgramIds
  Drafts <- MCDrafts
  Reviewers = {r1, r2}
  AcceptActions <- MCWorkflows
  Manifests <- MCManifests
  Operators = {o1}
  MaxActivations = 3
  Scenarios <- MCScenarios
CONSTRAINT OneKindAtATime
INVARIANTS DiffExplains AcceptedIsRunnable PreviewForetellsReplay NothingUnaudited RecordsTrail
CHECK_DEADLOCK FALSE
