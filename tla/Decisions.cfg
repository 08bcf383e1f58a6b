SPECIFICATION Spec
CONSTANTS
  plain = plain
  star = star
  bracket = bracket
  here = here
  there = there
  Actions <- MCActions
  SideEffects <- MCSideEffects
  Targets <- MCTargets
  Manifests <- MCManifests
  MaxNodes = 4
  ValueIds = {v1, v2, v3}
  ValueKinds <- MCValueKinds
  Tools = {"send_email", "write_file", "read_mail"}
  ArgNames = {"to", "body"}
  PolicyRules <- MCPolicyRules
  Grants <- MCGrants
  FileTools = {"read_file"}
  WebTools = {"fetch"}
  PlainTools = {"git_push"}
  Paths = {plain, star, bracket}
  Domains = {here, there}
  Fitting <- MCFitting
  Starting <- MCStarting
  HandWritten <- MCHandWritten
  MaxCalls = 2
  ActionTypes = {"mail", "write_memory", "purge", "note"}
  WorldActions <- MCWorldActions
  ExplicitRules <- MCExplicitRules
  Capabilities <- MCCapabilities
  TrustChannels <- MCTrustChannels
  Sources = {"user", "report", "web"}
  Forbidden = {"rm"}
  AllowedTools = {"read_file", "rm"}
  MaxFilesOpened = 2
  MaxGiven = 1
  MaxChain = 2
  NotADict = NotADict
  Unbuilt = Unbuilt
  Suites <- MCSuites
  Proposals <- MCProposals
  Readings <- MCReadings
  MaxTurns = 2
  MaxQueries = 2
INVARIANTS BudgetsMatchDecisions DecisionsHaveOrigins DenialsStick SurfaceMatchesTrace DecisionsStand InjectionsStayInside
CONSTRAINT FewOfEach
CHECK_DEADLOCK FALSE
