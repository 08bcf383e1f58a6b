SPECIFICATION ExecutionsSpec
CONSTANTS
  read = read  send = send  pay = pay  user = user  web = web
  cheap = cheap  large = large  unpriced = unpriced  mail = mail
  Callers = {c1, c2}
  WorldManifests <- MCManifests
  WorkerRegistry <- MCRegistry
  ToolMap <- MCToolMap
  Requests <- MCRequests
  Pricing <- MCPricing
  ToolCosts <- MCToolCosts
  MultiplierNum = 6
  MultiplierDen = 5
  MinCap = 2
  MinContext = 4
  Budget <- MCBudget
  RoleBudgets <- MCRoleBudgets
  MaxCalls = 3
  NoSource = NoSource
  PlanRequests <- MCPlanRequests
  MaxPlans = 2
  NoWorld = NoWorld
  NoPage = NoPage
  Pages <- MCPages
  Written <- MCWritten
  Drafts <- MCDrafts
  AskedIntents = {"save_memory", "export_summary"}
  HistoryCap = 2
  MaxMessages = 3
  Fixtures <- MCFixtures
  Listing <- MCListing
  Policies = {"strict", "lax"}
  EngineVerdict <- MCEngineVerdict
  RunIds = {"r1"}
  MaxClock = 1
  MaxEdits = 1
  MaxHandlers = 2
INVARIANT DraftPreviewsRuntime
CHECK_DEADLOCK FALSE
