CONSTANTS
  send = send  scan = scan  mail = mail  p1 = p1  p2 = p2
  a1 = a1  a2 = a2
  Requests = {send, scan}
  Tools = {mail}
  ToolOf <- MCToolOf
  PlanOf <- MCPlanOf
  ApprovalIds = {a1, a2}
  Policies = {p1, p2}
  Rules <- MCRules
  Firewall <- MCFirewall
  Core <- MCAskAll
  HasCore = TRUE
  Faults = {}
  LoadLimit = 1
  MaxCalls = 1
SPECIFICATION Spec
INVARIANTS ProgramsAreSandboxed
