SPECIFICATION WorldSpec
CONSTANTS
  count = count
  freq = freq
  send = send
  bal = bal
  strict = strict
  Manifests <- MCManifests
  Operators = {o1}
  MaxActivations = 4
PROPERTY RollbackRestores
CHECK_DEADLOCK FALSE
