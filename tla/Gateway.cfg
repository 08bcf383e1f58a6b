SPECIFICATION Spec
CONSTANTS
  read = read  write = write  drop = drop  s1 = s1  anonymous = anonymous
  main = main  side = side  safe = safe  spare = spare
  Tools <- MCTools
  Adapters = {read, write, drop}
  PolicyVerdict <- MCVerdict
  Profiles = {safe, spare}
  Sessions = {s1}
  Anonymous = anonymous
  ManifestContents <- MCContents
  Files = {main, side}
  DefaultFile = main
  RuleLists <- MCRuleLists
  MaxCount = 2
CONSTRAINT MCBound
INVARIANTS CountsExplained RulesNameProfiles DispatchedIsPermitted
PROPERTIES TaintHolds
