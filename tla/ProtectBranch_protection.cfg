CONSTANTS
  Main = main
  Dev = dev
  Ann = ann
  Bob = bob
  Unset = Unset
  None = None
  Base = main
  Approvers = {ann, bob}
  MemberCounts = {1, 2}
  MaxRuns = 2
  MaxFaults = 1
  MaxHand = 1
  Branches <- MCBranches
  Configs <- MCConfigs
  RuleNames <- MCRuleNames
  Leftovers <- MCLeftovers
SPECIFICATION Spec
CHECK_DEADLOCK FALSE
INVARIANTS TypeOK BranchesAsWritten NoExtraPushers OkMeansConfigured
PROPERTIES SecondRunSucceeds ForeignRulesStay
