CONSTANTS
  Ann = ann
  Bob = bob
  Alice = alice
  Alice2 = alice2
  Cid = cid
  Eve = eve
  Main = main
  Solution = solution
  Invitable = {ann, cid}
  Inheriting = {cid}
  Owners = {}
  Workers = {interactive, scheduled}
  None = None
  MaxOps = 2
  MaxFaults = 1
  MaxImages = 1
  Names <- MCNames
  Matches <- MCMatches
  TargetLists <- MCTargetLists
  Users <- MCUsers
  Finds <- MCFinds
  Branches <- MCBranches
  Deferreds <- MCDeferreds
  Ops <- MCOps
SPECIFICATION Spec
SYMMETRY MCSymmetry
CHECK_DEADLOCK FALSE
INVARIANTS AccessOnlyAsConfigured
PROPERTIES WorkIsKept DeletesOnlyTargets QuietOpsComplete
