CONSTANTS
  Base = base
  BASE = BASE
  Task = task
  Sheet = sheet
  Padded = padded
  Unset = unset
  MaxEdits = 3
  Keys <- MCKeys
  Refs <- MCRefs
  Fold <- MCFold
  Uploads <- MCUploads
  Bodies <- MCBodies
  Drafts <- MCDrafts
  Entries <- MCEntries
  Safe <- MCSafe
  Parameterize <- MCParameterize
  GroupNames <- MCGroupNames
  LowerCase <- MCLowerCase
  Patterns <- MCPatterns
  Matches <- MCMatches
  MatchesGroup <- MCMatchesGroup
  Rosters <- MCRosters
  NoAccount <- MCNoAccount
SPECIFICATION Editing
CHECK_DEADLOCK FALSE
INVARIANTS CourseOK ResolvesAsWritten OneRepositoryEach
PROPERTIES EditsKeepTheRest
