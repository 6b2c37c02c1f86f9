SPECIFICATION Spec
CONSTANTS
  Inodes = {3, 4, 5}
  NameSeq <- MCNames
  MaxLinks = 2
  MaxDumps = 2
  MaxHidden = 1
  LinkedReuse = FALSE
  HashSize = 4
  MaxCrashes = 1
  BreakInLinks = FALSE
INVARIANTS Restored TableMatches NoTrouble NothingLost
