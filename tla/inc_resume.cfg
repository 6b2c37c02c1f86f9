SPECIFICATION Spec
CONSTANTS
  Inodes = {3, 4, 5}
  NameSeq <- MCNames
  MaxLinks = 2
  MaxDumps = 2
  MaxHidden = 0
  LinkedReuse = FALSE
  HashSize = 4
  MaxCrashes = 1
  BreakInLinks = TRUE
INVARIANT Restored
