SPECIFICATION Spec
CONSTANTS
  name1 = name1
  name2 = name2
  Names <- MCNames
  MaxLen = 1
  MaxOpens = 1
  Limits <- MCLimits
SYMMETRY Symm
INVARIANT NumbersFresh
INVARIANT TreeExact
INVARIANT OpenFilesKept
INVARIANT SizeMatches
PROPERTY PanicOnlyIfDamaged
CHECK_DEADLOCK FALSE
