\* Every operation with its optional parts, all file types, listings of four
\* entries in buffers that hold one to four of them.
CONSTANTS
  NUL = NUL
  Garbage = Garbage
  Now = Now
  NoConfig = NoConfig
  NanosPerSec = 1000
  Second = 1000
  MAX_WRITE_SIZE = 16777216
  PageSize = 4096
  Tens <- MCTens
  KernelCaps <- MCKernelCaps
  KernelReadaheads <- MCReadaheads
  InitSizes = {0, 1, 131072, 16777216, 16777217}
  InitCounts = {0, 1, 7, 65535}
  InitTimes = {0, 10, 99, 1001}
  InitCaps <- MCInitCaps
  Opcodes <- MCOpcodes
  Versions <- MCVersions
  ValidSets <- MCValidSets
  FileTimes <- MCFileTimes
  AnswerTimes <- MCAnswerTimes
  Durations = {1, 2003}
  Kinds = {"NamedPipe", "CharDevice", "BlockDevice", "Directory", "RegularFile", "Symlink", "Socket"}
  Directory <- MCDirectory
  ListSizes <- MCListSizes
SPECIFICATION Spec
 
INVARIANT AnswersAsGiven
INVARIANT ListingExact
INVARIANT NegotiatedFits
CHECK_DEADLOCK FALSE
