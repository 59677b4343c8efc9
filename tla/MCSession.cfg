SPECIFICATION Spec
CONSTANTS
  root = root
  alice = alice
  bob = bob
  NoRequest = NoRequest
  Uniques = {1, 2}
  Users <- MCUsers
  Operations <- MCOperations
  Mounts <- MCMounts
INVARIANT RepliesMatch
PROPERTY Lifecycle
PROPERTY RequestsEnd
CHECK_DEADLOCK FALSE
