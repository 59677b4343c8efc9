SPECIFICATION FairSpec
CONSTANTS
  w1 = w1
  w2 = w2
  JoinWakers <- MCJoinWakers
  NoWaker = NoWaker
  MaxWakers = 3
  JoinUses = {"owner", "awaited"}
INVARIANT RefsExact
INVARIANT QueueMatchesNotified
INVARIANT AssertsHold
INVARIANT CellsSafe
PROPERTY JoinWoken
PROPERTY NotifiedIsRun
CHECK_DEADLOCK FALSE
