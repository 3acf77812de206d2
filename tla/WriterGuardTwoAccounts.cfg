CONSTANTS
  w1 = w1
  w2 = w2
  w3 = w3
  Writers <- MCWriters
  NoWriter = NoWriter
  UserOf <- MCTwoUsers
  MaxAttempts = 2
  MaxStamp <- MCMaxStamp
SPECIFICATION Spec
INVARIANTS SingleLiveWriter
CHECK_DEADLOCK FALSE
