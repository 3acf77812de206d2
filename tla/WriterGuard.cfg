CONSTANTS
  w1 = w1
  w2 = w2
  w3 = w3
  Writers <- MCWriters
  NoWriter = NoWriter
  UserOf <- MCOneUser
  MaxAttempts = 2
  MaxStamp <- MCMaxStamp
SPECIFICATION FairSpec
INVARIANTS SingleLiveWriter RemovesOnlyInspected CommitsUnderOwnership
PROPERTIES LiveSlotUntouched ImplementsCanonicalWriter CallsReturn 
CHECK_DEADLOCK FALSE
