SPECIFICATION FairSpec
CHECK_DEADLOCK FALSE
CONSTANTS
  Mine <- TwoEdits
  Others <- OneOther
  MaxTries = 2
  MaxFaults = 1
  MaxOpenings = 2
INVARIANT CanvasTypeOK
PROPERTIES NoLostUpdate WorkKept EditsSettle
