CONSTANTS
  a = a
  b = b
  NoFile = NoFile
  Failed = Failed
  Class = {"spam", "ham"}
  Word = {a, b}
  None = None
  Files <- DataFiles
  Workers = {0, 1, 2, 3, 4}
  RatioNum = 4
  RatioDen = 5
SPECIFICATION Spec
INVARIANTS TypeOK EveryRowOnce FederatedIsCentral Distributions SameVerdictUnlessTied
CHECK_DEADLOCK FALSE
