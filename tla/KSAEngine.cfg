\* The memory of the test benches, old data on a write, on the identity table.
CONSTANTS
  N = 4
  Garbage = {0, 2}
  NewDataOnWrite = FALSE
  Tables <- IdentityOnly
SPECIFICATION FairSpec
INVARIANTS EngineTypeOK RoundKeepsPermutation
PROPERTIES ImplementsKeySchedule PassEnds
