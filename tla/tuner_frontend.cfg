SPECIFICATION FairSpec
CONSTANTS
  Self = "self"
  Freqs = {52000000, 600000000}
  Files <- AllFiles
  Edits <- OtherFiles
  Models = {"hdhomerun_dvbt", "hdhomerun_atsc", "hdhomerun4"}
  Strengths = {1, 100}
INVARIANTS TypeOK AsConfigured LockMeansTuned StrengthExact
PROPERTY TuneCatchesUp
