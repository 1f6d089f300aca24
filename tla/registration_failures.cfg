SPECIFICATION Spec
CONSTANTS
  Names = {1, 2, 3, 4}
  MaxTuners = 3
  Failures = {"platform", "class", "region", "adapter", "data", "cdev"}
INVARIANTS TypeOK IdsAgree AdapterPerTuner OopsNeedsFailure RegionCovers
CHECK_DEADLOCK FALSE
