SPECIFICATION Spec
CONSTANTS
  NumDirs = 4
  MaxSize = 2
  MaxJobsRetained = 2
  MaxTotalJobBytes = 3
INVARIANTS TypeOK PlanIsDoomed OldestFirst LimitsMet NoNeedlessDelete
CHECK_DEADLOCK FALSE
