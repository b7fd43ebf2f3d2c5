CONSTANTS
  Kinds <- OneOfEach
  Times <- FourTimes
  Vals <- FewVals
  BucketBudgets = {1, 2, 3}
  Filters <- SomeFilters
  RowBudgets = {1, 2}
  MaxSamples = 3
  MaxDisorder = 1
SPECIFICATION Spec
INVARIANTS BucketsExact StateAgrees BoundsExact    
