\* One piece of evidence, two environments and one file that drift once: enough
\* for a stale write-back, or a torn record, between two refreshes.
SPECIFICATION FreshnessSpec
CONSTANTS
  Environment = {"v1", "v2"}
  SourceFile = {"sf"}
  Content = {"x"}
  Need = {"n1"}
  MaxLineage = 1
  MaxDrift = 1
  Missing = Missing
INVARIANT DriftInvalidates
CHECK_DEADLOCK FALSE
