SPECIFICATION PageSpec
CONSTANTS
  Pages <- MCPages
  Site = "site"
  Options <- MCOptions
  Urls <- MCUrls
  MaxPages = 3
  MaxGeneration = 3
  MaxProbes = 1
  MaxLinksToCheck = 2
  MaxConcurrentChecks = 2
CHECK_DEADLOCK FALSE
INVARIANTS
  PageTypeOK
  PartsComplete
  ReportComplete
  BlamedAfterFailures
PROPERTIES
  AnalysisEnds
