SPECIFICATION Spec
CONSTANTS
  UndersizedDays = 1
  HysteresisBadDays = 0
  AtRiskDays = 1
  MinDaysPresent = 1
  Platform = {"loki"}
  Node <- MCNode
  SystemOf <- MCSystemOf
  Content <- MCContent
  Month <- MCMonth
  NoHardware = "none"
  MinDayAge = 1
  MaxDayAge = 1
  WindowDays = 1
  MinDistinctSystems = 2
  MinNodes = 2
  RecomputeBatch = 2
  MonthlyRollupDays = 2
  Retention = 3
  MaxOutage = 1
  MaxDay = 4
  MaxReports = 3
  MaxVersion = 2
INVARIANTS
  WindowOfOneDefinition
CHECK_DEADLOCK FALSE
