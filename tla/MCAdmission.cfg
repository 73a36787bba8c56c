SPECIFICATION AdmissionFairSpec
CONSTANTS
  capacity = 3
  Rate = 2
  Per = 3
  IntMax = 7
  MaxGap = 14
  Routes <- MCRoutes
  Pool <- MCPool
  Paths <- MCPaths
  IndexSize = 4
  MaxCuts = 2
INVARIANTS TypeOK LongestPrefix Balanced
PROPERTIES NeverOverPasses KeepsPassing
