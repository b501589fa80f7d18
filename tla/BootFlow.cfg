SPECIFICATION FairSpec
CONSTANTS
  Populations <- MCPopulations
  Configs <- MCConfigs
  Rows = 25
  TicksPerSecond = 2
  DrainLimit = 2
  KeyBuffer = 2
  Unset = Unset
  Any = Any
INVARIANTS
  TypeOK
  NoUnattendedBootWhenMissing
  NoStaleAnswer
  FullDelayBeforeBoot
  TouchedScreenNeverBoots
  RefusedShutdownHolds
  PageShowsSomething
PROPERTIES
  RelaunchNeedsOperator
  ImplementsPolicy
  UntouchedCountdownBoots
  EveryTurnReachesTheOperator
