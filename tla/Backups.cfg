SPECIFICATION Spec
CONSTANTS
  FailsBefore = {"profiles"}
  FailsAfter = {}
  Profiles = {"auto", "extra"}
  Deletable = {"auto", "extra"}
  Seed <- MCSeed
  Seeded <- MCSeeded
  Configs <- MCConfigs
  MaxArchives = 3
  Start = 7
  MaxTime = 8
  DayLength = 2
  MonthDays = 2
  KeepDays = 1
  KeepMonths = 1
  MaxEvents = 2
  DailyAt = 1
  Every = 2
  Leftovers = {TRUE, FALSE}
CHECK_DEADLOCK FALSE
INVARIANTS AcceptedIsRestorable MonthsCovered OncePerDay FailureIsTrue
PROPERTIES CyclesConclude EventuallyVerified
