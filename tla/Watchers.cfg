SPECIFICATION Spec
CONSTANTS
  FailsBefore = {}
  FailsAfter = {}
  Ids = {"c1"}
  Addresses = {"w1"}
  Kinds = {"health", "player"}
  Threads = {"health", "perf", "players"}
  Topics = {"server", "mspt", "disk", "playit", "player", "new_player"}
  MaxEvents = 3
  Readable = {TRUE}
  Names = {"p1"}
  Always = {"server", "mspt", "disk"}
  Companions = {"playit"}
  Subject <- MCSubject
  HealthPolls = 2
  LagPolls = {1, 2}
CHECK_DEADLOCK FALSE
INVARIANTS IncidentsAreOutages SentAsConfigured ShownOnlineIsOnline
PROPERTIES AlertsSettle
