SPECIFICATION Spec
CONSTANTS
  Names = {a, b}
  Roles = {"owner", "viewer"}
  Managers = {"owner"}
  OwnerRole = "owner"
  YamlUsers = {a}
  Tokens = {k}
  Threads = {t1}
  MaxPasswords = 3
  MaxSessions = 3
  MaxPerUser = 2
  MaxKills = 1
  MaxRequests = 7
  FailsBefore = {"users", "passwords", "totp", "tokens"}
  FailsAfter = {"passwords", "totp", "tokens"}
INVARIANTS NoInheritance DisconnectedStaysOut RestartChangesNothing
CHECK_DEADLOCK FALSE
