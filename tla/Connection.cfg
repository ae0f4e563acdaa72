SPECIFICATION Spec
CONSTANTS
  MaxRetry = 2
  Base = {"a", "b"}
  FirstBase = "a"
  Reloader = {"web", "mqtt"}
  MaxClients = 3
  MaxLosses = 1
CHECK_DEADLOCK FALSE
INVARIANTS OnlineWhenConnected HandleIsAlive ClientRuns
PROPERTIES ComesOnline
