SPECIFICATION Spec
CONSTANTS
  Services = {"web","migrate"}
  Migrate = "migrate"
  Top = 3
  MaxRuns = 3
  MaxKills = 1
  None = None
INVARIANT KeptIsRunning
CHECK_DEADLOCK FALSE
